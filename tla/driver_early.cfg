SPECIFICATION Spec
CONSTANTS
  Gestures = {e, music}
  Control = Control
  Bits = {e, music, Control}
  Decoded <- Numbers
  Users = {owner}
  SYSTEM = owner
  Rog3 = FALSE
  MaxInbox = 2
  NoPage = NoPage
  Unset = Unset
  NoNumber = NoNumber
PROPERTIES OneAtATime

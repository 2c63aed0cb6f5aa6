SPECIFICATION Spec
CONSTANTS
  Gestures = {e}
  Control = Control
  Bits = {e, Control}
  Decoded <- Numbers
  Users = {owner}
  SYSTEM = owner
  Rog3 = FALSE
  MaxInbox = 2
  NoPage = NoPage
  Unset = Unset
  NoNumber = NoNumber
SYMMETRY GestureSymmetry
INVARIANTS GloveAsSet

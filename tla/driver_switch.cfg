SPECIFICATION Spec
CONSTANTS
  Gestures = {e}
  Control = Control
  Bits = {e, Control}
  Decoded <- Numbers
  Users = {owner, guest}
  SYSTEM = owner
  Rog3 = FALSE
  MaxInbox = 4
  NoPage = NoPage
  Unset = Unset
  NoNumber = NoNumber
SYMMETRY GestureSymmetry
INVARIANTS SwipeUpAsSet

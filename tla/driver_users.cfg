SPECIFICATION Spec
CONSTANTS
  Gestures = {e, music}
  Control = Control
  Bits = {e, music, Control}
  Decoded <- Answers
  Users = {owner, guest}
  SYSTEM = owner
  Rog3 = FALSE
  MaxInbox = 3
  NoPage = NoPage
  Unset = Unset
  NoNumber = NoNumber
SYMMETRY GestureSymmetry
INVARIANTS InForceIsStored OnlyUserFollowed

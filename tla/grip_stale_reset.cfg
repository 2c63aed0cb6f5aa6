SPECIFICATION Spec
CONSTANTS
  Slots = {m1, m2, m3}
  RetryLimit = 9
  ResetDelay = 30
  NoMessage = NoMessage
INVARIANTS UnboundIsNotConnected

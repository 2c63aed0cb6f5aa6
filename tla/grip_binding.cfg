SPECIFICATION FairSpec
CONSTANTS
  Slots = {m1, m2}
  RetryLimit = 9
  ResetDelay = 30
  NoMessage = NoMessage
INVARIANTS BindingIsWatched
PROPERTIES BindingEnds

CONSTANTS
  ROUNDS = 6
  SYNC_EVERY = 2
  Capacity = 6
  MaxReadErrors = 2
SPECIFICATION Spec
INVARIANT NoLostWakeup
INVARIANT LagIsErrors
INVARIANT NoMessageLost
PROPERTY Terminates
CHECK_DEADLOCK FALSE

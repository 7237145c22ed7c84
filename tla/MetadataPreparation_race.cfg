SPECIFICATION Spec
CONSTANTS
  Items = {1}
  Workers = {w1, w2}
  Resolvers = {r1}
  BatchSize = 1
  MaxAttempts = 3
  MaxPending = 1
  Legacy = {"textless", "full"}
  Contents = {"textless", "partial", "full"}
  MaxWrites = 2
  MaxCrashes = 1
  MaxSwitches = 1
SYMMETRY Symmetry
INVARIANTS TypeOK AttemptsBounded OneFence DoneHasDetail
PROPERTIES StaleIsNeverPersisted DoneIsEnqueued SettledIsFinal
CHECK_DEADLOCK FALSE

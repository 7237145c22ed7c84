SPECIFICATION FairSpec
CONSTANTS
  Items = {1, 2}
  Workers = {w1}
  Resolvers = {r1, r2}
  BatchSize = 2
  MaxAttempts = 2
  MaxPending = 1
  Legacy = {}
  Contents = {"textless", "full"}
  MaxWrites = 0
  MaxCrashes = 1
  MaxSwitches = 0
INVARIANTS PendingBounded
PROPERTIES PreparationEnds AdmittedEventually
CHECK_DEADLOCK FALSE

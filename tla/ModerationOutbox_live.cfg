SPECIFICATION FairSpec
CONSTANTS
  Items = {i1}
  Texts = {t1}
  Revisions = {r1, r2}
  Workers = {w1}
  BatchSize = 1
  MaxAttempts = 2
  MayBeIncomplete = FALSE
  NoText = NoText
  NoHash = NoHash
  MaxWrites = 1
  MaxCrashes = 0
  MaxDeploys = 1
PROPERTIES LeaseIsReleased WaitingEnds
CHECK_DEADLOCK FALSE

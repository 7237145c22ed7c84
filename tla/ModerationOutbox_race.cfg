\* One item whose text flips between two values, two workers, a crash.
SPECIFICATION Spec
CONSTANTS
  Items = {i1}
  Texts = {t1, t2}
  Revisions = {r1}
  Workers = {w1, w2}
  BatchSize = 2
  MaxAttempts = 2
  MayBeIncomplete = TRUE
  NoText = NoText
  NoHash = NoHash
  MaxWrites = 3
  MaxCrashes = 1
  MaxDeploys = 0
SYMMETRY Symmetry
INVARIANTS TypeOK SoleClaimant FencedOutIsUnknown DoneIsJudged LostIsNeverResent
PROPERTIES SettledIsFinal ImplementsLifecycle
CHECK_DEADLOCK FALSE

SPECIFICATION FairSpec
CONSTANTS
  Items = {i1}
  Texts = {t1, t2}
  Revisions = {r1}
  Workers = {w1}
  BatchSize = 1
  MaxAttempts = 2
  MayBeIncomplete = FALSE
  NoText = NoText
  NoHash = NoHash
  MaxWrites = 3
  MaxCrashes = 0
  MaxDeploys = 0
PROPERTIES HomepageHeals
CHECK_DEADLOCK FALSE

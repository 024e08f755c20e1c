SPECIFICATION FairSpec
CONSTANTS
  MaxHeight = 2
  Hashes = {canon}
  Canon = canon
  Workers = {w1, w2}
  ValidationLevel = 2
  BatchSize = 2
  MaxLive = 3
  MaxResets = 1
  MaxValidated = 2
INVARIANTS PassIsolation ExclusiveHeights
PROPERTIES GapsFilled ValidationCatchesUp
CHECK_DEADLOCK FALSE

SPECIFICATION Spec
CONSTANTS
  Ids = {c1, c2}
  Settings <- ServedSettings
  PayloadChanBufferSize = 1
  MaxHeight = 2
  MaxForks = 1
  MaxPayloads = 1
  BackFilling = TRUE
SYMMETRY IdSymmetry
INVARIANTS TypesAgree ToldBeforeDropped LiveInRange HistoricalClamped
CHECK_DEADLOCK FALSE

SPECIFICATION FairSpec
CONSTANTS
  Limit = 2
  BatchSize = 2
  MaxStart = 1
  MaxFirst = 9
  MaxItems = 1
INVARIANTS ActiveExact DoneMeansCovered
PROPERTIES EndsOrStalls
CHECK_DEADLOCK FALSE

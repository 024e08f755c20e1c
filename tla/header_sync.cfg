SPECIFICATION Spec
CONSTANTS
  StartingBlock = 0
  WindowSize = 1
  MaxBatchSize = 2
  MaxHead = 2
  MaxReorgs = 1
  MaxFaults = 1
INVARIANT NoDuplicateHeaders
PROPERTY HeadersConverge

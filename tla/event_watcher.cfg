SPECIFICATION Spec
CONSTANTS
  Transformers <- MCTransformers
  Blocks <- MCBlocks
  LogsOf <- MCLogsOf
  CheckCount = 1
  MaxId = 2
  MaxFaults = 2
INVARIANT CheckedMeansExtracted
INVARIANT EventsExact
PROPERTY EventsTransformed
CHECK_DEADLOCK FALSE

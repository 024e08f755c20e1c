SPECIFICATION Spec
CONSTANTS
  Contracts = {"c", "d"}
  Raws <- MCRaws
  Abi <- MCAbi
  Plain = {"m", "n", "k", "x"}
  Arity <- MCArity
  Returns <- MCReturns
  Blocks <- MCBlocks
  LogsOf <- MCLogsOf
  MaxId = 2
  MaxFaults = 2
INVARIANT CheckedMeansPersisted
INVARIANT MissedPollsNeedFailure
PROPERTY StartCatchesUp
CHECK_DEADLOCK FALSE

SPECIFICATION FairSpec
CONSTANTS
  Diffs = {d1, d2}
  Contracts = {a}
  Contract <- SameContract
  None = None
  MaxCopies = 2
  MaxCrashes = 1
  MaxMishaps = 1
INVARIANTS AccountedFor RunsBounded
PROPERTIES QueuedTransformed
CHECK_DEADLOCK FALSE

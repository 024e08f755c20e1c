SPECIFICATION Spec
CONSTANTS
  Blocks <- MCBlocks
  NumberOf <- MCNumberOf
  Contents <- MCContents
  Configs <- MCConfigs
  Workers = {w1, w2}
  MaxValidated = 2
INVARIANTS ReferencedStored SectionsWhole ResyncRestores
PROPERTY ResyncEnds

SPECIFICATION FairSpec
CONSTANTS
  Ids = {c1}
  Settings <- MixedSettings
  PayloadChanBufferSize = 1
  MaxHeight = 2
  MaxForks = 2
  MaxPayloads = 2
  BackFilling = TRUE
PROPERTIES QuitEndsRelay FeedsEnd
CHECK_DEADLOCK FALSE

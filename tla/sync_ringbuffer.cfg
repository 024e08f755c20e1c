SPECIFICATION FairSpec
CONSTANTS
  Workers = {w1, w2}
  PayloadChanBufferSize = 1
  MaxPayloads = 3
  Serving = FALSE
PROPERTY RingBufferAccepts
CHECK_DEADLOCK FALSE

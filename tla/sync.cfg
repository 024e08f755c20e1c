SPECIFICATION FairSpec
CONSTANTS
  Workers = {w1, w2}
  PayloadChanBufferSize = 2
  MaxPayloads = 3
  Serving = TRUE
INVARIANTS OnePlace OldestFirst
PROPERTIES ImplementsLossyFIFO WorkersReturn BufferDrains
CHECK_DEADLOCK FALSE

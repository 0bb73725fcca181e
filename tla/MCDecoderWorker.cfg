SPECIFICATION Spec
CONSTANTS
  Frames <- SomeFrames
  KeyType = "KEY"
  MAX_DECODING_BUF = 3
  MaxDispatched = 3
INVARIANTS
  NoLostWakeup
  NothingLost
  OneWriterInOrder
PROPERTIES
  DecodedStream
  EverythingDecoded
CHECK_DEADLOCK FALSE

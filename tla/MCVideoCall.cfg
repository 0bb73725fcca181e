SPECIFICATION Spec
CONSTANTS
  max_payload = 2
  FrameSizes = {1, 3}
  MAX_NUM_RTX = 1
  MAX_UNACKED_US = 0
  TS_MOD = 4
  RTT_MOD = 2
  ClockMayStepBack = FALSE
  NoRtt = NoRtt
  MaxFrames = 4
  MaxClock = 2
  MaxDatagrams = 4
CONSTRAINT BoundedCall
INVARIANTS
  NoSilentStall
  FirstUnackedIsOldest
  NeitherThrows
  FrameIntact
PROPERTY
  GiveUpOnlyAfterTimeout

SPECIFICATION Spec
CONSTANTS
  max_payload = 2
  FrameSizes = {1, 3}
  MAX_NUM_RTX = 2
  MAX_UNACKED_US = 0
  TS_MOD = 4
  RTT_MOD = 2
  ClockMayStepBack = TRUE
  NoRtt = NoRtt
  MaxFrames = 2
  MaxClock = 1
PROPERTY
  GiveUpOnlyAfterTimeout

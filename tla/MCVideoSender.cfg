SPECIFICATION SenderSpec
CONSTANTS
  MaxFrags = 2
  MaxRtx = 1
  MaxExpired = 2
  MaxMsgs = 3
INVARIANTS
  ArmedWhilePending
PROPERTIES
  SendBufDrained
  ErrorNoticed
  InboxDrained
  NoBusyLoop

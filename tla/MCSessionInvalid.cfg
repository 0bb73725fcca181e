SPECIFICATION Spec
CONSTANTS
  Receivers = {r1, r2}
  Configs <- SomeConfigs
  Datagrams <- SomeDatagrams
  StrayMsgs <- SomeStrays
  VideoWidth = 10
  VideoHeight = 9
  BYTE = 8
  Stray = stray
  NoPeer = NoPeer
  MaxInbox = 2
INVARIANT
  InvalidIgnored
CHECK_DEADLOCK FALSE

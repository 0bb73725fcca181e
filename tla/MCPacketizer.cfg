SPECIFICATION Spec
CONSTANTS
  max_payload = 4
  MaxFrameSize = 60
INVARIANTS
  FragmentsCoverFrame
  ComputesPacketize
CHECK_DEADLOCK FALSE

SPECIFICATION Spec
CONSTANTS
  max_payload = 4
  MaxFrameSize = 60
INVARIANT
  PayloadWithinMax
CHECK_DEADLOCK FALSE

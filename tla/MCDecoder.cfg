SPECIFICATION Spec
CONSTANTS
  max_payload = 2
  Incoming <- ShortStream
INVARIANTS
  CompleteMeansWhole
  NoStaleFrames
  NoAcknowledgedFrameLost
PROPERTY
  StreamSpec

SPECIFICATION Spec
CONSTANTS
  display_width = 2
  display_height = 2
  Headers <- SomeHeaders
  MaxFrames = 3
  MaxReads = 7
  NUM_BUFFERS = 3
  cam_width = 4
  cam_height = 4
  MaxCaptured = 5
  MaxEvents = 2
  NoBuffer = NoBuffer
INVARIANTS
  EndsForAReason
  BuffersConserved
PROPERTIES
  FileInOrder
  CameraInOrder
  ReadReturns
  QuitNoticed
CHECK_DEADLOCK FALSE

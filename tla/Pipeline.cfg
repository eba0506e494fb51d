\* Two channels, one buffer per pipe, batches of one.
CONSTANTS
  b1 = b1
  NoBuffer = NoBuffer
  NumChannels = 2
  Buffers = {b1}
  BatchSize = 1
  Builds = {FALSE}
  Labels = 1
  SemMax = 3
  DecoderErrors = TRUE
  SetupFails = FALSE
SPECIFICATION Spec
INVARIANTS
  BuffersAccounted
  CleanExit
  DisplayQueue
  NoCircularWait
PROPERTY ShutdownSteps
CHECK_DEADLOCK FALSE

\* Two channels, two buffers per pipe, no SIGINT, no decoder errors.
CONSTANTS
  b1 = b1
  b2 = b2
  NoBuffer = NoBuffer
  Buffers = {b1, b2}
  NumChannels = 2
  BatchSize = 1
  Builds = {FALSE}
  Labels = 1
  SemMax = 2
  DecoderErrors = FALSE
  SetupFails = FALSE
SPECIFICATION RunningSpec
PROPERTY NoStall
CHECK_DEADLOCK FALSE

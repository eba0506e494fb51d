\* One channel, one buffer, no decoder errors.
CONSTANTS
  b1 = b1
  NoBuffer = NoBuffer
  NumChannels = 1
  Buffers = {b1}
  BatchSize = 1
  Builds = {FALSE}
  Labels = 1
  SemMax = 3
  DecoderErrors = FALSE
  SetupFails = FALSE
SPECIFICATION FairSpec
PROPERTY ShutdownCompletes
CHECK_DEADLOCK FALSE

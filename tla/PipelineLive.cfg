\* One channel, one buffer, batches of two, two frame numbers, no decoder errors.
CONSTANTS
  b1 = b1
  NoBuffer = NoBuffer
  NumChannels = 1
  Buffers = {b1}
  BatchSize = 2
  Builds = {TRUE, FALSE}
  Labels = 2
  SemMax = 3
  DecoderErrors = FALSE
  SetupFails = TRUE
SPECIFICATION FairSpec
INVARIANTS
  NumberUntilRecycled
  ShutdownWakes
PROPERTIES
  ThreadsStop
CHECK_DEADLOCK FALSE

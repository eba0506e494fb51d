\* Two channels of 4 and 3 frames, one buffer per pipe, batches of 1 and 2.
CONSTANTS
  NumChannels = 2
  NumBuffers = 1
  BatchSize = 1
  NUM_OF_CPU_BATCH = 2
  MaxFrames = 4
  MaxOther = 3
SPECIFICATION Spec
INVARIANTS
  BuffersAccounted
  TokensKept
  
  RestsWhenDone
  ShutdownWakes
  CleanExit
PROPERTY ShutdownSteps
CHECK_DEADLOCK FALSE

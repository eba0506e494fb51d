\* The numbers of the program and of its documented command line: a key frame
\* every 6 frames, 20 buffers, batches of 6; surfaces in abundance.
CONSTANTS
  NumChannels = 1
  KeyInterval = 6
  KcfBuffers = 20
  InferBuffers = 100
  BatchSize = 6
  NumDecSurf = 24
  NumVppIn = 1
  MAX_NUM_TRACK_OBJECT = 1
  Labels = 24
  MaxRefs = 0
  VppSkips = FALSE
SPECIFICATION Spec
INVARIANT NeverWedged
CHECK_DEADLOCK FALSE

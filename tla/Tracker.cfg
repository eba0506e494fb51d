\* One channel; a key frame every 2 frames, batches of 1.
CONSTANTS
  NumChannels = 1
  KeyInterval = 2
  KcfBuffers = 2
  InferBuffers = 3
  BatchSize = 1
  NumDecSurf = 3
  NumVppIn = 2
  MAX_NUM_TRACK_OBJECT = 1
  Labels = 4
  MaxRefs = 1
  VppSkips = TRUE
SPECIFICATION FairSpec
INVARIANTS
  SurfacesCounted
  RegionsCurrent
  NeverWedged
PROPERTY KeyFramesServed
CHECK_DEADLOCK FALSE

\* One decoder and two readers on one pipe of two buffers, four frames.
CONSTANTS
  p1 = p1
  c1 = c1
  c2 = c2
  b1 = b1
  b2 = b2
  NoBuffer = NoBuffer
  Producers = {p1}
  Consumers = {c1, c2}
  Buffers = {b1, b2}
  MaxFrames = 4
SPECIFICATION FairSpec
INVARIANTS
  BuffersAccounted
  NoLostWakeup
  
PROPERTIES
  ImplementsFramePools
  GetReturnsAfterStop
  WaitersAreServed
CHECK_DEADLOCK FALSE

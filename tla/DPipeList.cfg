\* Four buffers: lists of length 0, 1, 2 and more in both pools.
CONSTANTS
  b1 = b1
  b2 = b2
  b3 = b3
  b4 = b4
  NULL = NULL
  Buffers = {b1, b2, b3, b4}
SPECIFICATION Spec
INVARIANTS
  ListsWellFormed
PROPERTIES
  ImplementsFramePools

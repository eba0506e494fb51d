\* Two sessions, four allocations of one or two frames, two holders each.
CONSTANTS
  s1 = s1
  s2 = s2
  Sessions = {s1, s2}
  MaxFrames = 2
  MaxAllocs = 4
  MaxHolds = 2
SPECIFICATION Spec
INVARIANTS
  RefCountExact
  
CHECK_DEADLOCK FALSE

SPECIFICATION Spec
CONSTANTS
  Runs = {r1, r2}
  Contents = {x, y}
  Fragment = Fragment
  MaxEvents = 3
SYMMETRY MCSymmetry
INVARIANTS
  MemoryVerifies
  FileFollowsMemory
  GapShows
  AlterationShows
CHECK_DEADLOCK FALSE

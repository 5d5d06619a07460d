\* Two addresses, two requests at a time, a window of three ticks of one
\* second, and a clock that runs for more than two windows.
CONSTANTS
  i1 = i1
  i2 = i2
  r1 = r1
  r2 = r2
  Ips = {i1, i2}
  Reqs = {r1, r2}
  Limits = {0, 1, 2}
  Window = 3
  Second = 1
  MaxDelay = 1
  MaxCount = 3
  MaxTime = 8
SYMMETRY Symmetry
SPECIFICATION HSpec
INVARIANTS
  TypeOK
  MemoryBound
  SlidingBound
PROPERTIES
  ImplementsFixedWindow

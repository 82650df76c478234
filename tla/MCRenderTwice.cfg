SPECIFICATION Spec
CONSTANTS
  p1 = p1
  p2 = p2
  c1 = c1
  c2 = c2
  c3 = c3
  b1 = b1
  b2 = b2
  Procs = {p1, p2}
  Calls = {c1, c2, c3}
  Bodies = {b1, b2}
  NoCall = NoCall
  Setups <- KeptRow
  MaxFaults = 1
  MaxCrashes = 0
INVARIANT OneRenderPerKey
CHECK_DEADLOCK FALSE

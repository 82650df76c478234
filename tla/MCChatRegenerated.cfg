SPECIFICATION Spec
CONSTANTS
  c1 = c1
  c2 = c2
  k1 = k1
  k2 = k2
  a1 = a1
  a2 = a2
  Calls = {c1, c2}
  Keys = {k1, k2}
  Accounts = {a1, a2}
  NoCall = NoCall
  Setups <- Refallen
  ResidualCap = 1
  MaxDeltas = 2
  MaxFaults = 1
INVARIANTS NoDuplicateGeneration
CHECK_DEADLOCK FALSE

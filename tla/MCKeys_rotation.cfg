SPECIFICATION KeysSpec
CONSTANTS
  Requests = {r1, r2, r3}
  MaxHistory = 2
  MaxKeys = 5
  MaxWrites = 2
  MaxFaults = 1
SYMMETRY Symmetry
CHECK_DEADLOCK FALSE
INVARIANTS
  KeysRetained
  MemoryFresh

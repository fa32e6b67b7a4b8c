SPECIFICATION FairSpec
CONSTANTS
  Makers = {m1, m2}
  Calls = {c1}
  MaxShares = 2
  MaxChanges = 3
  MaxFaults = 1
CHECK_DEADLOCK FALSE

  
  
PROPERTY
  LapsedIsRemoved

SPECIFICATION Spec
CONSTANTS
  Requests = {r1, r2}
  Kinds = {"signIn", "refresh", "access", "critical", "reauth", "signOut", "logoutAll"}
  MaxId = 2
  MaxReset = 0
  MaxPassword = 0
  MaxClock = 3
  RefreshLife = 1
  SessionLife = 2
  Idle = 2
  Interval = 1
  Window = 1
  ResetLife = 0
SYMMETRY Symmetry
INVARIANTS
  MarksAreConfirmed
  ActivityOnRecord

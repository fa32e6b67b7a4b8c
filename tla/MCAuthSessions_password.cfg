SPECIFICATION Spec
CONSTANTS
  Requests = {r1, r2}
  Kinds = {"signIn", "refresh", "password", "adminPassword", "adminRevoke", "request", "reset"}
  MaxId = 3
  MaxReset = 2
  MaxPassword = 2
  MaxClock = 2
  RefreshLife = 0
  SessionLife = 2
  Idle = 2
  Interval = 1
  Window = 1
  ResetLife = 0
SYMMETRY Symmetry
INVARIANTS
  OneTokenPerSignIn
  OldPasswordOnlyFromRaces
  ResetOnce

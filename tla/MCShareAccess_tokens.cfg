SPECIFICATION Spec
CONSTANTS
  owner = owner
  ana = ana
  t1 = t1
  Keep = Keep
  None = None
  Clients = {owner, ana}
  Privileged = {owner}
  Routes = {"page", "token"}
  Events = {"expire", "restart"}
  Requests = {r1}
  Patches = {p1}
  Tokens = {t1, t2}
  InitCookie <- NobodyHasToken
  Limits = {0, 1, 2}
  InitLimit = 1
  Bodies <- MCPasswordBodies
  Gap = 1
  TokenLife = 2
  MaxClock = 2
  MaxCount = 0
  MaxPassword = 2
SYMMETRY Symmetry
INVARIANTS
  StaleTokensOnlyFromRaces

SPECIFICATION Spec
CONSTANTS
  owner = owner
  ana = ana
  t1 = t1
  Keep = Keep
  None = None
  Clients = {owner, ana}
  Privileged = {owner}
  Routes = {"download", "zip", "cert", "certzip"}
  Events = {"remove", "restart"}
  Requests = {r1, r2}
  Patches = {p1}
  Tokens = {t1}
  InitCookie <- AnaHasToken
  Limits = {0, 1, 2}
  InitLimit = 2
  Bodies <- MCLimitBodies
  Gap = 1
  TokenLife = 2
  MaxClock = 1
  MaxCount = 3
  MaxPassword = 0
SYMMETRY Symmetry
INVARIANTS
  DownloadsWithinLimits
  DownloadsArePaid

SPECIFICATION Spec
CONSTANTS
  owner = owner
  ana = ana
  t1 = t1
  Keep = Keep
  None = None
  Clients = {owner, ana}
  Privileged = {owner}
  Routes = {"stream"}
  Events = {"remove", "restart"}
  Requests = {r1, r2}
  Patches = {p1}
  Tokens = {t1}
  InitCookie <- AnaHasToken
  Limits = {0, 1, 2}
  InitLimit = 1
  Bodies <- MCLimitBodies
  Gap = 0
  TokenLife = 2
  MaxClock = 2
  MaxCount = 2
  MaxPassword = 0
SYMMETRY Symmetry
INVARIANTS
  ViewsWithinLimits
  StreamsArePaid
PROPERTIES
  PlaybackNotCutOff
  MetersViews

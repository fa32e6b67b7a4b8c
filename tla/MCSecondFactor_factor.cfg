SPECIFICATION Spec
CONSTANTS
  Requests = {r1, r2}
  MaxLogins = 2
  MaxSecrets = 2
  MaxCodes = 2
  MaxFaults = 1
SYMMETRY Symmetry
CHECK_DEADLOCK FALSE
INVARIANTS
  RedeemedOnce
  VerifiedIsProven
  CodesMatchFactor

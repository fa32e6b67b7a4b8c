SPECIFICATION Spec
CONSTANTS
  Users = {u1, u2}
  Requests = {r1, r2}
  Bodies <- MCBodies
SYMMETRY Symmetry
INVARIANTS
  OneFounder
PROPERTIES
  AdministratorRemains
  SweepsNeverActive

SPECIFICATION Spec
CONSTANTS
  w1 = w1
  w2 = w2
  NoUser = NoUser
  Genesis = Genesis
  Writers = {w1, w2, verifier}
  Verifier = verifier
  Users = {ana}
  Events = {check, login}
  Report = check
  Hash <- MCHash
  BatchSize = 2
  MaxSeq = 3
  MaxTampered = 1
SYMMETRY Symmetry
INVARIANTS
  ChainLinked
  LostOnlyToTwo
  AlarmIsTrue
  ValidMeansIntact
  MirrorKeepsEvidence
PROPERTY
  ImplementsTrail

SPECIFICATION Spec
CONSTANTS
  video = video
  note = note
  NoFile = NoFile
  Files = {video, note}
  Videos = {video}
  Calls = {c1, c2}
  MaxEvents = 2
  MaxFaults = 2
SYMMETRY Symmetry
CHECK_DEADLOCK FALSE
INVARIANTS
  ReadyMeansWhole
  ReadyHoldsAll
  CertificatesMatch
  AnnouncedOrLost

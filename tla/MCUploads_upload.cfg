SPECIFICATION FairSpec
CONSTANTS
  video = video
  note = note
  Files = {video, note}
  Bytes <- MCBytes
  Suspects = {note}
  ChunkSize = 2
  ShareLimit = 6
  MaxFileSize = 0
  Requests = {1, 2}
  MaxIds = 6
  MaxEvents = 2
INVARIANTS
  RecordedWhole
  LimitOnlyRaced
  TwiceOnlyUnheard
  DoneIsRecorded
  StoppedOnlyUnheard
PROPERTY
  UploadsEnd

SPECIFICATION PlayerFairSpec
CONSTANTS
  Track = {"t1", "t2"}
  MaxCommands = 3
  FileLen = 3
  MaxSeeks = 1
  PcmLimit = 2
CHECK_DEADLOCK FALSE
INVARIANTS
  PlayerInv
  OneDownload
  CalmPlayerIsRight
PROPERTIES
  CallsReturn
  TrackEnds

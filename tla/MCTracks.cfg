SPECIFICATION TracksSpec
CONSTANTS
  Key = {"k1", "k2", "k3"}
  Buckets = 2
  Bucket <- SharedBucket
  MaxNodes = 2
  MaxRefs = 2
CHECK_DEADLOCK FALSE
INVARIANTS
  TracksInv
  OnlyRacesGoAstray
  ReferencesAreGood
  GcMissesNothing

SPECIFICATION Spec
CONSTANTS
  FileRecs = 2
  CacheSize = 1
  FilesMax = 2
  MaxRN = 3
  Pods = {1, 2, 3}
  MaxHeld = 3
  MaxQueue = 2
  MaxPurges = 1
  MaxCrashes = 1
  InOrder = FALSE
  DelQueued = FALSE
INVARIANTS
  TypeOK
  Durable
  Readable
  VersionsErased
\* The application may have nothing more to do.
CHECK_DEADLOCK FALSE

SPECIFICATION FairSpec
CONSTANTS
  NumFiles = 3
  Size <- ThreeFiles
  MaxBatches = 2
  Cap = 3
  ReadAhead = 2
  DiskRoom = 2
  MaxTears = 1
  MaxDamage = 1
  MaxToggles = 1
INVARIANTS
  TypeOK
  OnlyWholeFilesPlaced
  BothEndsAgree
PROPERTIES
  KeepsThePromise
  UploadSettles
CHECK_DEADLOCK FALSE

SPECIFICATION FairSpec
CONSTANTS
  Sizes = {1,2}
  MaxPending = 2
  MaxWire = 2
  PaintPieces = 2
  Rounds = 2
  MaxOutput = 4
  MaxDials = 2
  MaxResizes = 1
INVARIANTS
  TypeOK
  NothingIsMissed
  SizesAgree
PROPERTIES
  CatchesUp
CHECK_DEADLOCK FALSE

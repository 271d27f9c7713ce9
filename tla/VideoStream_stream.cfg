SPECIFICATION FairSpec
CONSTANTS
  Sizes = {1,2}
  MaxPending = 2
  MaxQueued = 1
  MaxFrames = 3
  MaxUpsets = 1
INVARIANTS
  TypeOK
  FramesInOrder
  DamageIsBeingRepaired
  SurfaceLetGo
PROPERTIES
  SurfaceCallReturns

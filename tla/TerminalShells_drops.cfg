SPECIFICATION Spec
CONSTANTS
  v1 = v1
  v2 = v2
  NoPeer = NoPeer
  Viewers = {v1, v2}
  MaxSessions = 1
  DeferOpen = TRUE
  MaxDials <- FirstTwice
  MaxPicks <- SecondTwice
INVARIANTS
  TypeOK
  WindowsMatchShells
PROPERTIES
  LocalIsForGood
CHECK_DEADLOCK FALSE

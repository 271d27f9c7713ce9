SPECIFICATION FairSpec
CONSTANTS
  p1 = p1
  p2 = p2
  k1 = k1
  NoKey = NoKey
  Peers = {p1, p2}
  Keys = {k1}
  MaxPending = 1
  ResponseTicks = 2
  LingerTicks = 1
  FailureLimit = 3
  WindowTicks = 2
  CooldownTicks = 1
  MaxInbox = 2
INVARIANTS
  TimedUntilLetIn
  PlacesBounded
PROPERTIES
  BlockedKeysWait
  EachIsSettled
  ForgottenLeavesNothing

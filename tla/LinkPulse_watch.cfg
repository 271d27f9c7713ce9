SPECIFICATION PulseSpec
CONSTANTS
  StallAfter = 4
  WatchStep = 2
  PingEvery = 3
  Window = 2
  MaxNow = 14
INVARIANTS
  StallIsWatched
  SilenceIsNoticed

SPECIFICATION FairSpec
CONSTANTS
  c1 = c1
  c2 = c2
  c3 = c3
  a1 = a1
  a2 = a2
  a3 = a3
  Sources = {s1, s2}
  Clients = {c1, c2}
  Addrs = {a1, a2}
  NoAddr = NoAddr
  NoClient = NoClient
  AddrsOf <- HomeAddrs
  MaxViewers = 2
  HoldTicks = 0
  TimeoutTicks = 0
  MaxJoins = 2
INVARIANTS
  TypeOK
  HeldByTheDriver
  SeatsAccounted
PROPERTIES
  VanishedLoseTheirSeats

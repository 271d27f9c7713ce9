SPECIFICATION Spec
CONSTANTS
  c1 = c1
  c2 = c2
  c3 = c3
  a1 = a1
  a2 = a2
  a3 = a3
  Sources = {s1}
  Clients = {c1, c2}
  Addrs = {a1, a2, a3}
  NoAddr = NoAddr
  NoClient = NoClient
  AddrsOf <- RoamingAddrs
  MaxViewers = 2
  HoldTicks = 1
  TimeoutTicks = 1
  MaxJoins = 3
INVARIANT
  HeldKeysHaveAViewer

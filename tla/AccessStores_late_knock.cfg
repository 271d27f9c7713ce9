SPECIFICATION Spec
CONSTANTS
  k1 = k1
  k2 = k2
  k3 = k3
  h1 = h1
  h2 = h2
  t1 = t1
  t2 = t2
  o1 = o1
  o2 = o2
  NoKey = NoKey
  NoHost = NoHost
  NoToken = NoToken
  TheHost = TheHost
  Nobody = Nobody
  Keys = {k1, k2}
  Hosts = {h1, h2}
  Tokens = {}
  Owners = {o1}
  MaxRequests = 3
  MaxAllowed = 2
  MaxTokens = 1
  Ttl = 2
  TokenTtl = 1
  MaxNow = 2
SYMMETRY Symmetry
PROPERTIES
  DenialHolds

SPECIFICATION Spec
CONSTANTS
  k1 = k1
  k2 = k2
  k3 = k3
  h1 = h1
  h2 = h2
  t1 = t1
  t2 = t2
  o1 = o1
  o2 = o2
  NoKey = NoKey
  NoHost = NoHost
  NoToken = NoToken
  TheHost = TheHost
  Nobody = Nobody
  Keys = {k1, k2, k3}
  Hosts = {h1, h2}
  Tokens = {t1, t2}
  Owners = {o1, o2}
  MaxRequests = 2
  MaxAllowed = 1
  MaxTokens = 1
  Ttl = 2
  TokenTtl = 1
  MaxNow = 3
SYMMETRY Symmetry
INVARIANTS
  TypeOK
  OneKeyPerToken
PROPERTIES
  ApprovedWhilePending
  NoRequestComesBack

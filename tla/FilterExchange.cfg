\* A request token is exchanged twice.
CONSTANTS
  t1 = t1
  t2 = t2
  s1 = s1
  k1 = k1
  k2 = k2
  k3 = k3
  k4 = k4
  l1 = l1
  l2 = l2
  l3 = l3
  l4 = l4
  l5 = l5
  NULL = NULL
  NoToken = NoToken
  Threads = {t1, t2}
  Sessions = {s1}
  Tokens = {k1, k2}
  Logins = {l1, l2}
  Capacity = 2
  Requests = {"login", "exchange"}
  MaxHeld = 1
  MaxFaults = 0
  DataRaces = FALSE
SPECIFICATION Spec
SYMMETRY Symmetry
INVARIANT IssuedTokensUsable
CHECK_DEADLOCK FALSE

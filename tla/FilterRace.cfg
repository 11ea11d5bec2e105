\* Two requests of one session at a time.
CONSTANTS
  t1 = t1
  t2 = t2
  s1 = s1
  k1 = k1
  k2 = k2
  k3 = k3
  k4 = k4
  l1 = l1
  l2 = l2
  l3 = l3
  l4 = l4
  l5 = l5
  NULL = NULL
  NoToken = NoToken
  Threads = {t1, t2}
  Sessions = {s1}
  Tokens = {k1, k2}
  Logins = {l1, l2, l3}
  Capacity = 1
  Requests = {"plain", "twoLegged", "oauth", "approve", "login", "exchange"}
  MaxHeld = 1
  MaxFaults = 1
  DataRaces = TRUE
SPECIFICATION Spec
SYMMETRY Symmetry
INVARIANT ServedWithBoth
CHECK_DEADLOCK FALSE

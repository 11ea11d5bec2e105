\* One request after the other: of consumers, of users who authorize them, of LQE.
CONSTANTS
  t1 = t1
  t2 = t2
  s1 = s1
  k1 = k1
  k2 = k2
  k3 = k3
  k4 = k4
  l1 = l1
  l2 = l2
  l3 = l3
  l4 = l4
  l5 = l5
  NULL = NULL
  NoToken = NoToken
  Threads = {t1}
  Sessions = {s1}
  Tokens = {k1, k2, k3}
  Logins = {l1, l2, l3, l4}
  Capacity = 2
  Requests = {"twoLegged", "oauth", "approve", "login", "exchange", "trs"}
  MaxHeld = 1
  MaxFaults = 1
  DataRaces = FALSE
SPECIFICATION FairSpec
INVARIANTS TypeOK CachesAgree
PROPERTY Recovers

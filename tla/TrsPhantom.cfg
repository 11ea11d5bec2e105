\* A Creation whose date cannot be read is repeated by the next scan.
CONSTANTS
  t1 = t1
  t2 = t2
  o1 = o1
  o2 = o2
  m1 = m1
  m2 = m2
  NULL = NULL
  Threads = {t1}
  Orgs = {o1, o2}
  Members = {m1, m2}
  OrgOf <- MCOrgOf
  Undated = {}
  OrderRange = 8
  MaxClock = 3
  MaxFaults = 1
  MaxOrder = 3
  MaxLog = 12
SPECIFICATION Spec
INVARIANT CreationsAreNew
CHECK_DEADLOCK FALSE

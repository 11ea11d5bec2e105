\* Polling goes on until the snapshot is up to date; the order wraps early.
CONSTANTS
  t1 = t1
  t2 = t2
  o1 = o1
  o2 = o2
  m1 = m1
  m2 = m2
  NULL = NULL
  Threads = {t1}
  Orgs = {o1, o2}
  Members = {m1, m2}
  OrgOf <- MCOrgOf
  Undated = {}
  OrderRange = 2
  MaxClock = 3
  MaxFaults = 1
  MaxOrder = 2
  MaxLog = 5
SPECIFICATION FairSpec
PROPERTIES ScanEnds EventuallySynced
\* The clients may stop asking once the log of a wedged provider is at its bound.
CHECK_DEADLOCK FALSE

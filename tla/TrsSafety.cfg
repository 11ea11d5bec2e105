\* Two requests interleaved with a changing platform and failing calls;
\* m2 is a device type without a date.
CONSTANTS
  t1 = t1
  t2 = t2
  o1 = o1
  o2 = o2
  m1 = m1
  m2 = m2
  NULL = NULL
  Threads = {t1, t2}
  Orgs = {o1, o2}
  Members = {m1, m2}
  OrgOf <- MCOrgOf
  Undated = {m2}
  OrderRange = 8
  MaxClock = 4
  MaxFaults = 1
  MaxOrder = 3
  MaxLog = 12
SPECIFICATION Spec
SYMMETRY ThreadSymmetry
INVARIANTS TypeOK LogMatchesSnapshot SegmentsOrdered DatelessOnlyFromBase
PROPERTY KeepsContract
\* The clients may stop asking for the tracked resource set.
CHECK_DEADLOCK FALSE

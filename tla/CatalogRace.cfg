\* Catalog requests race with requests that hold the monitor.  The system
\* stops when reads that never end hold every thread up.
CONSTANTS
  t1 = t1
  t2 = t2
  i1 = i1
  i2 = i2
  b1 = b1
  NULL = NULL
  Threads = {t1, t2}
  IotOrgs = {i1, i2}
  BmxOrgs = {b1}
  Requests = {"catalog", "list", "get"}
  MaxListed = 2
SPECIFICATION FairSpec
INVARIANTS TypeOK CatalogLeadsMap AnswersAreComplete CatalogMatchesMap MonitorListsOnce
PROPERTIES MonitorReleased ListedOnceIfCatalogAlone
CHECK_DEADLOCK FALSE

\* Two threads, one organization, pools of two connections, as HttpClient has.
CONSTANTS
  t1 = t1
  t2 = t2
  NULL = NULL
  Threads = {t1, t2}
  Orgs = {"org"}
  PoolSize = 2
  MaxTokens = 3
SPECIFICATION FairSpec
INVARIANTS TypeOK ConnectionsAccounted
PROPERTIES CallsEnd

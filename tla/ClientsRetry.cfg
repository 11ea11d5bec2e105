\* A listing is refused with 401, and repeated after a login.
CONSTANTS
  t1 = t1
  t2 = t2
  NULL = NULL
  Threads = {t1, t2}
  Orgs = {"org"}
  PoolSize = 2
  MaxTokens = 3
SPECIFICATION FairSpec
PROPERTY RetryCarriesNewToken

\* The creation page, embedded with post messages.
CONSTANTS
  x1 = x1
  x2 = x2
  x3 = x3
  NULL = NULL
  Resources = {x1, x2}
  Types = {"device", "devicetype"}
  FirstType = "devicetype"
  Pages = {"creator"}
  Protocols = {"postMessage"}
  MaxRequests = 2
  MaxPosted = 1
  MaxLoads = 2
SPECIFICATION Spec
INVARIANT CreationsReported
CHECK_DEADLOCK FALSE

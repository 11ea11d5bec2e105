\* Every page with every protocol.
CONSTANTS
  x1 = x1
  x2 = x2
  x3 = x3
  NULL = NULL
  Resources = {x1, x2, x3}
  Types = {"device", "devicetype"}
  FirstType = "devicetype"
  Pages = {"bmx", "iotp", "creator", "browser"}
  Protocols = {"windowName", "postMessage", "other"}
  MaxRequests = 2
  MaxPosted = 1
  MaxLoads = 2
SPECIFICATION FairSpec
INVARIANTS TypeOK ListIsLatestAnswer MessageTellsLatest LatestCreationReported FormSettles
PROPERTIES KeepsDialogContract SearchEnds
\* The browser leaves a dialog that has responded.
CHECK_DEADLOCK FALSE

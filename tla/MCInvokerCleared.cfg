\* A libubus whose ubus_invoke_async clears the request it is given.
CONSTANTS
  Names = {x}
  NoName = none
  Invokers = {t1}
  MaxIds = 1
  MaxRequests = 1
  MaxDrops = 1
  BadPayloads = FALSE
  ProperCallees = TRUE
  ClearsRequest = {TRUE}
SPECIFICATION Spec
CHECK_DEADLOCK FALSE
SYMMETRY Symmetry
INVARIANT PrivIsSet

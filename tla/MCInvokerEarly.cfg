\* One thread, one request: the answer may come at once. A libubus that
\* leaves the request as it is.
CONSTANTS
  Names = {x}
  NoName = none
  Invokers = {t1}
  MaxIds = 1
  MaxRequests = 1
  MaxDrops = 0
  BadPayloads = FALSE
  ProperCallees = TRUE
  ClearsRequest = {FALSE}
SPECIFICATION Spec
CHECK_DEADLOCK FALSE
SYMMETRY Symmetry
INVARIANT AnswerReachesApp

\* Two threads, two names, two requests, one loss; callees that answer properly;
\* ubus_invoke_async may clear a request or leave it as it is.
CONSTANTS
  Names = {x, y}
  NoName = none
  Invokers = {t1, t2}
  MaxIds = 1
  MaxRequests = 2
  MaxDrops = 1
  BadPayloads = TRUE
  ProperCallees = TRUE
  ClearsRequest = {TRUE, FALSE}
SPECIFICATION Spec
CHECK_DEADLOCK FALSE
SYMMETRY Symmetry
INVARIANTS
  TypeOK
  OneCallback
  RetryIsFresh
PROPERTIES
  CacheKeepsNames
  ImplementsService

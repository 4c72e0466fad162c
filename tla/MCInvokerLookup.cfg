\* One thread, one object that joins late.
CONSTANTS
  Names = {x}
  NoName = none
  Invokers = {t1}
  MaxIds = 1
  MaxRequests = 1
  MaxDrops = 0
  BadPayloads = FALSE
  ProperCallees = TRUE
  ClearsRequest = {FALSE}
SPECIFICATION Spec
CHECK_DEADLOCK FALSE
SYMMETRY Symmetry
INVARIANT LookupFailedIsTrue

\* One provider, one call, one answering thread, one loss.
CONSTANTS
  Providers = {p}
  Subscribers = {}
  Listeners = {}
  NoObject = none
  Apps = {a}
  Worker = worker
  Loop = loop
  Senders = {a}
  MaxDrops = 1
  MaxRefusals = 0
  MaxMoves = 0
  Requests = {r1}
  NoRequest = noCall
  Responders = {t1}
  BadPayloads = FALSE
SPECIFICATION BridgeSpec
INVARIANTS
  BridgeTypeOK
  CallsFindProvider
PROPERTY AnswersOwnConnection

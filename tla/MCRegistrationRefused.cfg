\* One provider, one loss: is the application told the truth afterwards?
CONSTANTS
  Providers = {p}
  Subscribers = {}
  Listeners = {}
  NoObject = none
  Apps = {a}
  Worker = worker
  Loop = loop
  Senders = {a}
  MaxDrops = 1
  MaxRefusals = 0
  MaxMoves = 0
SPECIFICATION Spec
INVARIANT RefusedOnlyWhenNotReady

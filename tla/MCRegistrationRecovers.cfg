\* One provider, two losses, one error of ubusd.
CONSTANTS
  Providers = {p}
  Subscribers = {}
  Listeners = {}
  NoObject = none
  Apps = {a}
  Worker = worker
  Loop = loop
  Senders = {a}
  MaxDrops = 2
  MaxRefusals = 1
  MaxMoves = 0
SPECIFICATION FairSpec
INVARIANTS
  ContextReady
  LossIsPending
PROPERTY LinkRecovers

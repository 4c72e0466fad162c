\* A subscriber whose target comes and goes, one error of ubusd, no loss.
CONSTANTS
  Providers = {}
  Subscribers = {s}
  Listeners = {}
  NoObject = none
  Apps = {a}
  Worker = worker
  Loop = loop
  Senders = {a}
  MaxDrops = 0
  MaxRefusals = 1
  MaxMoves = 2
SPECIFICATION FairSpec
INVARIANT RegisteredIsOnBus
PROPERTY EventuallyRegistered

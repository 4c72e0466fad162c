\* A subscriber whose target goes and comes back: is it subscribed in the end?
CONSTANTS
  Providers = {}
  Subscribers = {s}
  Listeners = {}
  NoObject = none
  Apps = {a}
  Worker = worker
  Loop = loop
  Senders = {a}
  MaxDrops = 0
  MaxRefusals = 0
  MaxMoves = 2
SPECIFICATION FairSpec
PROPERTY EventuallySubscribed

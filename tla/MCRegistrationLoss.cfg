\* A provider and an event listener, two application threads, one loss.
CONSTANTS
  Providers = {p}
  Subscribers = {}
  Listeners = {e}
  NoObject = none
  Apps = {a, b}
  Worker = worker
  Loop = loop
  Senders = {}
  MaxDrops = 1
  MaxRefusals = 0
  MaxMoves = 0
SPECIFICATION Spec
SYMMETRY Symmetry
INVARIANTS
  TypeOK
  RegisteredIsOnBus
  RetryIsPending
  OnBusIsListed
PROPERTY ImplementsClient

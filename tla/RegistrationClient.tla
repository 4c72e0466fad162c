------------------------- MODULE RegistrationClient -------------------------
(***************************************************************************)
(* Registration as an implementation of BusClient. The context is live     *)
(* while ctxAlive is set; ubusd has the objects it counts at least once.   *)
(***************************************************************************)
EXTENDS Registration

IsUp == link = "up"

IsLive == alive = 1

OnBus == {o \in Objects : bus[o] > 0}

Registered == {o \in Objects : reg[o] # "left"}

Attached == subscribed \cup patterns

Client ==
  INSTANCE BusClient
    WITH up <- IsUp, live <- IsLive, onBus <- OnBus, registered <- Registered,
         attached <- Attached

\* Every step of the worker, the loop and the application, with losses, refusals
\* and reconnects in between, is a step of the abstract client or none at all: an
\* object is confirmed only after it has been added and, in the life of the
\* context, while it is usable or its connection is broken, however late onRegiste
\* runs; no connection that has had objects is replaced before connection_lost has
\* cleared ctxAlive (Ubus.kt, start, registe, register*Inner and the timers).
ImplementsClient == Client!Spec
=============================================================================

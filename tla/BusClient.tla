----------------------------- MODULE BusClient -----------------------------
(***************************************************************************)
(* What Ubus.kt promises of its objects on the bus, whatever its threads   *)
(* and the connection do. The context is live from the end of start() to   *)
(* the first loss that is noticed. While it is live and the link is up, an *)
(* object counts as registered only when it is usable: on the bus, and     *)
(* with its event pattern if it is a listener. After that an object that   *)
(* counts as registered has been added once, and no more is said: a new    *)
(* connection begins with nothing, and not everything comes back.          *)
(***************************************************************************)
CONSTANTS
  Objects,
  Subscribers, Listeners

VARIABLES
  up,          \* there is a connection
  live,        \* the operations of the application are let through
  added,       \* the objects that have been added, to any connection
  onBus,       \* the objects ubusd has
  registered,  \* the objects that count as registered
  attached     \* the subscribers with a subscription, the listeners with a pattern

vars == <<up, live, added, onBus, registered, attached>>

Init ==
  /\ up = FALSE /\ live = FALSE
  /\ added = {} /\ onBus = {} /\ registered = {} /\ attached = {}

Usable(o) == o \in onBus /\ (o \in Listeners => o \in attached)

\* The context never goes live again with objects of an earlier connection.
Start ==
  /\ added = {}
  /\ live' = TRUE
  /\ UNCHANGED <<up, added, onBus, registered, attached>>

Stop ==
  /\ live' = FALSE
  /\ UNCHANGED <<up, added, onBus, registered, attached>>

\* While the context is live, only a connection without objects is replaced.
Connect ==
  /\ live => added = {}
  /\ up' = TRUE
  /\ onBus' = {} /\ attached' = {}
  /\ UNCHANGED <<live, added, registered>>

\* Nobody is told: what counts as registered still does.
Lose ==
  /\ up' = FALSE
  /\ onBus' = {} /\ attached' = {}
  /\ UNCHANGED <<live, added, registered>>

Add(o) ==
  /\ up
  /\ added' = added \cup {o}
  /\ onBus' = onBus \cup {o}
  /\ UNCHANGED <<up, live, registered, attached>>

\* Perhaps late: there may have been a loss since the object was added.
Confirm(o) ==
  /\ o \in added
  /\ up /\ live => Usable(o)
  /\ registered' = registered \cup {o}
  /\ UNCHANGED <<up, live, added, onBus, attached>>

Leave(o) ==
  /\ registered' = registered \ {o}
  /\ UNCHANGED <<up, live, added, onBus, attached>>

Attach(o) ==
  /\ o \in onBus
  /\ attached' = attached \cup {o}
  /\ UNCHANGED <<up, live, added, onBus, registered>>

\* The object subscribed to is gone.
Detach(s) ==
  /\ attached' = attached \ {s}
  /\ UNCHANGED <<up, live, added, onBus, registered>>

Next ==
  \/ Start \/ Stop \/ Connect \/ Lose
  \/ \E o \in Objects : Add(o) \/ Confirm(o) \/ Leave(o)
  \/ \E o \in Subscribers \cup Listeners : Attach(o)
  \/ \E s \in Subscribers : Detach(s)

Spec == Init /\ [][Next]_vars
=============================================================================

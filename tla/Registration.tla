---------------------------- MODULE Registration ----------------------------
(***************************************************************************)
(* The connection and registration half of Ubus.kt: start() connects to    *)
(* ubusd and installs the connection_lost callback, the registe timer and  *)
(* the register* calls put every configured object on the bus, the         *)
(* reconnect timer brings a lost connection back.                          *)
(*                                                                         *)
(* Three kinds of threads run this code over the same ubus_context:        *)
(*   - Worker, the Kotlin worker that run() starts;                        *)
(*   - Loop, the thread that called uloop_run(): timers, socket events;    *)
(*   - Apps, the threads that call Bridge.register*.                       *)
(* One action is one access to a shared variable or one call of libubus.   *)
(* The blocking libubus calls poll the socket themselves, so that the      *)
(* connection_lost callback may also run inside a call of any thread.      *)
(***************************************************************************)
EXTENDS Naturals, FiniteSets

CONSTANTS
  Providers, Subscribers, Listeners,   \* the objects the application creates
  NoObject,
  Apps, Worker, Loop,                  \* threads
  Senders,       \* the threads of Apps that call notify and sendEvent too
  MaxDrops,      \* how often the connection breaks
  MaxRefusals,   \* how often ubusd is not reachable or answers with an error
  MaxMoves       \* how often a subscription target leaves or joins the bus

Objects == Providers \cup Subscribers \cup Listeners
Threads == Apps \cup {Worker, Loop}

ASSUME ObjectsAssumption ==
  /\ Providers \cap Subscribers = {}
  /\ Providers \cap Listeners = {}
  /\ Subscribers \cap Listeners = {}
  /\ NoObject \notin Objects

ASSUME ThreadsAssumption ==
  /\ Worker # Loop /\ Worker \notin Apps /\ Loop \notin Apps
  /\ Senders \subseteq Apps

ASSUME BoundsAssumption ==
  MaxDrops \in Nat /\ MaxRefusals \in Nat /\ MaxMoves \in Nat

VARIABLES
  alive,        \* ctxAlive
  config,       \* the objects listed in the current Config
  reg,          \* Provider.registered, EventListener.registered, Subscriber.subState
  created,      \* the objects some application thread has asked for
  stale,        \* threads whose copy of the Config is older than the Config (history)
  overwritten,  \* objects a stale copy has taken out of the Config (history)
  pc, todo, cur,\* per thread: place, objects of a forEach still to do, current one
  draft,        \* per thread: the private copy of config being changed
  lost, leaving,\* per thread: place in connection_lost and its forEach
  registeTimer, \* the 2 s timer is armed
  reconnTimers, \* the threads whose (thread-local) reconnTimer is armed
  link,         \* the socket of the ubus_context
  watched,      \* the socket is registered with uloop
  handler,      \* ctx->connection_lost
  tree,         \* the objects libubus has, the ones with an id
  added,        \* the objects that ubus_add_object has ever added (history)
  bus,          \* ubusd: how many objects this connection has for each of ours
  patterns,     \* ubusd: listeners whose event pattern is registered
  subscribed,   \* ubusd: subscribers with a live subscription
  removing,     \* subscribers whose remove notice is on its way
  targets,      \* subscribers whose target object is on the bus
  drops, refusals, moves

confVars  == <<config, created, stale, overwritten>>
appVars   == <<alive, reg, confVars>>
callVars  == <<pc, todo, cur, draft>>
lostVars  == <<lost, leaving>>
timerVars == <<registeTimer, reconnTimers>>
linkVars  == <<link, watched, handler>>
busVars   == <<tree, added, bus, patterns, subscribed, removing>>
envVars   == <<targets, drops, refusals, moves>>
vars == <<appVars, callVars, lostVars, timerVars, linkVars, busVars, envVars>>

\* Places at which a thread is about to call a blocking function of libubus.
LibCalls == {"add_object", "register_subscriber", "lookup_id", "subscribe",
             "register_event_handler", "register_pattern"}

\* The same for what the application sends.
SendCalls == {"notify", "send_event"}

Places == LibCalls \cup SendCalls \cup
  {"idle", "find", "store", "next", "alive", "registered", "onRegiste", "onSubscribe",
   "setRegisteTimer", "connect", "install", "add_uloop", "setAlive", "registe",
   "rearm", "reconnect", "refresh", "setReconnTimer", "done"}

LostPlaces == {"no", "clear", "config", "leave"}

TypeOK ==
  /\ alive \in {0, 1}
  /\ config \subseteq Objects
  /\ reg \in [Objects -> {"left", "registered", "subscribed"}]
  /\ created \subseteq Objects
  /\ stale \subseteq Apps
  /\ overwritten \subseteq Objects
  /\ pc \in [Threads -> Places]
  /\ todo \in [Threads -> SUBSET Objects]
  /\ cur \in [Threads -> Objects \cup {NoObject}]
  /\ draft \in [Threads -> SUBSET Objects]
  /\ lost \in [Threads -> LostPlaces]
  /\ leaving \in [Threads -> SUBSET Objects]
  /\ registeTimer \in BOOLEAN
  /\ reconnTimers \subseteq Threads
  /\ link \in {"none", "up", "down"}
  /\ watched \in BOOLEAN
  /\ handler \in {"none", "default", "app"}
  /\ tree \subseteq Objects
  /\ added \subseteq Objects
  /\ bus \in [Objects -> Nat]
  /\ patterns \subseteq Listeners
  /\ subscribed \subseteq Subscribers
  /\ removing \subseteq Subscribers
  /\ targets \subseteq Subscribers
  /\ drops \in 0..MaxDrops
  /\ refusals \in 0..MaxRefusals
  /\ moves \in 0..MaxMoves

\* run() has stored the first Config and started the worker.
Init ==
  /\ alive = 0
  /\ config = {}
  /\ reg = [o \in Objects |-> "left"]
  /\ created = {}
  /\ stale = {}
  /\ overwritten = {}
  /\ pc = [t \in Threads |-> IF t = Worker THEN "setRegisteTimer" ELSE "idle"]
  /\ todo = [t \in Threads |-> {}]
  /\ cur = [t \in Threads |-> NoObject]
  /\ draft = [t \in Threads |-> {}]
  /\ lost = [t \in Threads |-> "no"]
  /\ leaving = [t \in Threads |-> {}]
  /\ registeTimer = FALSE
  /\ reconnTimers = {}
  /\ link = "none"
  /\ watched = FALSE
  /\ handler = "none"
  /\ tree = {}
  /\ added = {}
  /\ bus = [o \in Objects |-> 0]
  /\ patterns = {}
  /\ subscribed = {}
  /\ removing = {}
  /\ targets \in SUBSET Subscribers
  /\ drops = 0
  /\ refusals = 0
  /\ moves = 0

-----------------------------------------------------------------------------
\* Thread t is at place p and not inside the connection_lost callback.
At(t, p) == pc[t] = p /\ lost[t] = "no"

Goto(t, p) == pc' = [pc EXCEPT ![t] = p]

\* t leaves the registration of its current object: on to the forEach's next.
Leave(t) ==
  /\ Goto(t, "next")
  /\ cur' = [cur EXCEPT ![t] = NoObject]

\* The order of the three forEach loops: subscribers, providers, listeners.
\* The order inside one list is left open.
FirstOf(S) ==
  IF S \cap Subscribers # {} THEN S \cap Subscribers
  ELSE IF S \cap Providers # {} THEN S \cap Providers
  ELSE S

-----------------------------------------------------------------------------
(* The worker: run() and start().                                          *)

SetRegisteTimer ==
  /\ At(Worker, "setRegisteTimer")
  /\ registeTimer' = TRUE
  /\ Goto(Worker, "connect")
  /\ UNCHANGED <<appVars, todo, cur, draft, lostVars, reconnTimers, linkVars,
                 busVars, envVars>>

\* ubus_connect_ctx clears the context and installs libubus's own callback.
Connect ==
  /\ At(Worker, "connect")
  /\ \/ /\ link' = "up"
        /\ handler' = "default"
        /\ Goto(Worker, "install")
        /\ UNCHANGED refusals
     \/ /\ refusals < MaxRefusals
        /\ refusals' = refusals + 1
        /\ UNCHANGED <<link, handler, pc>>
  /\ UNCHANGED <<appVars, todo, cur, draft, lostVars, timerVars, watched,
                 busVars, targets, drops, moves>>

InstallHandler ==
  /\ At(Worker, "install")
  /\ handler' = "app"
  /\ Goto(Worker, "add_uloop")
  /\ UNCHANGED <<appVars, todo, cur, draft, lostVars, timerVars, link, watched,
                 busVars, envVars>>

\* Mutant of AddUloop: the reconnect timer sets ctxAlive, as start() does.
AddUloopAlive(t) ==
  /\ At(t, "add_uloop")
  /\ watched' = TRUE
  /\ alive' = IF t = Loop THEN 1 ELSE alive
  /\ Goto(t, IF t = Worker THEN "setAlive" ELSE "idle")
  /\ UNCHANGED <<reg, confVars, todo, cur, draft, lostVars, timerVars, link,
                 handler, busVars, envVars>>

\* ubus_add_uloop, by start() and by the reconnect timer.
AddUloop(t) ==
  /\ At(t, "add_uloop")
  /\ watched' = TRUE
  /\ Goto(t, IF t = Worker THEN "setAlive" ELSE "idle")
  /\ UNCHANGED <<appVars, todo, cur, draft, lostVars, timerVars, link, handler,
                 busVars, envVars>>

SetAlive ==
  /\ At(Worker, "setAlive")
  /\ alive' = 1
  /\ Goto(Worker, "registe")
  /\ UNCHANGED <<reg, confVars, todo, cur, draft, lostVars, timerVars,
                 linkVars, busVars, envVars>>

-----------------------------------------------------------------------------
(* registe() and the three register*Inner functions, on any thread.        *)

Registe(t) ==
  /\ At(t, "registe")
  /\ todo' = [todo EXCEPT ![t] = config]
  /\ Goto(t, "next")
  /\ UNCHANGED <<appVars, cur, draft, lostVars, timerVars, linkVars, busVars,
                 envVars>>

\* isSubscribed() of a subscriber, isRegistered() of the other two.
IsDone(o) == reg[o] = IF o \in Subscribers THEN "subscribed" ELSE "registered"

TakeNext(t) ==
  /\ At(t, "next")
  /\ \E o \in FirstOf(todo[t]) :
       /\ todo' = [todo EXCEPT ![t] = @ \ {o}]
       /\ IF IsDone(o)
            THEN UNCHANGED <<pc, cur>>
            ELSE cur' = [cur EXCEPT ![t] = o] /\ Goto(t, "alive")
  /\ UNCHANGED <<appVars, draft, lostVars, timerVars, linkVars, busVars, envVars>>

\* The forEach is over: the worker's code ends, the timer callback goes on to
\* re-arm itself, an application's register* call returns.
AllTaken(t) ==
  /\ At(t, "next") /\ todo[t] = {}
  /\ Goto(t, IF t = Worker THEN "done" ELSE IF t = Loop THEN "rearm" ELSE "idle")
  /\ UNCHANGED <<appVars, todo, cur, draft, lostVars, timerVars, linkVars,
                 busVars, envVars>>

\* Mutant of CheckAlive: the ctxAlive guard is gone.
CheckAliveMissing(t) ==
  /\ At(t, "alive")
  /\ Goto(t, CASE cur[t] \in Providers   -> "add_object"
                [] cur[t] \in Subscribers -> "registered"
                [] OTHER                  -> "register_event_handler")
  /\ UNCHANGED <<appVars, todo, cur, draft, lostVars, timerVars, linkVars,
                 busVars, envVars>>

CheckAlive(t) ==
  /\ At(t, "alive")
  /\ IF alive = 0
       THEN Leave(t)
       ELSE /\ Goto(t, CASE cur[t] \in Providers   -> "add_object"
                         [] cur[t] \in Subscribers -> "registered"
                         [] OTHER                  -> "register_event_handler")
            /\ UNCHANGED cur
  /\ UNCHANGED <<appVars, todo, draft, lostVars, timerVars, linkVars, busVars,
                 envVars>>

CheckRegistered(t) ==
  /\ At(t, "registered")
  /\ Goto(t, IF reg[cur[t]] = "registered" THEN "lookup_id"
             ELSE "register_subscriber")
  /\ UNCHANGED <<appVars, todo, cur, draft, lostVars, timerVars, linkVars,
                 busVars, envVars>>

\* Thread t is in a call of libubus. ubus_register_event_handler does not add the
\* object of a listener that has an id.
Calling(t) ==
  /\ pc[t] \in LibCalls /\ lost[t] = "no"
  /\ pc[t] = "register_event_handler" => cur[t] \notin tree

\* ubusd takes the name of a provider only once. The others have no name, so that
\* adding one twice makes two objects.
Accepts(o) == o \in Providers => bus[o] = 0

\* ubusd has the object, and libubus the id it was given.
Added(o) ==
  /\ bus' = [bus EXCEPT ![o] = @ + 1]
  /\ tree' = tree \cup {o}
  /\ added' = added \cup {o}

AddObject(t) ==
  /\ pc[t] \in {"add_object", "register_subscriber", "register_event_handler"}
  /\ Calling(t)
  /\ link = "up"
  /\ Accepts(cur[t]) /\ Added(cur[t])
  /\ Goto(t, IF cur[t] \in Listeners THEN "register_pattern" ELSE "onRegiste")
  /\ UNCHANGED <<appVars, todo, cur, draft, lostVars, timerVars, linkVars,
                 patterns, subscribed, removing, envVars>>

SkipAdd(t) ==
  /\ At(t, "register_event_handler")
  /\ cur[t] \in tree
  /\ Goto(t, "register_pattern")
  /\ UNCHANGED <<appVars, todo, cur, draft, lostVars, timerVars, linkVars,
                 busVars, envVars>>

\* The second request of ubus_register_event_handler: ubusd is told the pattern.
RegisterPattern(t) ==
  /\ At(t, "register_pattern")
  /\ link = "up"
  /\ bus[cur[t]] > 0
  /\ patterns' = patterns \cup {cur[t]}
  /\ Goto(t, "onRegiste")
  /\ UNCHANGED <<appVars, todo, cur, draft, lostVars, timerVars, linkVars, tree,
                 added, bus, subscribed, removing, envVars>>

LookupId(t) ==
  /\ At(t, "lookup_id")
  /\ link = "up"
  /\ cur[t] \in targets
  /\ Goto(t, "subscribe")
  /\ UNCHANGED <<appVars, todo, cur, draft, lostVars, timerVars, linkVars,
                 busVars, envVars>>

Subscribe(t) ==
  /\ At(t, "subscribe")
  /\ link = "up"
  /\ cur[t] \in targets /\ bus[cur[t]] > 0
  /\ subscribed' = subscribed \cup {cur[t]}
  /\ Goto(t, "onSubscribe")
  /\ UNCHANGED <<appVars, todo, cur, draft, lostVars, timerVars, linkVars, tree,
                 added, bus, patterns, removing, envVars>>

\* Mutant of CallRefused: the result of adding an object is not looked at.
CallRefusedIgnored(t) ==
  /\ pc[t] \in {"add_object", "register_subscriber"} /\ lost[t] = "no"
  /\ link = "up"
  /\ refusals < MaxRefusals /\ refusals' = refusals + 1
  /\ Goto(t, "onRegiste")
  /\ UNCHANGED <<appVars, todo, cur, draft, lostVars, timerVars, linkVars,
                 busVars, targets, drops, moves>>

\* A libubus call of the three functions answers an error: ubusd has a reason of
\* its own, or the name is taken, the target is not there, or the object the
\* request is for is not.
CallRefused(t) ==
  /\ Calling(t)
  /\ link = "up"
  /\ \/ refusals < MaxRefusals /\ refusals' = refusals + 1
     \/ /\ \/ pc[t] = "add_object" /\ ~Accepts(cur[t])
           \/ pc[t] \in {"lookup_id", "subscribe"} /\ cur[t] \notin targets
           \/ pc[t] \in {"subscribe", "register_pattern"} /\ bus[cur[t]] = 0
        /\ UNCHANGED refusals
  /\ Leave(t)
  /\ UNCHANGED <<appVars, todo, draft, lostVars, timerVars, linkVars, busVars,
                 targets, drops, moves>>

\* Mutant of CallBroken: so is the result when the connection is broken.
CallBrokenIgnored(t) ==
  /\ pc[t] \in LibCalls /\ lost[t] = "no"
  /\ link = "down"
  /\ Goto(t, "onRegiste")
  /\ lost' \in {lost, [lost EXCEPT ![t] = "clear"]}
  /\ UNCHANGED <<appVars, todo, cur, draft, leaving, timerVars, linkVars, busVars,
                 envVars>>

\* A libubus call finds the connection broken. When it is the call that sees
\* the end of the stream, libubus runs connection_lost inside the call.
CallBroken(t) ==
  /\ Calling(t)
  /\ link = "down"
  /\ Leave(t)
  /\ lost' \in {lost, [lost EXCEPT ![t] = "clear"]}
  /\ UNCHANGED <<appVars, todo, draft, leaving, timerVars, linkVars, busVars,
                 envVars>>

OnRegiste(t) ==
  /\ At(t, "onRegiste")
  /\ reg' = [reg EXCEPT ![cur[t]] = "registered"]
  /\ IF cur[t] \in Subscribers THEN Goto(t, "lookup_id") /\ UNCHANGED cur
     ELSE Leave(t)
  /\ UNCHANGED <<alive, confVars, todo, draft, lostVars, timerVars,
                 linkVars, busVars, envVars>>

OnSubscribe(t) ==
  /\ At(t, "onSubscribe")
  /\ reg' = [reg EXCEPT ![cur[t]] = "subscribed"]
  /\ Leave(t)
  /\ UNCHANGED <<alive, confVars, todo, draft, lostVars, timerVars,
                 linkVars, busVars, envVars>>

-----------------------------------------------------------------------------
(* The application: registerProvider, registerSubscriber and               *)
(* registerEventListener read the Config, copy it, add to the copy and     *)
(* store it, then register the new object.                                 *)

CopyConfig(t) ==
  /\ t \in Apps /\ At(t, "idle")
  /\ \E o \in Objects \ created :
       /\ created' = created \cup {o}
       /\ cur' = [cur EXCEPT ![t] = o]
  /\ draft' = [draft EXCEPT ![t] = config]
  /\ Goto(t, "store")
  /\ UNCHANGED <<alive, config, reg, stale, overwritten, todo, lostVars, timerVars, linkVars,
                 busVars, envVars>>

\* Mutant of StoreConfig: the changed copy is never stored.
StoreConfigForgets(t) ==
  /\ At(t, "store")
  /\ todo' = [todo EXCEPT ![t] = {cur[t]}]
  /\ draft' = [draft EXCEPT ![t] = {}]
  /\ Leave(t)
  /\ UNCHANGED <<alive, reg, confVars, lostVars, timerVars, linkVars, busVars,
                 envVars>>

\* Mutant of StoreConfig: what it adds is no object of the application.
StoreConfigNull(t) ==
  /\ At(t, "store")
  /\ config' = draft[t] \cup {NoObject}
  /\ todo' = [todo EXCEPT ![t] = {cur[t]}]
  /\ draft' = [draft EXCEPT ![t] = {}]
  /\ Leave(t)
  /\ UNCHANGED <<alive, reg, created, stale, overwritten, lostVars, timerVars,
                 linkVars, busVars, envVars>>

\* The copies that other threads hold are now older than the Config; when this one
\* is, what has been stored since it was made is lost.
StoreConfig(t) ==
  /\ At(t, "store")
  /\ config' = draft[t] \cup {cur[t]}
  /\ overwritten' = IF t \in stale THEN overwritten \cup (config \ config')
                    ELSE overwritten
  /\ stale' = (stale \cup {u \in Apps : pc[u] = "store"}) \ {t}
  /\ todo' = [todo EXCEPT ![t] = {cur[t]}]
  /\ draft' = [draft EXCEPT ![t] = {}]
  /\ Leave(t)
  /\ UNCHANGED <<alive, reg, created, lostVars, timerVars, linkVars, busVars,
                 envVars>>

-----------------------------------------------------------------------------
(* The application: notify and sendEvent. Both are refused without a live  *)
(* context; nothing is kept of what is sent.                               *)

SendEvent(t) ==
  /\ At(t, "idle")
  /\ alive = 1
  /\ Goto(t, "send_event")
  /\ UNCHANGED <<appVars, todo, cur, draft, lostVars, timerVars, linkVars,
                 busVars, envVars>>

Notify(t) ==
  /\ At(t, "idle")
  /\ alive = 1
  /\ Goto(t, "find")
  /\ UNCHANGED <<appVars, todo, cur, draft, lostVars, timerVars, linkVars,
                 busVars, envVars>>

\* notify looks for a provider of that name in the Config, registered or not.
FindProvider(t) ==
  /\ At(t, "find")
  /\ \/ Goto(t, "idle")
     \/ config \cap Providers # {} /\ Goto(t, "notify")
  /\ UNCHANGED <<appVars, todo, cur, draft, lostVars, timerVars, linkVars,
                 busVars, envVars>>

\* The call of libubus; its result is logged at most. ubus_notify without replies
\* only writes; ubus_send_event waits for ubusd and may meet the loss.
Send(t) ==
  /\ pc[t] \in SendCalls /\ lost[t] = "no"
  /\ Goto(t, "idle")
  /\ \/ UNCHANGED lost
     \/ /\ pc[t] = "send_event" /\ link = "down"
        /\ lost' = [lost EXCEPT ![t] = "clear"]
  /\ UNCHANGED <<appVars, todo, cur, draft, leaving, timerVars, linkVars, busVars,
                 envVars>>

-----------------------------------------------------------------------------
(* The loop thread.                                                        *)

FireRegiste ==
  /\ At(Loop, "idle")
  /\ registeTimer
  /\ registeTimer' = FALSE
  /\ Goto(Loop, "registe")
  /\ UNCHANGED <<appVars, todo, cur, draft, lostVars, reconnTimers, linkVars,
                 busVars, envVars>>

\* Mutant of RearmRegiste: the registe timer fires only once.
RearmRegisteNever ==
  /\ At(Loop, "rearm")
  /\ Goto(Loop, "idle")
  /\ UNCHANGED <<appVars, todo, cur, draft, lostVars, timerVars, linkVars,
                 busVars, envVars>>

RearmRegiste ==
  /\ At(Loop, "rearm")
  /\ registeTimer' = TRUE
  /\ Goto(Loop, "idle")
  /\ UNCHANGED <<appVars, todo, cur, draft, lostVars, reconnTimers, linkVars,
                 busVars, envVars>>

FireReconn ==
  /\ At(Loop, "idle")
  /\ \E t \in reconnTimers : reconnTimers' = reconnTimers \ {t}
  /\ Goto(Loop, "reconnect")
  /\ UNCHANGED <<appVars, todo, cur, draft, lostVars, registeTimer, linkVars,
                 busVars, envVars>>

\* ubus_reconnect closes the old socket, whatever its state, and connects again.
\* libubus then takes all objects off its list, to add them again one by one.
\* Subscriptions and event patterns are not made again.
Reconnect ==
  /\ At(Loop, "reconnect")
  /\ watched' = FALSE
  /\ bus' = [o \in Objects |-> 0]
  /\ patterns' = {} /\ subscribed' = {} /\ removing' = {}
  /\ \/ /\ link' = "up"
        /\ todo' = [todo EXCEPT ![Loop] = tree]
        /\ tree' = {}
        /\ Goto(Loop, "refresh")
        /\ UNCHANGED refusals
     \/ /\ refusals < MaxRefusals
        /\ refusals' = refusals + 1
        /\ link' = "down"
        /\ Goto(Loop, "setReconnTimer")
        /\ UNCHANGED <<todo, tree>>
  /\ UNCHANGED <<appVars, cur, draft, lostVars, timerVars, handler, added, targets,
                 drops, moves>>

\* An object that ubusd refuses, or that a new loss cuts off, is off the list for
\* good; the loss runs connection_lost inside the call.
ReAdd ==
  /\ At(Loop, "refresh")
  /\ \E o \in todo[Loop] :
       /\ todo' = [todo EXCEPT ![Loop] = @ \ {o}]
       /\ \/ /\ link = "up" /\ Accepts(o)
             /\ Added(o)
             /\ UNCHANGED <<lost, refusals>>
          \/ /\ link = "up" /\ ~Accepts(o)
             /\ UNCHANGED <<tree, added, bus, lost, refusals>>
          \/ /\ link = "up" /\ refusals < MaxRefusals
             /\ refusals' = refusals + 1
             /\ UNCHANGED <<tree, added, bus, lost>>
          \/ /\ link = "down"
             /\ lost' \in {lost, [lost EXCEPT ![Loop] = "clear"]}
             /\ UNCHANGED <<tree, added, bus, refusals>>
  /\ UNCHANGED <<appVars, pc, cur, draft, leaving, timerVars, linkVars, patterns,
                 subscribed, removing, targets, drops, moves>>

\* ubus_reconnect returns 0, whatever became of the objects.
Refreshed ==
  /\ At(Loop, "refresh") /\ todo[Loop] = {}
  /\ Goto(Loop, "add_uloop")
  /\ UNCHANGED <<appVars, todo, cur, draft, lostVars, timerVars, linkVars,
                 busVars, envVars>>

\* Mutant of SetReconnTimer: a failed reconnect is not tried again.
SetReconnTimerNever ==
  /\ At(Loop, "setReconnTimer")
  /\ Goto(Loop, "idle")
  /\ UNCHANGED <<appVars, todo, cur, draft, lostVars, timerVars, linkVars,
                 busVars, envVars>>

SetReconnTimer ==
  /\ At(Loop, "setReconnTimer")
  /\ reconnTimers' = reconnTimers \cup {Loop}
  /\ Goto(Loop, "idle")
  /\ UNCHANGED <<appVars, todo, cur, draft, lostVars, registeTimer, linkVars,
                 busVars, envVars>>

\* uloop reports the end of the stream and forgets the socket.
LoopSeesLoss ==
  /\ At(Loop, "idle")
  /\ watched /\ link = "down"
  /\ watched' = FALSE
  /\ lost' = [lost EXCEPT ![Loop] = "clear"]
  /\ UNCHANGED <<appVars, callVars, leaving, timerVars, link, handler, busVars,
                 envVars>>

\* A thread at which libubus hands messages out: the loop, or one that waits for
\* the end of a call of its own.
Serving(t) ==
  \/ t = Loop /\ At(Loop, "idle") /\ watched
  \/ t = Loop /\ At(Loop, "refresh") /\ todo[Loop] # {}
  \/ pc[t] \in LibCalls \cup {"send_event"} /\ lost[t] = "no"

\* The remove callback of a subscriber.
RemoveCb(s) ==
  /\ s \in removing
  /\ \E t \in Threads : Serving(t)
  /\ removing' = removing \ {s}
  /\ reg' = IF s \in config THEN [reg EXCEPT ![s] = "left"] ELSE reg
  /\ UNCHANGED <<alive, confVars, callVars, lostVars, timerVars, linkVars,
                 tree, added, bus, patterns, subscribed, envVars>>

-----------------------------------------------------------------------------
(* The connection_lost callback, on the thread that met the loss.          *)

ClearAlive(t) ==
  /\ lost[t] = "clear"
  /\ alive' = 0
  /\ lost' = [lost EXCEPT ![t] = "config"]
  /\ UNCHANGED <<reg, confVars, callVars, leaving, timerVars, linkVars,
                 busVars, envVars>>

ReadConfig(t) ==
  /\ lost[t] = "config"
  /\ leaving' = [leaving EXCEPT ![t] = config]
  /\ lost' = [lost EXCEPT ![t] = "leave"]
  /\ UNCHANGED <<appVars, callVars, timerVars, linkVars, busVars, envVars>>

OnLeave(t) ==
  /\ lost[t] = "leave"
  /\ \E o \in FirstOf(leaving[t]) :
       /\ reg' = [reg EXCEPT ![o] = "left"]
       /\ leaving' = [leaving EXCEPT ![t] = @ \ {o}]
  /\ UNCHANGED <<alive, confVars, callVars, lost, timerVars, linkVars,
                 busVars, envVars>>

\* Mutant of ArmReconn: connection_lost forgets to start the reconnect timer.
ArmReconnNever(t) ==
  /\ lost[t] = "leave" /\ leaving[t] = {}
  /\ lost' = [lost EXCEPT ![t] = "no"]
  /\ UNCHANGED <<appVars, callVars, leaving, timerVars, linkVars, busVars,
                 envVars>>

ArmReconn(t) ==
  /\ lost[t] = "leave" /\ leaving[t] = {}
  /\ reconnTimers' = reconnTimers \cup {t}
  /\ lost' = [lost EXCEPT ![t] = "no"]
  /\ UNCHANGED <<appVars, callVars, leaving, registeTimer, linkVars, busVars,
                 envVars>>

-----------------------------------------------------------------------------
(* The other end: ubusd and the owners of the subscription targets.        *)

Drop ==
  /\ link = "up" /\ drops < MaxDrops
  /\ drops' = drops + 1
  /\ link' = "down"
  /\ bus' = [o \in Objects |-> 0]
  /\ patterns' = {} /\ subscribed' = {} /\ removing' = {}
  /\ UNCHANGED <<appVars, callVars, lostVars, timerVars, watched, handler, tree,
                 added, targets, refusals, moves>>

TargetMoves(s) ==
  /\ moves < MaxMoves
  /\ moves' = moves + 1
  /\ IF s \in targets
       THEN /\ targets' = targets \ {s}
            /\ subscribed' = subscribed \ {s}
            /\ removing' = removing \cup ({s} \cap subscribed)
       ELSE targets' = targets \cup {s} /\ UNCHANGED <<subscribed, removing>>
  /\ UNCHANGED <<appVars, callVars, lostVars, timerVars, linkVars, tree, added,
                 bus, patterns, drops, refusals>>

-----------------------------------------------------------------------------
RegisterSteps(t) ==
  \/ Registe(t) \/ TakeNext(t) \/ AllTaken(t) \/ CheckAlive(t)
  \/ CheckRegistered(t) \/ AddObject(t) \/ SkipAdd(t) \/ RegisterPattern(t)
  \/ LookupId(t) \/ Subscribe(t)
  \/ CallRefused(t) \/ CallBroken(t) \/ OnRegiste(t) \/ OnSubscribe(t)

LostSteps(t) ==
  ClearAlive(t) \/ ReadConfig(t) \/ OnLeave(t) \/ ArmReconn(t)

SendSteps(t) == SendEvent(t) \/ Notify(t) \/ FindProvider(t) \/ Send(t)

WorkerSteps == SetRegisteTimer \/ Connect \/ InstallHandler \/ SetAlive

LoopSteps ==
  FireRegiste \/ RearmRegiste \/ FireReconn \/ Reconnect \/ ReAdd \/ Refreshed
    \/ SetReconnTimer \/ LoopSeesLoss

Next ==
  \/ WorkerSteps
  \/ LoopSteps
  \/ \E t \in Threads : AddUloop(t) \/ RegisterSteps(t) \/ LostSteps(t)
  \/ \E t \in Apps : CopyConfig(t) \/ StoreConfig(t)
  \/ \E t \in Senders : SendSteps(t)
  \/ \E s \in Subscribers : RemoveCb(s) \/ TargetMoves(s)
  \/ Drop

Spec == Init /\ [][Next]_vars

\* Every thread runs on. The loop serves its timers in the order of their
\* deadlines and its socket in every round, so that neither starves: what it
\* finds due again and again, each time it is idle, it serves. Nothing is
\* assumed of ubusd, of the targets and of what the application starts.
ThreadSteps(t) ==
  \/ AddUloop(t) \/ RegisterSteps(t) \/ LostSteps(t) \/ StoreConfig(t)
  \/ FindProvider(t) \/ Send(t)

Fairness ==
  /\ \A t \in Threads : WF_vars(ThreadSteps(t))
  /\ WF_vars(WorkerSteps)
  /\ WF_vars(RearmRegiste \/ Reconnect \/ ReAdd \/ Refreshed \/ SetReconnTimer)
  /\ SF_vars(FireRegiste)
  /\ SF_vars(FireReconn)
  /\ SF_vars(LoopSeesLoss)
  /\ \A s \in Subscribers : SF_vars(RemoveCb(s))

FairSpec == Spec /\ Fairness

-----------------------------------------------------------------------------
(* Properties.                                                             *)

\* Nobody uses the context, neither the loop nor a blocking call, before
\* start() has connected it and replaced the default connection_lost callback
\* (which ends the loop). The guard on ctxAlive in the register functions, in
\* notify and sendEvent, and the order of the lines of start() see to it: the
\* registe timer runs and the application registers objects and sends while
\* start() may still be trying to connect.
ContextReady ==
  (watched \/ \E t \in Threads : pc[t] \in LibCalls \cup SendCalls) => handler = "app"

\* What counts as registered is on the bus, a listener with its event pattern, as
\* long as the link is up and ctxAlive is set: neither a refused or broken call nor
\* an onRegiste that comes after a loss makes it otherwise. After a loss ctxAlive
\* stays 0, and then the flags say nothing: what libubus could not add again, and
\* every pattern, is gone, and onRegiste may come after the callback has cleared
\* the flag.
RegisteredIsOnBus ==
  link = "up" /\ alive = 1 =>
    \A o \in Objects :
      reg[o] # "left" => bus[o] > 0 /\ (o \in Listeners => o \in patterns)

\* A broken connection is never forgotten: the loop is still to see it, a
\* callback is on its way to the timer, a timer is armed or its callback runs.
LossIsPending ==
  link = "down" =>
    \/ watched
    \/ \E t \in Threads : lost[t] # "no"
    \/ reconnTimers # {}
    \/ pc[Worker] \in {"install", "add_uloop"}
    \/ pc[Loop] \in {"reconnect", "refresh", "add_uloop", "setReconnTimer"}

\* What could not be registered is tried again: from run() on, the registe timer is
\* armed, or its callback is in a round that ends with arming it, whatever refusals,
\* losses and callbacks of connection_lost the round meets.
RetryIsPending ==
  pc[Worker] # "setRegisteTimer" =>
    \/ registeTimer
    \/ pc[Loop] \notin {"idle", "reconnect", "refresh", "add_uloop", "setReconnTimer"}

\* The handler, remove_cb and the event callbacks get an object id and look it up
\* in the Config of the moment: they find every object that is on the bus, from
\* before its call of libubus has returned, after reconnects and while other
\* objects are being registered. Reading, copying and storing the Config are not
\* atomic: only an object that another thread has listed in between may be lost.
OnBusIsListed == \A o \in Objects : bus[o] > 0 => o \in config \cup overwritten

\* A lost connection comes back, when ubusd does.
LinkRecovers == (link = "down") ~> (link = "up")

\* An object that stays in the Config is registered in the end, whatever the
\* order of the application, the connection, the target and earlier errors: the
\* registe timer comes back to it. Said of runs without a loss.
EventuallyRegistered ==
  \A o \in Objects :
    <>[](o \in config /\ (o \in Subscribers => o \in targets)) => <>[]IsDone(o)

\* A subscriber whose target stays is subscribed at ubusd in the end, as the
\* "subscribe success" of onSubscribe (Subscriber.kt:51) says. Of runs without a loss.
EventuallySubscribed ==
  \A s \in Subscribers :
    <>[](s \in config /\ s \in targets) => <>[](s \in subscribed)

\* A registration is refused with "ctx not init" (Ubus.kt:127, 147, 182) only
\* when the context is not ready: once start() is over, with the link up, in the
\* loop, and no loss being handled, ctxAlive is set.
RefusedOnlyWhenNotReady ==
  (\E t \in Threads : At(t, "alive") /\ alive = 0) =>
    \/ link # "up" \/ ~watched
    \/ pc[Worker] \notin {"next", "registe", "done"}
    \/ \E t \in Threads : lost[t] # "no"
=============================================================================

------------------------------- MODULE Bridge -------------------------------
(***************************************************************************)
(* Registration and ProviderRequests over one ctxAlive, one Config and one *)
(* connection at a time: the calls that come over a connection, the        *)
(* answers of the application, and losses and reconnects between them.     *)
(***************************************************************************)
EXTENDS Registration

CONSTANTS
  Requests,    \* the calls that arrive from the bus
  NoRequest,
  Responders,  \* application threads that call rsp
  BadPayloads

ASSUME CallsAssumption == NoRequest \notin Requests /\ BadPayloads \in BOOLEAN

VARIABLES
  counter, id, arena, deferred, delivered, replies, status,
  hpc, hreq, jobs, reqList, taken,
  rpc, arg, good, req,  \* as in ProviderRequests, rpc its pc
  conn,      \* number of connections made so far
  callConn,  \* the connection a call came over
  callee,    \* the provider it is for
  begun      \* per responder: the connection when its rsp passed the guard

P == INSTANCE ProviderRequests WITH pc <- rpc, Handlers <- Threads

callState == <<conn, callConn, callee, begun>>

requestVars ==
  <<counter, id, arena, deferred, delivered, replies, status, hpc, hreq, jobs,
    reqList, taken, rpc, arg, good, req>>

\* what Registration has besides ctxAlive
connectionVars ==
  <<reg, confVars, callVars, lostVars, timerVars, linkVars, busVars, envVars>>

bridgeVars == <<vars, requestVars, callState>>

BridgeTypeOK ==
  /\ TypeOK
  /\ P!TypeOK
  /\ conn \in Nat
  /\ callConn \in [Requests -> Nat]
  /\ callee \in [Requests -> Providers \cup {NoObject}]
  /\ begun \in [Responders -> Nat]

BridgeInit ==
  /\ Init
  /\ P!Init
  /\ conn = 0
  /\ callConn = [r \in Requests |-> 0]
  /\ callee = [r \in Requests |-> NoObject]
  /\ begun = [t \in Responders |-> 0]

-----------------------------------------------------------------------------
(* The connection. A thread in a method handler does nothing else.         *)

\* ubus_connect_ctx or ubus_reconnect has made a new connection.
Connects ==
  \/ pc[Worker] = "connect" /\ pc'[Worker] = "install"
  \/ pc[Loop] = "reconnect" /\ pc'[Loop] = "refresh"

ConnectionStep ==
  /\ \/ hpc[Worker] = "idle" /\ WorkerSteps
     \/ hpc[Loop] = "idle" /\ LoopSteps
     \/ \E t \in Threads :
          hpc[t] = "idle" /\ (AddUloop(t) \/ RegisterSteps(t) \/ LostSteps(t))
     \/ \E t \in Apps : hpc[t] = "idle" /\ (CopyConfig(t) \/ StoreConfig(t))
     \/ \E t \in Senders : hpc[t] = "idle" /\ SendSteps(t)
     \/ \E s \in Subscribers : RemoveCb(s) \/ TargetMoves(s)
     \/ Drop
  /\ conn' = IF Connects THEN conn + 1 ELSE conn
  /\ UNCHANGED <<requestVars, callConn, callee, begun>>

-----------------------------------------------------------------------------
(* The calls.                                                              *)

CallArrives(t) ==
  /\ Serving(t)
  /\ link = "up"
  /\ P!Arrive(t)
  /\ callConn' = [callConn EXCEPT ![hreq'[t]] = conn]
  /\ \E o \in Providers : bus[o] > 0 /\ callee' = [callee EXCEPT ![hreq'[t]] = o]
  /\ UNCHANGED <<connectionVars, conn, begun>>

Handle(t) ==
  /\ \/ P!NoProvider(t) /\ callee[hreq[t]] \notin config
     \/ P!MakeRequest(t) /\ callee[hreq[t]] \in config
     \/ P!Defer(t) \/ P!Enqueue(t) \/ P!Deliver(t) \/ P!Return(t)
  /\ UNCHANGED <<connectionVars, callState>>

AnswerBegins(t) ==
  /\ P!Rsp(t)
  /\ begun' = [begun EXCEPT ![t] = conn]
  /\ UNCHANGED <<connectionVars, conn, callConn, callee>>

\* A reply is out only over a link that is up.
AnswerGoesOn(t) ==
  /\ P!RspSteps(t)
  /\ replies' # replies => link = "up"
  /\ UNCHANGED <<connectionVars, callState>>

WorkerJob ==
  /\ P!WorkerSteps
  /\ UNCHANGED <<connectionVars, callState>>

BridgeNext ==
  \/ ConnectionStep
  \/ \E t \in Threads : CallArrives(t) \/ Handle(t)
  \/ WorkerJob
  \/ \E t \in Responders : AnswerBegins(t) \/ AnswerGoesOn(t)

BridgeSpec == BridgeInit /\ [][BridgeNext]_bridgeVars

-----------------------------------------------------------------------------
(* Properties.                                                             *)

\* A rsp that replies to a call passed its guard on ctxAlive while the connection of
\* that call was the latest one made, be it broken by then: an answer that begins
\* after the reconnect does not reach for the calls of an earlier connection, which
\* reqList keeps and which ubusd would take for another caller's. What keeps them
\* from being answered is ctxAlive, which stays 0. (Said of the guard. Between the
\* guard and ubus_send_reply a loss and a reconnect may come, and the reply then
\* goes out over the next connection: nothing in the code excludes it.)
AnswersOwnConnection ==
  [][\A t \in Responders :
       (rpc[t] = "reply" /\ rpc'[t] # "reply" /\ replies' # replies) =>
         begun[t] = callConn[req[t]]]_bridgeVars

\* The handler of a call finds its provider, unless overlapping registrations have
\* lost it: registration lists it before it is on the bus, and losses and
\* reconnects do not take it out of the Config.
CallsFindProvider ==
  \A t \in Threads :
    hpc[t] = "find" => callee[hreq[t]] \in config \cup overwritten
=============================================================================

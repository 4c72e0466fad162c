---------------------------- MODULE BridgeProofs ----------------------------
(***************************************************************************)
(* Proofs about Bridge: it is both a Registration and a ProviderRequests,  *)
(* and what holds between the two.                                         *)
(***************************************************************************)
EXTENDS Bridge, Sequences, RegistrationClientProofs

-----------------------------------------------------------------------------
(* The two parts. A step of Bridge is a step of Registration that leaves   *)
(* the calls alone, but for ctxAlive, or one of ProviderRequests that      *)
(* leaves the connection alone.                                            *)

\* Whatever the calls do, the connection behaves as Registration says: what is
\* proved of it holds in Bridge (ConnectionStep is a step of Next).
THEOREM BridgeIsRegistration == BridgeSpec => Spec
<1>1. BridgeInit => Init
  BY DEF BridgeInit
<1>2. [BridgeNext]_bridgeVars => [Next]_vars
  <2>1. ConnectionStep => Next
    BY DEF ConnectionStep, Next
  <2>2. ASSUME NEW t \in Threads, CallArrives(t) PROVE UNCHANGED vars
    BY <2>2 DEF CallArrives, P!Arrive, connectionVars, vars, appVars, confVars
  <2>3. ASSUME NEW t \in Threads, Handle(t) PROVE UNCHANGED vars
    BY <2>3 DEF Handle, P!NoProvider, P!MakeRequest, P!Defer, P!Enqueue, P!Deliver,
                P!Return, connectionVars, vars, appVars, confVars
  <2>4. WorkerJob => UNCHANGED vars
    BY DEF WorkerJob, P!WorkerSteps, P!RunAdd, P!RunTake, connectionVars, vars, appVars, confVars
  <2>5. ASSUME NEW t \in Responders, AnswerBegins(t) \/ AnswerGoesOn(t)
        PROVE  UNCHANGED vars
    BY <2>5 DEF AnswerBegins, AnswerGoesOn, P!Rsp, P!RspSteps, P!RspExecute, P!RspNull,
                P!RspParse, P!RspReply, P!RspComplete, P!RspClear, connectionVars, vars,
                appVars, confVars
  <2>6. UNCHANGED bridgeVars => UNCHANGED vars
    BY DEF bridgeVars
  <2> QED BY <2>1, <2>2, <2>3, <2>4, <2>5, <2>6 DEF BridgeNext
<1> QED BY <1>1, <1>2, PTL DEF BridgeSpec, Spec

\* The steps of the calls are steps of ProviderRequests; those of the connection
\* at most change ctxAlive.
LEMMA RequestStep == TypeInv /\ TypeInv' /\ [BridgeNext]_bridgeVars => [P!Next]_(P!vars)
<1> SUFFICES ASSUME TypeInv, TypeInv', [BridgeNext]_bridgeVars PROVE [P!Next]_(P!vars)
  OBVIOUS
<1>1. CASE ConnectionStep
  <2>1. UNCHANGED requestVars
    BY <1>1 DEF ConnectionStep
  <2>2. alive' = alive \/ alive' = 1 - alive
    BY DEF TypeInv, TypeOK
  <2> QED BY <2>1, <2>2 DEF P!Next, P!AliveChanges, requestVars, P!vars, P!busVars,
                            P!handVars, P!listVars, P!rspVars
<1>2. ASSUME NEW t \in Threads, CallArrives(t) \/ Handle(t) PROVE P!Next
  BY <1>2 DEF CallArrives, Handle, P!Next, P!HandlerSteps
<1>3. CASE WorkerJob
  BY <1>3 DEF WorkerJob, P!Next
<1>4. ASSUME NEW t \in Responders, AnswerBegins(t) \/ AnswerGoesOn(t) PROVE P!Next
  BY <1>4 DEF AnswerBegins, AnswerGoesOn, P!Next
<1>5. CASE UNCHANGED bridgeVars
  BY <1>5 DEF bridgeVars, vars, appVars, confVars, requestVars, P!vars, P!busVars, P!handVars,
              P!listVars, P!rspVars
<1> QED BY <1>1, <1>2, <1>3, <1>4, <1>5 DEF BridgeNext

\* Whatever the connection does, the calls behave as ProviderRequests says: losses
\* and reconnects are to them only changes of ctxAlive, at any time.
THEOREM BridgeIsProvider == BridgeSpec => P!Spec
<1>1. BridgeInit => P!Init
  BY DEF BridgeInit
<1> QED BY <1>1, RequestStep, BridgeIsRegistration, TypeInit, TypeNext, PTL
        DEF BridgeSpec, Spec, P!Spec

-----------------------------------------------------------------------------
(* What is proved of ProviderRequests, in the terms of Bridge.             *)

PP == INSTANCE ProviderServiceProofs WITH pc <- rpc, Handlers <- Threads

LEMMA RequestAssumptions == PP!RequestsAssumption /\ PP!PayloadsAssumption
  BY CallsAssumption DEF PP!RequestsAssumption, PP!PayloadsAssumption

LEMMA SameModule == (P!Init => PP!Init) /\ ([P!Next]_(P!vars) => [PP!Next]_(PP!vars))
<1>1. P!Init => PP!Init
  BY DEF P!Init, PP!Init
<1>2. P!Next => PP!Next
  BY DEF
         P!Next, P!HandlerSteps, P!WorkerSteps, P!RspSteps, P!Arrive, P!NoProvider,
         P!MakeRequest, P!Defer, P!Enqueue, P!Deliver, P!Return, P!RunAdd, P!RunTake,
         P!Rsp, P!RspExecute, P!RspNull, P!RspParse, P!RspReply, P!RspComplete,
         P!RspClear, P!AliveChanges, P!HGoto, P!Goto, P!Finish, P!AddJob, P!TakeJob,
         P!busVars, P!handVars, P!listVars, P!rspVars, P!vars, PP!Next,
         PP!HandlerSteps, PP!WorkerSteps, PP!RspSteps, PP!Arrive, PP!NoProvider,
         PP!MakeRequest, PP!Defer, PP!Enqueue, PP!Deliver, PP!Return, PP!RunAdd,
         PP!RunTake, PP!Rsp, PP!RspExecute, PP!RspNull, PP!RspParse, PP!RspReply,
         PP!RspComplete, PP!RspClear, PP!AliveChanges, PP!HGoto, PP!Goto, PP!Finish,
         PP!AddJob, PP!TakeJob, PP!busVars, PP!handVars, PP!listVars, PP!rspVars,
         PP!vars
<1>3. UNCHANGED P!vars => UNCHANGED PP!vars
  BY DEF P!vars, P!busVars, P!handVars, P!listVars, P!rspVars, PP!vars, PP!busVars,
         PP!handVars, PP!listVars, PP!rspVars
<1> QED BY <1>1, <1>2, <1>3

\* Calls that come over a connection, which is lost and made again, are still calls
\* of the abstract service, one answer to each: see ProviderService.
THEOREM BridgeIsService == BridgeSpec => PP!ImplementsService
<1>1. PP!RequestsAssumption /\ PP!PayloadsAssumption
  BY RequestAssumptions
<1>2. PP!Spec => PP!ImplementsService
  BY <1>1, PP!Implements
<1>3. P!Spec => PP!Spec
  BY SameModule, PTL DEF P!Spec, PP!Spec
<1> QED BY <1>2, <1>3, BridgeIsProvider, PTL

\* Calls and their answers do not disturb the registration: the whole is the client
\* of BusClient, whose registered objects are usable while its context lives: see
\* RegistrationClient.
THEOREM BridgeIsClient == BridgeSpec => ImplementsClient
  BY BridgeIsRegistration, Implements, PTL

RequestInv == PP!BaseInv /\ PP!OwnInv /\ PP!NumberInv

LEMMA RequestInit == P!Init => RequestInv
  BY RequestAssumptions, SameModule, PP!BaseInit, PP!OwnInit, PP!NumberInit DEF RequestInv

LEMMA RequestNext == RequestInv /\ [P!Next]_(P!vars) => RequestInv'
  BY RequestAssumptions, SameModule, PP!BaseNext, PP!OwnNext, PP!NumberNext DEF RequestInv

\* Also across losses and reconnects a caller gets one reply and one status at
\* most (Provider.kt rsp): see ProviderRequests.
THEOREM BridgeAnswersOnce == BridgeSpec => []P!AtMostOneAnswer
<1>1. RequestInv => P!AtMostOneAnswer
  BY DEF RequestInv, PP!OwnInv, PP!AnswerInv, PP!AtMostOneAnswer, P!AtMostOneAnswer
<1> QED BY <1>1, BridgeIsProvider, RequestInit, RequestNext, PTL DEF P!Spec

-----------------------------------------------------------------------------
(* AnswersOwnConnection. While ctxAlive is set, every call that has come   *)
(* is of the connection of now: a new connection is made only before any   *)
(* call or after ctxAlive has been cleared for good.                       *)

Arrived(r) == id[r] # 0 \/ \E t \in Threads : hreq[t] = r

CallInv ==
  /\ Early \/ (alive = 1 /\ Pending) => \A r \in Requests : ~Arrived(r)
  /\ alive = 1 => \A r \in Requests : Arrived(r) => callConn[r] = conn

\* A rsp of a number has begun at the connection of the call with that number.
BegunInv ==
  \A t \in Responders, r \in Requests :
    rpc[t] # "idle" /\ id[r] = arg[t] => begun[t] = callConn[r]

CallTypes ==
  /\ conn \in Nat
  /\ callConn \in [Requests -> Nat]
  /\ callee \in [Requests -> Providers \cup {NoObject}]
  /\ begun \in [Responders -> Nat]

LEMMA CallInit == BridgeInit => CallInv /\ BegunInv /\ CallTypes
<1> SUFFICES ASSUME BridgeInit PROVE CallInv /\ BegunInv /\ CallTypes
  OBVIOUS
<1>1. \A r \in Requests : ~Arrived(r)
  BY CallsAssumption DEF BridgeInit, P!Init, Arrived
<1>2. BegunInv
  BY DEF BridgeInit, P!Init, BegunInv
<1>3. CallTypes
  BY DEF BridgeInit, CallTypes
<1> QED BY <1>1, <1>2, <1>3 DEF CallInv

\* The types of the variables of ProviderRequests that the next lemmas need.
LEMMA RequestTypes ==
  ASSUME RequestInv
  PROVE  /\ id \in [Requests -> Nat] /\ arg \in [Responders -> Nat] /\ counter \in Nat
         /\ hreq \in [Threads -> Requests \cup {NoRequest}]
         /\ rpc \in [Responders -> PP!RspPlaces]
         /\ delivered \subseteq Requests
         /\ NoRequest \notin Requests
         /\ \A t \in Threads : hpc[t] # "idle" => hreq[t] \in Requests
  BY CallsAssumption DEF RequestInv, PP!BaseInv, PP!TypeOK, PP!BusyInv

LEMMA CallTypesNext == RequestInv /\ CallTypes /\ [BridgeNext]_bridgeVars => CallTypes'
<1> SUFFICES ASSUME RequestInv, CallTypes, [BridgeNext]_bridgeVars PROVE CallTypes'
  OBVIOUS
<1>1. CASE ConnectionStep
  BY <1>1 DEF ConnectionStep, CallTypes
<1>2. ASSUME NEW t \in Threads, CallArrives(t) PROVE CallTypes'
  <2>1. hreq'[t] \in Requests
    BY <1>2, RequestTypes DEF CallArrives, P!Arrive
  <2> QED BY <1>2, <2>1 DEF CallArrives, CallTypes
<1>3. ASSUME NEW t \in Responders, AnswerBegins(t) PROVE CallTypes'
  BY <1>3 DEF AnswerBegins, CallTypes
<1>4. ASSUME UNCHANGED callState PROVE CallTypes'
  BY <1>4 DEF callState, CallTypes
<1> QED BY <1>1, <1>2, <1>3, <1>4
        DEF BridgeNext, Handle, WorkerJob, AnswerGoesOn, bridgeVars

\* No call can come while nothing of ours is on the bus or a loss is pending.
LEMMA NotThen ==
  ASSUME KnownInv, LossInv, NEW t \in Threads, CallArrives(t)
  PROVE  ~Early /\ ~(alive = 1 /\ Pending)
<1>1. added # {}
  BY DEF CallArrives, KnownInv, Objects
<1>2. ~Early
  BY <1>1 DEF LossInv, EarlyInv
<1>3. alive = 1 => ~Pending
  BY <1>1 DEF LossInv, QuietInv
<1> QED BY <1>2, <1>3

\* A step of any action keeps CallInv.
LEMMA CallNext ==
  /\ KnownInv /\ LossInv /\ StepFacts /\ RequestInv /\ CallTypes /\ CallInv
  /\ [BridgeNext]_bridgeVars
  => CallInv'
<1> SUFFICES ASSUME KnownInv, LossInv, StepFacts, RequestInv, CallTypes, CallInv,
                    [BridgeNext]_bridgeVars
             PROVE  CallInv'
  OBVIOUS
<1>1. CASE ConnectionStep
  <2>1. UNCHANGED <<id, hreq, callConn>> /\ (conn' # conn => Connects)
    BY <1>1 DEF ConnectionStep, requestVars
  <2>2. \A r \in Requests : Arrived(r)' <=> Arrived(r)
    BY <2>1 DEF Arrived
  <2>3. Connects => Early \/ Pending
    BY DEF Connects, Early, Pending
  <2>4. Early' \/ (alive' = 1 /\ Pending') => Early \/ (alive = 1 /\ Pending)
    BY DEF StepFacts
  <2>5. alive' = 1 /\ conn' # conn => \A r \in Requests : ~Arrived(r)
    BY <2>1, <2>3 DEF StepFacts, CallInv
  <2>6. alive' = 1 => alive = 1 \/ \A r \in Requests : ~Arrived(r)
    BY DEF StepFacts, CallInv
  <2> QED BY <2>1, <2>2, <2>4, <2>5, <2>6 DEF CallInv
<1>2. ASSUME NEW t \in Threads, CallArrives(t) PROVE CallInv'
  <2>1. /\ hreq'[t] \in Requests /\ callConn' = [callConn EXCEPT ![hreq'[t]] = conn]
        /\ \A u \in Threads : u # t => hreq'[u] = hreq[u]
        /\ UNCHANGED <<id, alive, conn, pc, lost, reconnTimers>>
    BY <1>2, RequestTypes DEF CallArrives, P!Arrive, connectionVars, callVars, lostVars,
                              timerVars
  <2>2. \A r \in Requests : Arrived(r)' => Arrived(r) \/ r = hreq'[t]
    BY <2>1 DEF Arrived
  <2>3. ~(Early' \/ (alive' = 1 /\ Pending'))
    BY <1>2, <2>1, NotThen DEF Early, Pending
  <2>4. \A r \in Requests : r # hreq'[t] => callConn'[r] = callConn[r]
    BY <2>1 DEF CallTypes
  <2> QED BY <2>1, <2>2, <2>3, <2>4 DEF CallInv, CallTypes
<1>3. ASSUME UNCHANGED <<alive, conn, callConn, pc, lost, reconnTimers>>,
             \A r \in Requests : Arrived(r)' => Arrived(r)
      PROVE  CallInv'
  BY <1>3 DEF CallInv, Early, Pending
<1>4. ASSUME NEW t \in Threads, Handle(t) PROVE CallInv'
  <2>1. UNCHANGED <<alive, conn, callConn, pc, lost, reconnTimers>>
    BY <1>4 DEF Handle, P!NoProvider, P!MakeRequest, P!Defer, P!Enqueue, P!Deliver,
                P!Return, connectionVars, callState, callVars, lostVars, timerVars
  <2>2. CASE P!MakeRequest(t)
    <3>1. hreq[t] \in Requests /\ UNCHANGED hreq
          /\ \A r \in Requests : r # hreq[t] => id'[r] = id[r]
      BY <2>2, RequestTypes DEF P!MakeRequest
    <3> QED BY <1>3, <2>1, <3>1 DEF Arrived
  <2>3. CASE P!Return(t)
    <3>1. UNCHANGED id /\ \A u \in Threads : hreq'[u] = hreq[u] \/ hreq'[u] = NoRequest
      BY <2>3, RequestTypes DEF P!Return
    <3> QED BY <1>3, <2>1, <3>1, CallsAssumption DEF Arrived
  <2>4. CASE P!NoProvider(t) \/ P!Defer(t) \/ P!Enqueue(t) \/ P!Deliver(t)
    <3>1. UNCHANGED <<id, hreq>>
      BY <2>4 DEF P!NoProvider, P!Defer, P!Enqueue, P!Deliver
    <3> QED BY <1>3, <2>1, <3>1 DEF Arrived
  <2> QED BY <1>4, <2>2, <2>3, <2>4 DEF Handle
<1>5. CASE WorkerJob
  BY <1>3, <1>5 DEF WorkerJob, P!WorkerSteps, P!RunAdd, P!RunTake, P!handVars, Arrived,
                    connectionVars, callState, callVars, lostVars, timerVars
<1>6. ASSUME NEW t \in Responders, AnswerBegins(t) PROVE CallInv'
  BY <1>3, <1>6 DEF AnswerBegins, P!Rsp, P!handVars, Arrived, connectionVars, callVars,
                    lostVars, timerVars
<1>7. ASSUME NEW t \in Responders, AnswerGoesOn(t) PROVE CallInv'
  BY <1>3, <1>7 DEF AnswerGoesOn, P!RspSteps, P!RspExecute, P!RspNull, P!RspParse,
                    P!RspReply, P!RspComplete, P!RspClear, P!handVars, Arrived,
                    connectionVars, callState, callVars, lostVars, timerVars
<1>8. CASE UNCHANGED bridgeVars
  BY <1>3, <1>8 DEF bridgeVars, vars, appVars, confVars, callVars, lostVars, timerVars, requestVars,
                    callState, Arrived
<1> QED BY <1>1, <1>2, <1>4, <1>5, <1>6, <1>7, <1>8 DEF BridgeNext

\* A step of any action keeps BegunInv.
LEMMA BegunNext ==
  RequestInv /\ CallTypes /\ CallInv /\ BegunInv /\ [BridgeNext]_bridgeVars => BegunInv'
<1> SUFFICES ASSUME RequestInv, CallTypes, CallInv, BegunInv, [BridgeNext]_bridgeVars
             PROVE  BegunInv'
  OBVIOUS
<1>1. ASSUME UNCHANGED <<id, callConn, begun>>,
             \A t \in Responders :
               rpc'[t] # "idle" => rpc[t] # "idle" /\ arg'[t] = arg[t]
      PROVE  BegunInv'
  BY <1>1 DEF BegunInv
<1>2. CASE ConnectionStep
  BY <1>1, <1>2 DEF ConnectionStep, requestVars
<1>3. ASSUME NEW t \in Threads, CallArrives(t) PROVE BegunInv'
  <2>1. PICK r \in Requests : id[r] = 0 /\ callConn' = [callConn EXCEPT ![r] = conn]
    BY <1>3, RequestTypes DEF CallArrives, P!Arrive
  <2>2. UNCHANGED <<id, rpc, arg, begun>>
    BY <1>3 DEF CallArrives, P!Arrive, P!rspVars
  <2>3. \A u \in Responders : rpc[u] # "idle" => arg[u] # 0
    BY DEF RequestInv, PP!NumberInv
  <2> QED BY <2>1, <2>2, <2>3 DEF BegunInv, CallTypes
<1>4. ASSUME NEW t \in Threads, Handle(t) PROVE BegunInv'
  <2>1. UNCHANGED <<rpc, arg, callConn, begun>>
    BY <1>4 DEF Handle, P!NoProvider, P!MakeRequest, P!Defer, P!Enqueue, P!Deliver,
                P!Return, P!rspVars, callState
  <2>2. CASE P!MakeRequest(t)
    <3>1. /\ hreq[t] \in Requests /\ id' = [id EXCEPT ![hreq[t]] = counter + 1]
          /\ counter \in Nat
      BY <2>2, RequestTypes DEF P!MakeRequest
    <3>2. \A u \in Responders : rpc[u] # "idle" => arg[u] # counter + 1
      BY <3>1, RequestTypes DEF RequestInv, PP!NumberInv
    <3>3. \A r \in Requests : id'[r] = IF r = hreq[t] THEN counter + 1 ELSE id[r]
      BY <3>1, RequestTypes
    <3> QED BY <2>1, <3>2, <3>3 DEF BegunInv
  <2>3. CASE UNCHANGED id
    BY <1>1, <2>1, <2>3
  <2> QED BY <1>4, <2>2, <2>3
          DEF Handle, P!NoProvider, P!Defer, P!Enqueue, P!Deliver, P!Return
<1>5. CASE WorkerJob
  <2>1. UNCHANGED <<id, callConn, begun, arg>>
    BY <1>5 DEF WorkerJob, P!WorkerSteps, P!RunAdd, P!RunTake, P!handVars, P!rspVars,
                callState
  <2>2. \A t \in Responders : rpc'[t] # "idle" => rpc[t] # "idle"
    <3>1. CASE P!RunAdd
      BY <3>1 DEF P!RunAdd, P!rspVars
    <3>2. CASE P!RunTake
      <4>1. PICK t : t = Head(jobs).of
        OBVIOUS
      <4>2. t \in Responders /\ rpc[t] = "future"
        <5>1. Head(jobs) \in PP!Jobs /\ Head(jobs) = jobs[1] /\ 1 \in 1..Len(jobs)
          BY <3>2, RequestAssumptions, PP!HeadTail DEF P!RunTake, RequestInv, PP!BaseInv
        <5> QED BY <3>2, <4>1, <5>1
                DEF P!RunTake, RequestInv, PP!BaseInv, PP!TakeInv, PP!Jobs
      <4>3. \/ rpc' = [rpc EXCEPT ![t] = "null"]
            \/ rpc' = [rpc EXCEPT ![t] = "parse"]
        BY <3>2, <4>1 DEF P!RunTake
      <4> QED BY <4>2, <4>3, RequestTypes
    <3> QED BY <1>5, <3>1, <3>2 DEF WorkerJob, P!WorkerSteps
  <2> QED BY <1>1, <2>1, <2>2
<1>6. ASSUME NEW t \in Responders, AnswerBegins(t) PROVE BegunInv'
  <2>1. PICK r \in delivered : arg' = [arg EXCEPT ![t] = id[r]]
    BY <1>6 DEF AnswerBegins, P!Rsp
  <2>2. alive = 1 /\ rpc' = [rpc EXCEPT ![t] = "execute"] /\ UNCHANGED <<id, callConn>>
        /\ begun' = [begun EXCEPT ![t] = conn]
    BY <1>6 DEF AnswerBegins, P!Rsp, P!Goto, P!handVars
  <2>3. r \in Requests /\ id[r] # 0
    BY RequestTypes DEF RequestInv, PP!NumberInv
  <2>4. callConn[r] = conn
    BY <2>2, <2>3 DEF CallInv, Arrived
  <2>5. \A q \in Requests : id[q] = id[r] => q = r
    BY <2>3 DEF RequestInv, PP!NumberInv
  <2> QED BY <2>1, <2>2, <2>3, <2>4, <2>5, RequestTypes DEF BegunInv, CallTypes
<1>7. ASSUME NEW t \in Responders, AnswerGoesOn(t) PROVE BegunInv'
  <2>1. UNCHANGED <<id, callConn, begun>>
    BY <1>7 DEF AnswerGoesOn, P!RspSteps, P!RspExecute, P!RspNull, P!RspParse, P!RspReply,
                P!RspComplete, P!RspClear, P!handVars, callState
  <2>2. \A u \in Responders :
          rpc'[u] # "idle" => rpc[u] # "idle" /\ arg'[u] = arg[u]
    <3>1. rpc[t] # "idle" /\ \A u \in Responders : u # t => rpc'[u] = rpc[u] /\ arg'[u] = arg[u]
      BY <1>7, RequestTypes
      DEF AnswerGoesOn, P!RspSteps, P!RspExecute, P!RspNull, P!RspParse, P!RspReply,
          P!RspComplete, P!RspClear, P!Finish, P!Goto
    <3>2. rpc'[t] # "idle" => arg'[t] = arg[t]
      BY <1>7, RequestTypes
      DEF AnswerGoesOn, P!RspSteps, P!RspExecute, P!RspNull, P!RspParse, P!RspReply,
          P!RspComplete, P!RspClear, P!Finish, P!Goto
    <3> QED BY <3>1, <3>2
  <2> QED BY <1>1, <2>1, <2>2
<1>8. CASE UNCHANGED bridgeVars
  BY <1>1, <1>8 DEF bridgeVars, requestVars, callState
<1> QED BY <1>2, <1>3, <1>4, <1>5, <1>6, <1>7, <1>8 DEF BridgeNext

BridgeInv ==
  /\ TypeInv /\ ReadyInv /\ KnownInv /\ LossInv
  /\ RequestInv /\ CallTypes /\ CallInv /\ BegunInv

LEMMA BridgeInvInit == BridgeInit => BridgeInv
  BY TypeInit, ReadyInit, KnownInit, LossInit, RequestInit, CallInit DEF BridgeInit, BridgeInv

\* A step of Bridge is one of both parts, and keeps all of the invariants.
LEMMA BridgeInvNext ==
  BridgeInv /\ [Next]_vars /\ [P!Next]_(P!vars) /\ [BridgeNext]_bridgeVars => BridgeInv'
  BY TypeNext, ReadyNext, KnownNext, LossNext, RequestNext, CallTypesNext, CallNext, BegunNext
  DEF BridgeInv

LEMMA BridgeInvHolds == BridgeSpec => []BridgeInv
  BY BridgeInvInit, BridgeInvNext, BridgeIsRegistration, BridgeIsProvider, PTL
  DEF BridgeSpec, Spec, P!Spec

\* The variables of Bridge keep their types.
THEOREM BridgeTypes == BridgeSpec => []BridgeTypeOK
<1>1. BridgeInv => BridgeTypeOK
  BY DEF BridgeInv, TypeInv, CallTypes, BridgeTypeOK, RequestInv, PP!BaseInv, P!TypeOK,
         PP!TypeOK, P!Jobs, PP!Jobs, P!HandlerPlaces, PP!HandlerPlaces, P!RspPlaces,
         PP!RspPlaces
<1> QED BY <1>1, BridgeInvHolds, PTL

\* A reply is made only for a call of the connection that was the latest one when its
\* rsp passed the guard on ctxAlive (Ubus.kt rsp): see AnswersOwnConnection.
THEOREM AnswersStay == BridgeSpec => AnswersOwnConnection
<1>1. BridgeInv =>
        [\A t \in Responders :
           (rpc[t] = "reply" /\ rpc'[t] # "reply" /\ replies' # replies) =>
             begun[t] = callConn[req[t]]]_bridgeVars
  <2> SUFFICES ASSUME BridgeInv, NEW t \in Responders, rpc[t] = "reply"
               PROVE  begun[t] = callConn[req[t]]
    OBVIOUS
  <2>1. req[t] \in Requests
    BY RequestAssumptions DEF BridgeInv, RequestInv, PP!BaseInv, PP!BusyInv, PP!TypeOK,
                              PP!Holding
  <2>2. id[req[t]] = arg[t]
    BY DEF BridgeInv, RequestInv, PP!NumberInv, PP!Holding
  <2> QED BY <2>1, <2>2 DEF BridgeInv, BegunInv
<1> QED BY <1>1, BridgeInvHolds, PTL DEF AnswersOwnConnection

-----------------------------------------------------------------------------
(* CallsFindProvider. What has been listed stays known: it is in the       *)
(* Config, or a stale copy has overwritten it.                             *)

LEMMA KnownGrows == ListedInv /\ [Next]_vars => Known \subseteq Known'
<1> SUFFICES ASSUME ListedInv, [Next]_vars PROVE Known \subseteq Known'
  OBVIOUS
<1>1. ASSUME NEW t \in Apps, StoreConfig(t) PROVE Known \subseteq Known'
  <2>1. t \notin stale => draft[t] = config
    BY <1>1 DEF StoreConfig, At, ListedInv, StaleInv
  <2>2. /\ config' = draft[t] \cup {cur[t]}
        /\ overwritten' = IF t \in stale THEN overwritten \cup (config \ config')
                          ELSE overwritten
    BY <1>1 DEF StoreConfig
  <2> QED BY <2>1, <2>2 DEF Known
<1>2. CASE UNCHANGED <<config, overwritten>>
  BY <1>2 DEF Known
<1>3. (\E t \in Apps : StoreConfig(t)) \/ UNCHANGED <<config, overwritten>>
  BY DEF Next, WorkerSteps, SetRegisteTimer, Connect, InstallHandler, SetAlive, LoopSteps,
         FireRegiste, RearmRegiste, FireReconn, Reconnect, ReAdd, Refreshed,
         SetReconnTimer, LoopSeesLoss, AddUloop, RegisterSteps, Registe, TakeNext,
         AllTaken, CheckAlive, CheckRegistered, AddObject, SkipAdd, RegisterPattern,
         LookupId, Subscribe, CallRefused, CallBroken, OnRegiste, OnSubscribe, LostSteps,
         ClearAlive, ReadConfig, OnLeave, ArmReconn, CopyConfig, SendSteps, SendEvent,
         Notify, FindProvider, Send, RemoveCb, TargetMoves, Drop, vars, appVars, confVars
<1> QED BY <1>1, <1>2, <1>3

\* A step of any action keeps CallsFindProvider.
LEMMA FindNext ==
  /\ RequestInv /\ CallTypes /\ ListedInv /\ Known \subseteq Known'
  /\ CallsFindProvider /\ [BridgeNext]_bridgeVars
  => CallsFindProvider'
<1> SUFFICES ASSUME RequestInv, CallTypes, ListedInv, Known \subseteq Known',
                    CallsFindProvider, [BridgeNext]_bridgeVars
             PROVE  CallsFindProvider'
  OBVIOUS
<1>1. ASSUME UNCHANGED callee,
             \A t \in Threads : hpc'[t] = "find" => hpc[t] = "find" /\ hreq'[t] = hreq[t]
      PROVE  CallsFindProvider'
  BY <1>1 DEF CallsFindProvider, Known
<1>2. CASE ConnectionStep
  BY <1>1, <1>2 DEF ConnectionStep, requestVars
<1>3. ASSUME NEW t \in Threads, CallArrives(t) PROVE CallsFindProvider'
  <2>1. PICK r \in Requests : (\A u \in Threads : hreq[u] # r) /\ hreq' = [hreq EXCEPT ![t] = r]
    BY <1>3 DEF CallArrives, P!Arrive
  <2>2. PICK o \in Providers : bus[o] > 0 /\ callee' = [callee EXCEPT ![r] = o]
    BY <1>3, <2>1, RequestTypes DEF CallArrives
  <2>3. o \in Known
    BY <2>2 DEF ListedInv, Objects
  <2>4. /\ hpc[t] = "idle"
        /\ \A u \in Threads : u # t => hpc'[u] = hpc[u] /\ hreq'[u] = hreq[u]
    BY <1>3, RequestTypes DEF CallArrives, P!Arrive, P!HGoto, connectionVars
  <2>5. \A u \in Threads : hpc[u] = "find" => hreq[u] \in Requests
    BY RequestTypes
  <2>6. hreq'[t] = r
    BY <2>1, RequestTypes
  <2> QED BY <2>1, <2>2, <2>3, <2>4, <2>5, <2>6 DEF CallsFindProvider, Known, CallTypes
<1>4. ASSUME NEW t \in Threads, Handle(t) PROVE CallsFindProvider'
  <2>1. \A u \in Threads : hpc'[u] = "find" => hpc[u] = "find" /\ hreq'[u] = hreq[u]
    BY <1>4, RequestTypes DEF Handle, P!NoProvider, P!MakeRequest, P!Defer, P!Enqueue,
       P!Deliver, P!Return, P!HGoto, RequestInv, PP!BaseInv, PP!TypeOK
  <2> QED BY <1>1, <1>4, <2>1 DEF Handle, callState
<1>5. CASE WorkerJob
  BY <1>1, <1>5 DEF WorkerJob, P!WorkerSteps, P!RunAdd, P!RunTake, P!handVars, callState
<1>6. ASSUME NEW t \in Responders, AnswerBegins(t) PROVE CallsFindProvider'
  BY <1>1, <1>6 DEF AnswerBegins, P!Rsp, P!handVars
<1>7. ASSUME NEW t \in Responders, AnswerGoesOn(t) PROVE CallsFindProvider'
  BY <1>1, <1>7 DEF AnswerGoesOn, P!RspSteps, P!RspExecute, P!RspNull, P!RspParse,
                    P!RspReply, P!RspComplete, P!RspClear, P!handVars, callState
<1>8. CASE UNCHANGED bridgeVars
  BY <1>1, <1>8 DEF bridgeVars, requestVars, callState
<1> QED BY <1>2, <1>3, <1>4, <1>5, <1>6, <1>7, <1>8 DEF BridgeNext

\* The handler of every call finds its provider in the Config (Ubus.kt
\* findProviderById), for any number of application threads, unless an overlapping
\* registration has taken it out: see CallsFindProvider.
THEOREM CallsAreKnown == BridgeSpec => []CallsFindProvider
<1>1. BridgeInit => CallsFindProvider /\ ListedInv
  BY ListedInit DEF BridgeInit, P!Init, CallsFindProvider
<1>2. BridgeInv /\ ListedInv /\ CallsFindProvider /\ [Next]_vars /\ [BridgeNext]_bridgeVars
        => ListedInv' /\ CallsFindProvider'
  BY ListedNext, KnownGrows, FindNext DEF BridgeInv
<1> QED BY <1>1, <1>2, BridgeInvHolds, BridgeIsRegistration, PTL DEF BridgeSpec, Spec
=============================================================================

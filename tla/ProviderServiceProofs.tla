----------------------- MODULE ProviderServiceProofs -----------------------
(***************************************************************************)
(* ProviderRequests implements CallService, for any sets of requests and   *)
(* threads.                                                                *)
(***************************************************************************)
EXTENDS ProviderService, ProviderRequestsProofs

-----------------------------------------------------------------------------
(* OwnInv says where a request that waits is; what it leaves open is that  *)
(* one that has been taken never waits again.                              *)

TakenInv ==
  /\ \A r \in taken : id[r] # 0 /\ r \notin reqList /\ ~Queued(r)
  /\ \A h \in Handlers : hpc[h] \in {"find", "defer", "enqueue"} => hreq[h] \notin taken
  /\ \A t \in Responders : req[t] # NoRequest => req[t] \in taken
  /\ \A t \in Responders : pc[t] = "clear" => status[req[t]] > 0

\* Nothing has been taken in the beginning.
LEMMA TakenInit == Init => TakenInv
  BY RequestsAssumption DEF Init, TakenInv, Queued

\* A step of any action keeps a taken request out of the queue and of reqList.
LEMMA TakenNext == BaseInv /\ OwnInv /\ TakenInv /\ [Next]_vars => TakenInv'
<1> SUFFICES ASSUME BaseInv, OwnInv, TakenInv, [Next]_vars PROVE TakenInv'
  OBVIOUS
<1> USE RequestsAssumption DEF busVars, handVars, listVars, rspVars
<1>1. ASSUME NEW h \in Handlers, Arrive(h) PROVE TakenInv'
  BY <1>1 DEF Arrive, HGoto, TakenInv, BaseInv, TypeOK, Queued
<1>2. ASSUME NEW h \in Handlers, NoProvider(h) PROVE TakenInv'
  <2>1. hreq[h] \in Requests
    BY <1>2, HandlerBusy DEF NoProvider
  <2>2. \A r \in Requests : status[r] > 0 => status'[r] > 0
    BY <1>2, <2>1 DEF NoProvider, BaseInv, TypeOK
  <2> QED BY <1>2, <2>2, ResponderBusy
          DEF NoProvider, HGoto, TakenInv, BaseInv, TypeOK, Queued, Holding
<1>3. ASSUME NEW h \in Handlers, MakeRequest(h) PROVE TakenInv'
  BY <1>3, HandlerBusy DEF MakeRequest, HGoto, TakenInv, BaseInv, TypeOK, Queued
<1>4. ASSUME NEW h \in Handlers, Defer(h) PROVE TakenInv'
  BY <1>4 DEF Defer, HGoto, TakenInv, BaseInv, TypeOK, Queued
<1>5. ASSUME NEW h \in Handlers, Enqueue(h) PROVE TakenInv'
  <2>1. AddJob(hreq[h]) \in Jobs
    BY <1>5, HandlerBusy DEF Enqueue, AddJob, Jobs
  <2>2. \A r \in Requests : Queued(r)' => Queued(r) \/ r = hreq[h]
    BY <1>5, <2>1, AppendJob DEF Enqueue, Queued, AddJob, BaseInv
  <2>3. hreq[h] \notin taken
    BY <1>5 DEF Enqueue, TakenInv
  <2>4. taken \subseteq Requests
    BY DEF BaseInv, TypeOK
  <2> QED BY <1>5, <2>2, <2>3, <2>4 DEF Enqueue, HGoto, TakenInv, BaseInv, TypeOK
<1>6. ASSUME NEW h \in Handlers, Deliver(h) PROVE TakenInv'
  BY <1>6 DEF Deliver, HGoto, TakenInv, BaseInv, TypeOK, Queued
<1>7. ASSUME NEW h \in Handlers, Return(h) PROVE TakenInv'
  <2>1. hreq[h] \in Requests
    BY <1>7, HandlerBusy DEF Return
  <2>2. \A r \in Requests : status[r] > 0 => status'[r] > 0
    BY <1>7, <2>1 DEF Return, BaseInv, TypeOK
  <2> QED BY <1>7, <2>2, ResponderBusy
          DEF Return, HGoto, TakenInv, BaseInv, TypeOK, Queued, Holding
<1>8. CASE RunAdd
  <2>1. Head(jobs).of \notin taken
    <3>1. jobs # <<>> /\ Head(jobs).kind = "add"
      BY <1>8 DEF RunAdd
    <3>2. Head(jobs) \in Jobs /\ Head(jobs) = jobs[1] /\ 1 \in 1..Len(jobs)
      BY <3>1, HeadTail DEF BaseInv
    <3>3. jobs[1] = AddJob(Head(jobs).of)
      BY <3>1, <3>2 DEF Jobs, AddJob
    <3> QED BY <3>2, <3>3 DEF TakenInv, Queued
  <2>2. \A r \in Requests : Queued(r)' => Queued(r)
    BY <1>8, HeadTail DEF RunAdd, Queued, AddJob, BaseInv
  <2>3. taken \subseteq Requests
    BY DEF BaseInv, TypeOK
  <2> QED BY <1>8, <2>1, <2>2, <2>3 DEF RunAdd, TakenInv
<1>9. CASE RunTake
  <2> DEFINE t == Head(jobs).of
  <2>1. /\ jobs # <<>> /\ jobs' = Tail(jobs)
        /\ UNCHANGED <<id, hpc, hreq, status>>
        /\ \/ pc' = [pc EXCEPT ![t] = "null"] /\ UNCHANGED <<reqList, taken, req>>
           \/ \E r \in reqList : /\ reqList' = reqList \ {r} /\ taken' = taken \cup {r}
                                 /\ req' = [req EXCEPT ![t] = r]
                                 /\ pc' = [pc EXCEPT ![t] = "parse"]
    BY <1>9 DEF RunTake
  <2>2. \A r \in Requests : Queued(r)' => Queued(r)
    BY <2>1, HeadTail DEF Queued, AddJob, BaseInv
  <2> HIDE DEF t
  <2>3. CASE pc' = [pc EXCEPT ![t] = "null"] /\ UNCHANGED <<reqList, taken, req>>
    BY <2>1, <2>2, <2>3 DEF TakenInv, BaseInv, TypeOK
  <2>4. ASSUME NEW r \in reqList, reqList' = reqList \ {r}, taken' = taken \cup {r},
               req' = [req EXCEPT ![t] = r], pc' = [pc EXCEPT ![t] = "parse"]
        PROVE  TakenInv'
    <3>1. r \in Requests /\ id[r] # 0
      BY DEF OwnInv, ListInv, Waits, BaseInv, TypeOK
    <3>2. ~Queued(r)
      BY DEF Queued, AddJob, OwnInv, QueueInv
    <3>3. \A h \in Handlers : hpc[h] \in {"find", "defer", "enqueue"} => hreq[h] # r
      BY DEF OwnInv, NewInv
    <3>4. taken \subseteq Requests
      BY DEF BaseInv, TypeOK
    <3> QED BY <2>1, <2>2, <2>4, <3>1, <3>2, <3>3, <3>4 DEF TakenInv, BaseInv, TypeOK
  <2> QED BY <2>1, <2>3, <2>4
<1>10. ASSUME NEW t \in Responders, Rsp(t) PROVE TakenInv'
  BY <1>10 DEF Rsp, Goto, TakenInv, BaseInv, TypeOK, Queued
<1>11. ASSUME NEW t \in Responders, RspExecute(t) PROVE TakenInv'
  <2>1. TakeJob(t) \in Jobs
    BY DEF TakeJob, Jobs
  <2>2. \A r \in Requests : Queued(r)' => Queued(r)
    BY <1>11, <2>1, AppendJob DEF RspExecute, Queued, AddJob, TakeJob, BaseInv
  <2>3. taken \subseteq Requests
    BY DEF BaseInv, TypeOK
  <2> QED BY <1>11, <2>2, <2>3 DEF RspExecute, Goto, TakenInv, BaseInv, TypeOK
<1>12. ASSUME NEW t \in Responders, RspNull(t) PROVE TakenInv'
  BY <1>12 DEF RspNull, Finish, Goto, TakenInv, BaseInv, TypeOK, Queued
<1>13. ASSUME NEW t \in Responders, RspParse(t) PROVE TakenInv'
  <2>1. CASE good[t]
    BY <1>13, <2>1 DEF RspParse, Goto, TakenInv, BaseInv, TypeOK, Queued
  <2>2. CASE ~good[t]
    <3>1. /\ UNCHANGED <<id, taken, reqList, jobs, hpc, hreq, status>>
          /\ pc' = [pc EXCEPT ![t] = "idle"]
          /\ req' = [req EXCEPT ![t] = NoRequest]
      BY <1>13, <2>2 DEF RspParse, Finish, Goto
    <3> QED BY <3>1 DEF TakenInv, BaseInv, TypeOK, Queued
  <2> QED BY <2>1, <2>2
<1>14. ASSUME NEW t \in Responders, RspReply(t) PROVE TakenInv'
  BY <1>14 DEF RspReply, Goto, TakenInv, BaseInv, TypeOK, Queued
<1>15. ASSUME NEW t \in Responders, RspComplete(t) PROVE TakenInv'
  <2>1. req[t] \in Requests
    BY <1>15, ResponderBusy DEF RspComplete, Holding
  <2>2. \A r \in Requests : (status[r] > 0 \/ r = req[t]) => status'[r] > 0
    BY <1>15, <2>1 DEF RspComplete, BaseInv, TypeOK
  <2> QED BY <1>15, <2>1, <2>2, ResponderBusy
          DEF RspComplete, Goto, TakenInv, BaseInv, TypeOK, Queued, Holding
<1>16. ASSUME NEW t \in Responders, RspClear(t) PROVE TakenInv'
  BY <1>16 DEF RspClear, Finish, Goto, TakenInv, BaseInv, TypeOK, Queued
<1>17. CASE AliveChanges
  BY <1>17 DEF AliveChanges, TakenInv, Queued
<1>18. CASE UNCHANGED vars
  BY <1>18 DEF vars, TakenInv, Queued
<1> QED BY <1>1, <1>2, <1>3, <1>4, <1>5, <1>6, <1>7, <1>8, <1>9, <1>10, <1>11,
           <1>12, <1>13, <1>14, <1>15, <1>16, <1>17, <1>18
        DEF Next, HandlerSteps, WorkerSteps, RspSteps

-----------------------------------------------------------------------------
(* The mapped variables, and how they follow the concrete ones.            *)

States == [r \in Requests |-> ServiceState(r)]
Holders == [r \in Requests |-> ServiceHolder(r)]

\* The abstract state of a call depends on nothing else.
LEMMA SameCall ==
  ASSUME NEW r \in Requests, id'[r] = id[r], status'[r] = status[r],
         replies'[r] = replies[r], r \in taken' <=> r \in taken,
         \A t \in Responders : req'[t] = r <=> req[t] = r
  PROVE  ServiceState(r)' = ServiceState(r) /\ ServiceHolder(r)' = ServiceHolder(r)
<1>1. HeldBy(r)' = HeldBy(r)
  BY DEF HeldBy
<1> QED BY <1>1 DEF ServiceState, ServiceHolder

\* A step that changes none of what the abstraction looks at is no step of it.
LEMMA Stutters ==
  ASSUME UNCHANGED <<id, status, replies, taken, req>>
  PROVE  UNCHANGED <<States, Holders>>
BY DEF States, Holders, ServiceState, ServiceHolder, HeldBy

\* If the other calls stay as they are the abstract state changes at one place.
LEMMA OneMoves ==
  ASSUME NEW r \in Requests,
         \A q \in Requests : q # r => /\ ServiceState(q)' = ServiceState(q)
                                      /\ ServiceHolder(q)' = ServiceHolder(q)
  PROVE  /\ States' = [States EXCEPT ![r] = ServiceState(r)']
         /\ Holders' = [Holders EXCEPT ![r] = ServiceHolder(r)']
         /\ States[r] = ServiceState(r) /\ Holders[r] = ServiceHolder(r)
BY DEF States, Holders

\* An initial state maps to an initial state: every call is new and unheld.
LEMMA ServiceInit == Init => Service!Init
<1> SUFFICES ASSUME Init PROVE Service!Init
  OBVIOUS
<1>1. \A r \in Requests : HeldBy(r) = {}
  BY RequestsAssumption DEF Init, HeldBy
<1>2. \A r \in Requests : ServiceState(r) = "new" /\ ServiceHolder(r) = {}
  BY <1>1 DEF Init, ServiceState, ServiceHolder
<1> QED BY <1>2 DEF Service!Init

MapInv == BaseInv /\ OwnInv /\ TakenInv

\* A request without a number is held by nobody.
LEMMA UnnumberedIsUnheld ==
  ASSUME MapInv, NEW r \in Requests, id[r] = 0
  PROVE  HeldBy(r) = {} /\ r \notin taken
BY RequestsAssumption DEF MapInv, OwnInv, HeldInv, HeldBy, TakenInv

\* A request is held by the responder that has it and by no other.
LEMMA HeldByOne ==
  ASSUME MapInv, NEW t \in Responders, req[t] # NoRequest
  PROVE  HeldBy(req[t]) = {t} /\ req[t] \in Requests /\ req[t] \in taken /\ id[req[t]] > 0
<1>1. req[t] \in Requests /\ req[t] \in taken /\ id[req[t]] # 0
  BY DEF MapInv, OwnInv, HeldInv, TakenInv, BaseInv, TypeOK
<1>2. id[req[t]] > 0
  BY <1>1 DEF MapInv, BaseInv, TypeOK
<1> QED BY <1>1, <1>2 DEF MapInv, OwnInv, HeldInv, HeldBy

\* A step of any action maps to a step of the service or to none.
LEMMA ServiceNext == MapInv /\ [Next]_vars => [Service!Next]_(Service!vars)
<1> SUFFICES ASSUME MapInv, [Next]_vars PROVE [Service!Next]_<<States, Holders>>
  BY DEF Service!vars, States, Holders
<1> USE RequestsAssumption DEF busVars, handVars, listVars, rspVars
<1> DEFINE Steps == Service!Next \/ UNCHANGED <<States, Holders>>
<1>1. ASSUME NEW h \in Handlers, NoProvider(h) \/ Return(h) PROVE Steps
  <2>0. PICK r \in Requests : r = hreq[h]
    BY <1>1, HandlerBusy DEF NoProvider, Return, MapInv
  <2>1. UNCHANGED <<id, replies, taken, req>>
    BY <1>1 DEF NoProvider, Return
  <2>2. CASE UNCHANGED status
    BY <2>1, <2>2, Stutters
  <2>3. CASE status' = [status EXCEPT ![r] = @ + 1] /\ id[r] = 0
    <3>1. HeldBy(r) = {} /\ HeldBy(r)' = {}
      BY <2>1, <2>3, UnnumberedIsUnheld DEF HeldBy
    <3>2. status[r] \in Nat /\ status'[r] = status[r] + 1 /\ id'[r] = 0
      BY <2>1, <2>3 DEF MapInv, BaseInv, TypeOK
    <3>3. /\ ServiceState(r) \in {"new", "refused"} /\ ServiceState(r)' = "refused"
          /\ ServiceHolder(r) = {} /\ ServiceHolder(r)' = {}
      BY <2>3, <3>1, <3>2 DEF ServiceState, ServiceHolder
    <3>4. \A q \in Requests : q # r => /\ ServiceState(q)' = ServiceState(q)
                                       /\ ServiceHolder(q)' = ServiceHolder(q)
      BY <2>1, <2>3, SameCall DEF MapInv, BaseInv, TypeOK
    <3>5. Holders' = Holders /\ States' = [States EXCEPT ![r] = "refused"]
      BY <2>1, <3>3, <3>4, OneMoves DEF States, Holders
    <3>6. CASE ServiceState(r) = "new"
      <4>1. Service!Refuse(r)
        BY <2>1, <3>5, <3>6 DEF Service!Refuse, Service!Become, States, Holders
      <4> QED BY <2>1, <4>1 DEF Service!Next
    <3>7. CASE ServiceState(r) = "refused"
      BY <2>1, <3>5, <3>7 DEF States
    <3> QED BY <3>3, <3>6, <3>7
  <2>4. UNCHANGED status \/ (status' = [status EXCEPT ![r] = @ + 1] /\ id[r] = 0)
    BY <1>1, <2>0 DEF NoProvider, Return, MapInv, OwnInv, NewInv
  <2> QED BY <2>2, <2>3, <2>4
<1>2. ASSUME NEW h \in Handlers, MakeRequest(h) PROVE Steps
  <2>0. PICK r \in Requests : r = hreq[h]
    BY <1>2, HandlerBusy DEF MakeRequest, MapInv
  <2>1. /\ UNCHANGED <<status, replies, taken, req>>
        /\ id' = [id EXCEPT ![r] = counter + 1] /\ counter \in Nat
        /\ id[r] = 0 /\ status[r] = 0 /\ r \notin taken
    BY <1>2, <2>0
    DEF MakeRequest, MapInv, BaseInv, TypeOK, OwnInv, NewInv, TakenInv
  <2>2. HeldBy(r) = {} /\ HeldBy(r)' = {} /\ id'[r] > 0
    BY <2>1, UnnumberedIsUnheld DEF HeldBy, MapInv, BaseInv, TypeOK
  <2>3. /\ ServiceState(r) = "new" /\ ServiceState(r)' = "open"
        /\ ServiceHolder(r) = {} /\ ServiceHolder(r)' = {}
    BY <2>1, <2>2 DEF ServiceState, ServiceHolder
  <2>4. \A q \in Requests : q # r => /\ ServiceState(q)' = ServiceState(q)
                                     /\ ServiceHolder(q)' = ServiceHolder(q)
    BY <2>1, SameCall DEF MapInv, BaseInv, TypeOK
  <2>5. Holders' = Holders /\ States' = [States EXCEPT ![r] = "open"]
    BY <2>1, <2>3, <2>4, OneMoves DEF States, Holders
  <2>6. Service!Open(r)
    BY <2>1, <2>3, <2>5 DEF Service!Open, Service!Become, States, Holders
  <2> QED BY <2>1, <2>6 DEF Service!Next
<1>3. CASE RunTake
  <2> DEFINE t == Head(jobs).of
  <2>1. t \in Responders /\ pc[t] = "future" /\ req[t] = NoRequest
    <3>1. jobs # <<>> /\ Head(jobs).kind = "take"
      BY <1>3 DEF RunTake
    <3>2. Head(jobs) \in Jobs /\ Head(jobs) = jobs[1] /\ 1 \in 1..Len(jobs)
      BY <3>1, HeadTail DEF MapInv, BaseInv
    <3>3. t \in Responders /\ pc[t] = "future"
      BY <3>1, <3>2 DEF Jobs, MapInv, BaseInv, TakeInv
    <3> QED BY <3>3 DEF MapInv, BaseInv, BusyInv, Holding
  <2>2. /\ UNCHANGED <<id, status, replies>>
        /\ \/ UNCHANGED <<taken, req>>
           \/ \E r \in reqList : /\ taken' = taken \cup {r}
                                 /\ req' = [req EXCEPT ![t] = r]
    BY <1>3 DEF RunTake
  <2>3. CASE UNCHANGED <<taken, req>>
    BY <2>2, <2>3, Stutters
  <2> HIDE DEF t
  <2>4. ASSUME NEW r \in reqList, taken' = taken \cup {r}, req' = [req EXCEPT ![t] = r]
        PROVE  Steps
    <3>1. /\ r \in Requests /\ id[r] > 0 /\ status[r] = 0 /\ replies[r] = 0
          /\ HeldBy(r) = {} /\ r \notin taken
      BY DEF MapInv, OwnInv, ListInv, Waits, Unheld, HeldBy, TakenInv, BaseInv, TypeOK
    <3>2. HeldBy(r)' = {t}
      BY <2>1, <2>4, <3>1 DEF HeldBy, MapInv, BaseInv, TypeOK
    <3>3. /\ ServiceState(r) = "open" /\ ServiceState(r)' = "held"
          /\ ServiceHolder(r)' = {t}
      BY <2>2, <2>4, <3>1, <3>2 DEF ServiceState, ServiceHolder
    <3>4. \A q \in Requests : q # r => /\ ServiceState(q)' = ServiceState(q)
                                       /\ ServiceHolder(q)' = ServiceHolder(q)
      <4>1. \A u \in Responders, q \in Requests : q # r => (req'[u] = q <=> req[u] = q)
        BY <2>1, <2>4 DEF MapInv, BaseInv, TypeOK
      <4> QED BY <2>2, <2>4, <4>1, SameCall
    <3>5. /\ States' = [States EXCEPT ![r] = "held"]
          /\ Holders' = [Holders EXCEPT ![r] = {t}]
          /\ States[r] = "open"
      BY <3>1, <3>3, <3>4, OneMoves
    <3>6. \A q \in Requests : t \notin Holders[q]
      BY <2>1 DEF Holders, ServiceHolder, HeldBy
    <3>7. Service!Take(r, t)
      BY <3>1, <3>5, <3>6 DEF Service!Take, Service!Become, States, Holders
    <3> QED BY <2>1, <3>1, <3>7 DEF Service!Next
  <2> QED BY <2>2, <2>3, <2>4
<1>4. ASSUME NEW t \in Responders, RspParse(t) PROVE Steps
  <2>0. PICK r \in Requests : r = req[t] /\ HeldBy(r) = {t} /\ r \in taken /\ id[r] > 0
    BY <1>4, HeldByOne DEF RspParse, MapInv, BaseInv, BusyInv, Holding
  <2>1. UNCHANGED <<id, status, replies, taken>>
    BY <1>4 DEF RspParse
  <2>2. CASE UNCHANGED req
    BY <2>1, <2>2, Stutters
  <2>3. CASE req' = [req EXCEPT ![t] = NoRequest]
    <3>1. status[r] = 0 /\ replies[r] = 0
      BY <1>4, <2>0 DEF RspParse, MapInv, OwnInv, HeldInv
    <3>2. HeldBy(r)' = {}
      BY <2>0, <2>3 DEF HeldBy, MapInv, BaseInv, TypeOK
    <3>3. /\ ServiceState(r) = "held" /\ ServiceState(r)' = "dropped"
          /\ ServiceHolder(r)' = {}
      BY <2>0, <2>1, <3>1, <3>2 DEF ServiceState, ServiceHolder
    <3>4. \A q \in Requests : q # r => /\ ServiceState(q)' = ServiceState(q)
                                       /\ ServiceHolder(q)' = ServiceHolder(q)
      <4>1. \A u \in Responders, q \in Requests : q # r => (req'[u] = q <=> req[u] = q)
        BY <2>0, <2>3 DEF MapInv, BaseInv, TypeOK
      <4> QED BY <2>1, <4>1, SameCall
    <3>5. /\ States' = [States EXCEPT ![r] = "dropped"]
          /\ Holders' = [Holders EXCEPT ![r] = {}]
          /\ States[r] = "held"
      BY <3>3, <3>4, OneMoves
    <3>6. Service!Drop(r)
      BY <3>5 DEF Service!Drop, Service!Become, Service!Release, States, Holders
    <3> QED BY <3>6 DEF Service!Next
  <2> QED BY <1>4, <2>2, <2>3 DEF RspParse, Finish
<1>5. ASSUME NEW t \in Responders, RspReply(t) PROVE Steps
  <2>0. PICK r \in Requests : r = req[t] /\ HeldBy(r) = {t} /\ r \in taken /\ id[r] > 0
    BY <1>5, HeldByOne DEF RspReply, MapInv, BaseInv, BusyInv, Holding
  <2>1. UNCHANGED <<id, status, taken, req>>
    BY <1>5 DEF RspReply
  <2>2. CASE UNCHANGED replies
    BY <2>1, <2>2, Stutters
  <2>3. CASE replies' = [replies EXCEPT ![r] = @ + 1]
    <3>1. status[r] = 0 /\ replies[r] = 0
      BY <1>5, <2>0 DEF RspReply, MapInv, OwnInv, HeldInv
    <3>2. HeldBy(r)' = {t} /\ replies'[r] = 1
      BY <2>0, <2>1, <2>3, <3>1 DEF HeldBy, MapInv, BaseInv, TypeOK
    <3>3. /\ ServiceState(r) = "held" /\ ServiceState(r)' = "replied"
          /\ ServiceHolder(r)' = ServiceHolder(r)
      BY <2>0, <2>1, <3>1, <3>2 DEF ServiceState, ServiceHolder
    <3>4. \A q \in Requests : q # r => /\ ServiceState(q)' = ServiceState(q)
                                       /\ ServiceHolder(q)' = ServiceHolder(q)
      BY <2>1, <2>3, SameCall DEF MapInv, BaseInv, TypeOK
    <3>5. /\ States' = [States EXCEPT ![r] = "replied"]
          /\ Holders' = Holders
          /\ States[r] = "held"
      BY <3>3, <3>4, OneMoves DEF Holders
    <3>6. Service!Reply(r)
      BY <3>5 DEF Service!Reply, Service!Become, States, Holders
    <3> QED BY <3>6 DEF Service!Next
  <2> QED BY <1>5, <2>0, <2>2, <2>3 DEF RspReply
<1>6. ASSUME NEW t \in Responders, RspComplete(t) PROVE Steps
  <2>0. PICK r \in Requests : r = req[t] /\ HeldBy(r) = {t} /\ r \in taken /\ id[r] > 0
    BY <1>6, HeldByOne DEF RspComplete, MapInv, BaseInv, BusyInv, Holding
  <2>1. /\ UNCHANGED <<id, replies, taken, req>>
        /\ status' = [status EXCEPT ![r] = @ + 1]
        /\ status[r] = 0
    BY <1>6, <2>0 DEF RspComplete, MapInv, OwnInv, HeldInv
  <2>2. status'[r] = 1 /\ replies[r] \in Nat
    BY <2>1 DEF MapInv, BaseInv, TypeOK
  <2>3. /\ ServiceState(r) \in {"held", "replied"} /\ ServiceState(r)' = "closed"
        /\ ServiceHolder(r)' = {}
    BY <2>0, <2>1, <2>2 DEF ServiceState, ServiceHolder
  <2>4. \A q \in Requests : q # r => /\ ServiceState(q)' = ServiceState(q)
                                     /\ ServiceHolder(q)' = ServiceHolder(q)
    BY <2>1, SameCall DEF MapInv, BaseInv, TypeOK
  <2>5. /\ States' = [States EXCEPT ![r] = "closed"]
        /\ Holders' = [Holders EXCEPT ![r] = {}]
        /\ States[r] \in {"held", "replied"}
    BY <2>3, <2>4, OneMoves
  <2>6. Service!Close(r)
    BY <2>5 DEF Service!Close, Service!Become, Service!Release, States, Holders
  <2> QED BY <2>6 DEF Service!Next
<1>7. ASSUME NEW t \in Responders, RspClear(t) PROVE Steps
  <2>0. PICK r \in Requests : r = req[t] /\ HeldBy(r) = {t} /\ r \in taken /\ id[r] > 0
    BY <1>7, HeldByOne DEF RspClear, MapInv, BaseInv, BusyInv, Holding
  <2>1. /\ UNCHANGED <<id, status, replies, taken>> /\ status[r] > 0
        /\ req' = [req EXCEPT ![t] = NoRequest]
    BY <1>7, <2>0 DEF RspClear, Finish, MapInv, TakenInv
  <2>2. ServiceState(r)' = ServiceState(r) /\ ServiceHolder(r)' = ServiceHolder(r)
    BY <2>0, <2>1 DEF ServiceState, ServiceHolder
  <2>3. \A u \in Responders, q \in Requests : q # r => (req'[u] = q <=> req[u] = q)
    BY <2>0, <2>1 DEF MapInv, BaseInv, TypeOK
  <2>4. \A q \in Requests : q # r => /\ ServiceState(q)' = ServiceState(q)
                                     /\ ServiceHolder(q)' = ServiceHolder(q)
    BY <2>1, <2>3, SameCall
  <2> QED BY <2>2, <2>4 DEF States, Holders
<1>8. ASSUME NEW t \in Responders, RspNull(t) PROVE Steps
  <2>1. req[t] = NoRequest
    BY <1>8 DEF RspNull, MapInv, BaseInv, BusyInv, Holding
  <2>2. UNCHANGED <<id, status, replies, taken, req>>
    BY <1>8, <2>1 DEF RspNull, Finish, MapInv, BaseInv, TypeOK
  <2> QED BY <2>2, Stutters
<1>9. ASSUME NEW h \in Handlers, Arrive(h) \/ Defer(h) \/ Enqueue(h) \/ Deliver(h)
      PROVE  Steps
  BY <1>9, Stutters DEF Arrive, Defer, Enqueue, Deliver
<1>10. ASSUME NEW t \in Responders, Rsp(t) \/ RspExecute(t) PROVE Steps
  BY <1>10, Stutters DEF Rsp, RspExecute
<1>11. CASE RunAdd \/ AliveChanges \/ UNCHANGED vars
  BY <1>11, Stutters DEF RunAdd, AliveChanges, vars
<1> QED BY <1>1, <1>2, <1>3, <1>4, <1>5, <1>6, <1>7, <1>8, <1>9, <1>10, <1>11
        DEF Next, HandlerSteps, WorkerSteps, RspSteps

\* For any number of handlers and answering threads, the handler, providerWorker
\* and rsp together are no more than a service that lets one answer get hold of a
\* call, reply to it at most once and close it (Provider.kt, handler and rsp).
THEOREM Implements == Spec => ImplementsService
<1>1. Init => MapInv
  BY BaseInit, OwnInit, TakenInit DEF MapInv
<1>2. MapInv /\ [Next]_vars => MapInv'
  BY BaseNext, OwnNext, TakenNext DEF MapInv
<1> QED BY <1>1, <1>2, ServiceInit, ServiceNext, PTL DEF Spec, ImplementsService, Service!Spec
=============================================================================

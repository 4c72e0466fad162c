----------------------- MODULE ProviderRequestsProofs -----------------------
(***************************************************************************)
(* Proofs about ProviderRequests, for any sets of requests and threads.    *)
(***************************************************************************)
EXTENDS ProviderRequests, TLAPS

-----------------------------------------------------------------------------
(* First layer: types, and who is busy with what.                          *)

Holding == {"parse", "reply", "complete", "clear"}

\* A handler has a request while it is not idle, a responder while it holds one.
BusyInv ==
  /\ \A h \in Handlers : hpc[h] = "idle" <=> hreq[h] = NoRequest
  /\ \A t \in Responders : pc[t] \in Holding <=> req[t] # NoRequest

\* A responder whose job is in the queue waits for it, and it has only one there.
TakeInv ==
  \A i \in 1..Len(jobs) :
    jobs[i].kind = "take" =>
      /\ pc[jobs[i].of] = "future"
      /\ \A j \in 1..Len(jobs) : jobs[j] = jobs[i] => j = i

BaseInv == TypeOK /\ BusyInv /\ TakeInv

LEMMA BaseInit == Init => BaseInv
  BY RequestsAssumption
  DEF Init, BaseInv, TypeOK, BusyInv, TakeInv, HandlerPlaces, RspPlaces, Holding

\* The head of the queue is a job, and what remains is the queue moved up by one.
LEMMA HeadTail ==
  ASSUME TypeOK, jobs # <<>>
  PROVE  /\ Head(jobs) \in Jobs /\ Head(jobs) = jobs[1] /\ 1 \in 1..Len(jobs)
         /\ Tail(jobs) \in Seq(Jobs)
         /\ Len(Tail(jobs)) = Len(jobs) - 1
         /\ \A i \in 1..Len(Tail(jobs)) :
              Tail(jobs)[i] = jobs[i + 1] /\ i + 1 \in 1..Len(jobs)
  BY DEF TypeOK

\* A job that is appended comes last and leaves the others where they are.
LEMMA AppendJob ==
  ASSUME TypeOK, NEW x \in Jobs
  PROVE  /\ Append(jobs, x) \in Seq(Jobs)
         /\ Len(Append(jobs, x)) = Len(jobs) + 1
         /\ Append(jobs, x)[Len(jobs) + 1] = x
         /\ \A i \in 1..Len(jobs) : Append(jobs, x)[i] = jobs[i]
         /\ \A i \in 1..Len(jobs) + 1 : i \in 1..Len(jobs) \/ i = Len(jobs) + 1
  BY DEF TypeOK

\* A handler that is not idle is busy with a request.
LEMMA HandlerBusy ==
  ASSUME BaseInv, NEW h \in Handlers, hpc[h] # "idle"
  PROVE  hreq[h] \in Requests
  BY DEF BaseInv, TypeOK, BusyInv

\* A responder that holds a request holds one of the requests.
LEMMA ResponderBusy ==
  ASSUME BaseInv, NEW t \in Responders, pc[t] \in Holding
  PROVE  req[t] \in Requests
  BY DEF BaseInv, TypeOK, BusyInv

\* A job in the queue is for a request or for a responder.
LEMMA JobTypes ==
  ASSUME BaseInv, NEW i \in 1..Len(jobs)
  PROVE  /\ jobs[i].kind = "add" => jobs[i].of \in Requests
         /\ jobs[i].kind = "take" => jobs[i].of \in Responders
  BY DEF BaseInv, TypeOK, Jobs

\* A step of any action keeps the types and the two invariants.
LEMMA BaseNext == BaseInv /\ [Next]_vars => BaseInv'
<1> SUFFICES ASSUME BaseInv, [Next]_vars PROVE BaseInv'
  OBVIOUS
<1> USE RequestsAssumption
    DEF HandlerPlaces, RspPlaces, busVars, handVars, listVars, rspVars
<1>1. ASSUME NEW h \in Handlers, Arrive(h) PROVE BaseInv'
  BY <1>1 DEF Arrive, HGoto, BaseInv, TypeOK, BusyInv, TakeInv
<1>2. ASSUME NEW h \in Handlers, NoProvider(h) PROVE BaseInv'
  <2>1. hreq[h] \in Requests
    BY <1>2, HandlerBusy DEF NoProvider
  <2>2. TypeOK'
    BY <1>2, <2>1 DEF NoProvider, HGoto, BaseInv, TypeOK
  <2>3. BusyInv' /\ TakeInv'
    BY <1>2, <2>1 DEF NoProvider, HGoto, BaseInv, TypeOK, BusyInv, TakeInv
  <2> QED BY <2>2, <2>3 DEF BaseInv
<1>3. ASSUME NEW h \in Handlers, MakeRequest(h) PROVE BaseInv'
  BY <1>3, HandlerBusy DEF MakeRequest, HGoto, BaseInv, TypeOK, BusyInv, TakeInv
<1>4. ASSUME NEW h \in Handlers, Defer(h) PROVE BaseInv'
  BY <1>4, HandlerBusy DEF Defer, HGoto, BaseInv, TypeOK, BusyInv, TakeInv
<1>5. ASSUME NEW h \in Handlers, Enqueue(h) PROVE BaseInv'
  <2>1. AddJob(hreq[h]) \in Jobs /\ AddJob(hreq[h]).kind = "add"
    BY <1>5, HandlerBusy DEF Enqueue, AddJob, Jobs
  <2>2. TypeOK'
    BY <1>5, <2>1, AppendJob DEF Enqueue, HGoto, BaseInv, TypeOK
  <2>3. BusyInv'
    BY <1>5 DEF Enqueue, HGoto, BaseInv, TypeOK, BusyInv
  <2>4. TakeInv'
    BY <1>5, <2>1, AppendJob DEF Enqueue, BaseInv, TakeInv
  <2> QED BY <2>2, <2>3, <2>4 DEF BaseInv
<1>6. ASSUME NEW h \in Handlers, Deliver(h) PROVE BaseInv'
  BY <1>6, HandlerBusy DEF Deliver, HGoto, BaseInv, TypeOK, BusyInv, TakeInv
<1>7. ASSUME NEW h \in Handlers, Return(h) PROVE BaseInv'
  <2>1. hreq[h] \in Requests
    BY <1>7, HandlerBusy DEF Return
  <2>2. TypeOK'
    BY <1>7, <2>1 DEF Return, HGoto, BaseInv, TypeOK
  <2>3. BusyInv' /\ TakeInv'
    BY <1>7, <2>1 DEF Return, HGoto, BaseInv, TypeOK, BusyInv, TakeInv
  <2> QED BY <2>2, <2>3 DEF BaseInv
<1>8. CASE RunAdd
  <2>1. Head(jobs).of \in Requests
    BY <1>8, HeadTail DEF RunAdd, Jobs, BaseInv
  <2>2. TypeOK'
    BY <1>8, <2>1, HeadTail DEF RunAdd, BaseInv, TypeOK
  <2>3. BusyInv'
    BY <1>8 DEF RunAdd, BaseInv, BusyInv
  <2>4. TakeInv'
    BY <1>8, HeadTail DEF RunAdd, BaseInv, TakeInv
  <2> QED BY <2>2, <2>3, <2>4 DEF BaseInv
<1>9. CASE RunTake
  <2> DEFINE t == Head(jobs).of
  <2>1. t \in Responders /\ pc[t] = "future"
    <3>1. jobs # <<>> /\ Head(jobs).kind = "take"
      BY <1>9 DEF RunTake
    <3>2. Head(jobs) \in Jobs /\ Head(jobs) = jobs[1] /\ 1 \in 1..Len(jobs)
      BY <3>1, HeadTail DEF BaseInv
    <3>3. t \in Responders
      BY <3>1, <3>2 DEF Jobs
    <3> QED BY <3>1, <3>2, <3>3 DEF BaseInv, TakeInv
  <2>2. jobs' = Tail(jobs) /\ UNCHANGED <<alive, arena, busVars, handVars, arg, good>>
    BY <1>9 DEF RunTake
  <2>3. \/ pc' = [pc EXCEPT ![t] = "null"] /\ UNCHANGED <<reqList, taken, req>>
        \/ \E r \in reqList : /\ reqList' = reqList \ {r} /\ taken' = taken \cup {r}
                              /\ req' = [req EXCEPT ![t] = r]
                              /\ pc' = [pc EXCEPT ![t] = "parse"]
    BY <1>9 DEF RunTake
  <2>4. jobs # <<>>
    BY <1>9 DEF RunTake
  <2> HIDE DEF t
  <2>5. TypeOK'
    <3>1. jobs' \in Seq(Jobs)
      BY <2>2, <2>4, HeadTail DEF BaseInv
    <3>2. /\ reqList' \subseteq Requests /\ taken' \subseteq Requests
          /\ pc' \in [Responders -> RspPlaces]
          /\ req' \in [Responders -> Requests \cup {NoRequest}]
      <4>1. CASE pc' = [pc EXCEPT ![t] = "null"] /\ UNCHANGED <<reqList, taken, req>>
        BY <2>1, <4>1 DEF BaseInv, TypeOK
      <4>2. ASSUME NEW r \in reqList, reqList' = reqList \ {r}, taken' = taken \cup {r},
                   req' = [req EXCEPT ![t] = r], pc' = [pc EXCEPT ![t] = "parse"]
            PROVE  <3>2!:
        BY <2>1, <4>2 DEF BaseInv, TypeOK
      <4> QED BY <2>3, <4>1, <4>2
    <3> QED BY <2>2, <3>1, <3>2 DEF BaseInv, TypeOK
  <2>6. BusyInv'
    BY <2>1, <2>2, <2>3 DEF BaseInv, BusyInv, TypeOK, Holding
  <2>7. \A i \in 2..Len(jobs) : jobs[i].kind = "take" => jobs[i].of # t
    <3>1. \A i \in 1..Len(jobs) : jobs[i] \in Jobs
      BY DEF BaseInv, TypeOK
    <3> QED BY <1>9, <3>1, HeadTail DEF RunTake, BaseInv, TakeInv, Jobs, t
  <2>8. \A u \in Responders : u # t => pc'[u] = pc[u]
    BY <2>3 DEF BaseInv, TypeOK
  <2>9. TakeInv'
    <3> SUFFICES ASSUME NEW i \in 1..Len(Tail(jobs)), Tail(jobs)[i].kind = "take"
                 PROVE  /\ pc'[Tail(jobs)[i].of] = "future"
                        /\ \A j \in 1..Len(Tail(jobs)) :
                             Tail(jobs)[j] = Tail(jobs)[i] => j = i
      BY <2>2 DEF TakeInv
    <3>1. jobs[i + 1] = Tail(jobs)[i] /\ i + 1 \in 2..Len(jobs) /\ jobs[i + 1] \in Jobs
      BY <2>4, HeadTail DEF BaseInv, TypeOK
    <3>2. jobs[i + 1].of \in Responders
      BY <3>1 DEF Jobs
    <3>3. pc'[jobs[i + 1].of] = pc[jobs[i + 1].of]
      BY <2>7, <2>8, <3>1, <3>2
    <3> QED BY <2>4, <3>1, <3>3, HeadTail DEF BaseInv, TakeInv, TypeOK
  <2> QED BY <2>5, <2>6, <2>9 DEF BaseInv
<1>10. ASSUME NEW t \in Responders, Rsp(t) PROVE BaseInv'
  <2>1. PICK r \in delivered : arg' = [arg EXCEPT ![t] = id[r]]
    BY <1>10 DEF Rsp
  <2>2. PICK g \in BOOLEAN : good' = [good EXCEPT ![t] = g]
    BY <1>10 DEF Rsp
  <2>3. TypeOK'
    BY <1>10, <2>1, <2>2 DEF Rsp, Goto, BaseInv, TypeOK
  <2>4. BusyInv'
    BY <1>10 DEF Rsp, Goto, BaseInv, TypeOK, BusyInv, Holding
  <2>5. TakeInv'
    BY <1>10 DEF Rsp, Goto, BaseInv, TypeOK, TakeInv
  <2> QED BY <2>3, <2>4, <2>5 DEF BaseInv
<1>11. ASSUME NEW t \in Responders, RspExecute(t) PROVE BaseInv'
  <2>1. TakeJob(t) \in Jobs /\ TakeJob(t).of = t
    BY DEF TakeJob, Jobs
  <2>2. TypeOK'
    BY <1>11, <2>1, AppendJob DEF RspExecute, Goto, BaseInv, TypeOK
  <2>3. BusyInv'
    BY <1>11 DEF RspExecute, Goto, BaseInv, TypeOK, BusyInv, Holding
  <2>4. \A i \in 1..Len(jobs) : jobs[i].kind = "take" => jobs[i].of # t
    BY <1>11 DEF RspExecute, BaseInv, TakeInv
  <2>5. TakeInv'
    <3>1. /\ jobs' = Append(jobs, TakeJob(t))
          /\ pc' = [pc EXCEPT ![t] = "future"]
      BY <1>11 DEF RspExecute, Goto
    <3>2. \A i \in 1..Len(jobs) : jobs[i] # TakeJob(t)
      BY <2>4 DEF TakeJob
    <3>3. \A i \in 1..Len(jobs) : jobs[i].kind = "take" => pc'[jobs[i].of] = "future"
      BY <2>4, <3>1 DEF BaseInv, TakeInv, TypeOK
    <3>4. pc'[t] = "future"
      BY <3>1 DEF BaseInv, TypeOK
    <3>5. /\ Len(jobs') = Len(jobs) + 1
          /\ jobs'[Len(jobs) + 1] = TakeJob(t)
          /\ \A i \in 1..Len(jobs) : jobs'[i] = jobs[i]
          /\ Len(jobs) \in Nat
      BY <2>1, <3>1, AppendJob DEF BaseInv, TypeOK
    <3>6. \A i \in 1..Len(jobs') : i \in 1..Len(jobs) \/ i = Len(jobs) + 1
      BY <3>5
    <3>7. ASSUME NEW i \in 1..Len(jobs'), jobs'[i].kind = "take"
          PROVE  pc'[jobs'[i].of] = "future"
      BY <2>1, <3>3, <3>4, <3>5, <3>6, <3>7
    <3>8. ASSUME NEW i \in 1..Len(jobs'), jobs'[i].kind = "take",
                 NEW j \in 1..Len(jobs'), jobs'[j] = jobs'[i]
          PROVE  j = i
      BY <3>2, <3>5, <3>6, <3>8 DEF BaseInv, TakeInv
    <3> QED BY <3>7, <3>8 DEF TakeInv
  <2> QED BY <2>2, <2>3, <2>5 DEF BaseInv
<1>12. ASSUME NEW t \in Responders, RspNull(t) PROVE BaseInv'
  BY <1>12 DEF RspNull, Finish, Goto, BaseInv, TypeOK, BusyInv, TakeInv, Holding
<1>13. ASSUME NEW t \in Responders, RspParse(t) PROVE BaseInv'
  <2>1. /\ pc[t] = "parse"
        /\ \/ pc' = [pc EXCEPT ![t] = "reply"] /\ UNCHANGED <<arg, good, req>>
           \/ Finish(t)
        /\ UNCHANGED <<alive, arena, busVars, handVars, listVars>>
    BY <1>13 DEF RspParse, Goto
  <2>2. /\ pc' \in [Responders -> RspPlaces]
        /\ arg' \in [Responders -> Nat]
        /\ good' \in [Responders -> BOOLEAN]
        /\ req' \in [Responders -> Requests \cup {NoRequest}]
        /\ \A u \in Responders : u # t => pc'[u] = pc[u]
    <3>1. CASE pc' = [pc EXCEPT ![t] = "reply"] /\ UNCHANGED <<arg, good, req>>
      BY <3>1 DEF BaseInv, TypeOK
    <3>2. CASE Finish(t)
      BY <3>2 DEF Finish, Goto, BaseInv, TypeOK
    <3> QED BY <2>1, <3>1, <3>2
  <2>3. TypeOK'
    BY <2>1, <2>2 DEF BaseInv, TypeOK
  <2>4. BusyInv'
    BY <2>1 DEF Finish, Goto, BaseInv, TypeOK, BusyInv, Holding
  <2>5. TakeInv'
    BY <2>1, <2>2 DEF BaseInv, TakeInv, TypeOK, Jobs
  <2> QED BY <2>3, <2>4, <2>5 DEF BaseInv
<1>14. ASSUME NEW t \in Responders, RspReply(t) PROVE BaseInv'
  <2>1. req[t] \in Requests
    BY <1>14, ResponderBusy DEF RspReply, Holding
  <2>2. TypeOK'
    <3>1. replies' \in [Requests -> Nat]
      <4>1. CASE UNCHANGED replies
        BY <4>1 DEF BaseInv, TypeOK
      <4>2. CASE replies' = [replies EXCEPT ![req[t]] = @ + 1]
        BY <2>1, <4>2 DEF BaseInv, TypeOK
      <4> QED BY <1>14, <4>1, <4>2 DEF RspReply
    <3>2. pc' \in [Responders -> RspPlaces]
      BY <1>14 DEF RspReply, Goto, BaseInv, TypeOK
    <3> QED BY <1>14, <3>1, <3>2 DEF RspReply, BaseInv, TypeOK
  <2>3. BusyInv'
    BY <1>14, <2>1 DEF RspReply, Goto, BaseInv, TypeOK, BusyInv, Holding
  <2>4. TakeInv'
    BY <1>14, JobTypes DEF RspReply, Goto, BaseInv, TypeOK, TakeInv
  <2> QED BY <2>2, <2>3, <2>4 DEF BaseInv
<1>15. ASSUME NEW t \in Responders, RspComplete(t) PROVE BaseInv'
  <2>1. req[t] \in Requests
    BY <1>15, ResponderBusy DEF RspComplete, Holding
  <2>2. TypeOK'
    BY <1>15, <2>1 DEF RspComplete, Goto, BaseInv, TypeOK
  <2>3. BusyInv'
    BY <1>15, <2>1 DEF RspComplete, Goto, BaseInv, TypeOK, BusyInv, Holding
  <2>4. TakeInv'
    BY <1>15, JobTypes DEF RspComplete, Goto, BaseInv, TypeOK, TakeInv
  <2> QED BY <2>2, <2>3, <2>4 DEF BaseInv
<1>16. ASSUME NEW t \in Responders, RspClear(t) PROVE BaseInv'
  <2>1. req[t] \in Requests
    BY <1>16, ResponderBusy DEF RspClear, Holding
  <2>2. TypeOK'
    BY <1>16, <2>1 DEF RspClear, Finish, Goto, BaseInv, TypeOK
  <2>3. BusyInv'
    BY <1>16, <2>1 DEF RspClear, Finish, Goto, BaseInv, TypeOK, BusyInv, Holding
  <2>4. TakeInv'
    BY <1>16, JobTypes DEF RspClear, Finish, Goto, BaseInv, TypeOK, TakeInv
  <2> QED BY <2>2, <2>3, <2>4 DEF BaseInv
<1>17. CASE AliveChanges
  BY <1>17 DEF AliveChanges, BaseInv, TypeOK, BusyInv, TakeInv
<1>18. CASE UNCHANGED vars
  BY <1>18 DEF vars, BaseInv, TypeOK, BusyInv, TakeInv
<1> QED BY <1>1, <1>2, <1>3, <1>4, <1>5, <1>6, <1>7, <1>8, <1>9, <1>10, <1>11,
           <1>12, <1>13, <1>14, <1>15, <1>16, <1>17, <1>18
        DEF Next, HandlerSteps, WorkerSteps, RspSteps

\* Every variable of ProviderRequests keeps its type: whatever the interleaving,
\* the queue of providerWorker holds jobs for requests and threads that exist and
\* a thread that answers holds no request or one of those that arrived
\* (Provider.kt, handler and rsp).
THEOREM TypeCorrect == Spec => []TypeOK
<1>1. BaseInv => TypeOK
  BY DEF BaseInv
<1> QED BY BaseInit, BaseNext, <1>1, PTL DEF Spec

-----------------------------------------------------------------------------
(* Second layer: a request is in one place at a time, with its handler, in *)
(* the queue, in reqList or with one responder, and unanswered until it    *)
(* has reached the last. AtMostOneAnswer alone is not inductive: nothing   *)
(* in it keeps a request that is being answered from being found again.    *)

\* The request is deferred, has its number and nobody has answered it yet.
Waits(r) ==
  deferred[r] /\ id[r] # 0 /\ arena[r] = "live" /\ status[r] = 0 /\ replies[r] = 0

Unheld(r) == \A t \in Responders : req[t] # r

Queued(r) == \E i \in 1..Len(jobs) : jobs[i] = AddJob(r)

NewInv ==
  \A h \in Handlers :
    /\ hpc[h] \in {"find", "defer", "enqueue"} =>
         /\ status[hreq[h]] = 0 /\ replies[hreq[h]] = 0
         /\ ~Queued(hreq[h]) /\ hreq[h] \notin reqList /\ Unheld(hreq[h])
    /\ hpc[h] = "find" => id[hreq[h]] = 0 /\ ~deferred[hreq[h]]
    /\ hpc[h] = "defer" =>
         id[hreq[h]] # 0 /\ ~deferred[hreq[h]] /\ arena[hreq[h]] = "live"
    /\ hpc[h] = "enqueue" => Waits(hreq[h])
    /\ hpc[h] = "deliver" => deferred[hreq[h]]
    /\ hpc[h] = "return" => deferred[hreq[h]] \/ id[hreq[h]] = 0

ApartInv ==
  \A g, h \in Handlers : hreq[g] = hreq[h] /\ hreq[g] # NoRequest => g = h

QueueInv ==
  \A i \in 1..Len(jobs) :
    jobs[i].kind = "add" =>
      /\ Waits(jobs[i].of) /\ jobs[i].of \notin reqList /\ Unheld(jobs[i].of)
      /\ \A j \in 1..Len(jobs) : jobs[j] = jobs[i] => j = i

ListInv == \A r \in reqList : Waits(r) /\ Unheld(r)

HeldInv ==
  \A t \in Responders :
    req[t] # NoRequest =>
      /\ deferred[req[t]] /\ id[req[t]] # 0 /\ arena[req[t]] = "live"
      /\ pc[t] \in {"parse", "reply"} => status[req[t]] = 0 /\ replies[req[t]] = 0
      /\ pc[t] = "complete" => status[req[t]] = 0
      /\ \A u \in Responders : req[u] = req[t] => u = t

AnswerInv ==
  /\ AtMostOneAnswer
  /\ \A r \in Requests : id[r] = 0 => ~deferred[r] /\ replies[r] = 0

OwnInv == NewInv /\ ApartInv /\ QueueInv /\ ListInv /\ HeldInv /\ AnswerInv

LEMMA OwnInit == Init => OwnInv
  BY RequestsAssumption
  DEF Init, OwnInv, NewInv, ApartInv, QueueInv, ListInv, HeldInv, AnswerInv,
      AtMostOneAnswer, Waits, Unheld, Queued

\* A step of any action keeps every request in one place.
LEMMA OwnNext == BaseInv /\ OwnInv /\ [Next]_vars => OwnInv'
<1> SUFFICES ASSUME BaseInv, OwnInv, [Next]_vars PROVE OwnInv'
  OBVIOUS
<1> USE RequestsAssumption DEF busVars, handVars, listVars, rspVars
<1>1. ASSUME NEW h \in Handlers, Arrive(h) PROVE OwnInv'
  <2>1. NewInv'
    <3>1. PICK r \in Requests : /\ id[r] = 0 /\ status[r] = 0
                                /\ \A g \in Handlers : hreq[g] # r
                                /\ hreq' = [hreq EXCEPT ![h] = r]
      BY <1>1 DEF Arrive
    <3>2. ~Queued(r) /\ r \notin reqList /\ Unheld(r)
      BY <3>1
      DEF OwnInv, QueueInv, ListInv, HeldInv, Waits, Queued, Unheld, AddJob
    <3>3. ~deferred[r] /\ replies[r] = 0
      BY <3>1 DEF OwnInv, AnswerInv
    <3> QED BY <1>1, <3>1, <3>2, <3>3
            DEF Arrive, HGoto, OwnInv, NewInv, BaseInv, TypeOK, Waits, Queued, Unheld
  <2>2. ApartInv'
    BY <1>1 DEF Arrive, OwnInv, ApartInv
  <2>3. QueueInv'
    BY <1>1 DEF Arrive, OwnInv, QueueInv, Waits, Unheld
  <2>4. ListInv'
    BY <1>1 DEF Arrive, OwnInv, ListInv, Waits, Unheld
  <2>5. HeldInv'
    BY <1>1 DEF Arrive, OwnInv, HeldInv
  <2>6. AnswerInv'
    BY <1>1 DEF Arrive, OwnInv, AnswerInv, AtMostOneAnswer
  <2> QED BY <2>1, <2>2, <2>3, <2>4, <2>5, <2>6 DEF OwnInv
<1>2. ASSUME NEW h \in Handlers, NoProvider(h) PROVE OwnInv'
  <2>1. NewInv'
    BY <1>2
    DEF NoProvider, HGoto, OwnInv, NewInv, ApartInv, Waits, Unheld, Queued,
        BaseInv, TypeOK
  <2>2. ApartInv'
    BY <1>2 DEF NoProvider, OwnInv, ApartInv
  <2>3. QueueInv'
    BY <1>2 DEF NoProvider, OwnInv, NewInv, QueueInv, Waits, Unheld
  <2>4. ListInv'
    BY <1>2 DEF NoProvider, OwnInv, NewInv, ListInv, Waits, Unheld
  <2>5. HeldInv'
    BY <1>2 DEF NoProvider, OwnInv, NewInv, HeldInv
  <2>6. AnswerInv'
    BY <1>2 DEF NoProvider, OwnInv, NewInv, AnswerInv, AtMostOneAnswer
  <2> QED BY <2>1, <2>2, <2>3, <2>4, <2>5, <2>6 DEF OwnInv
<1>3. ASSUME NEW h \in Handlers, MakeRequest(h) PROVE OwnInv'
  <2>1. NewInv'
    BY <1>3
    DEF MakeRequest, HGoto, OwnInv, NewInv, ApartInv, Waits, Unheld, Queued,
        BaseInv, BusyInv, TypeOK
  <2>2. ApartInv'
    BY <1>3 DEF MakeRequest, OwnInv, ApartInv
  <2>3. QueueInv'
    BY <1>3 DEF MakeRequest, OwnInv, NewInv, QueueInv, Waits, Unheld
  <2>4. ListInv'
    BY <1>3 DEF MakeRequest, OwnInv, NewInv, ListInv, Waits, Unheld
  <2>5. HeldInv'
    BY <1>3 DEF MakeRequest, OwnInv, NewInv, HeldInv
  <2>6. AnswerInv'
    BY <1>3 DEF MakeRequest, OwnInv, NewInv, AnswerInv, AtMostOneAnswer
  <2> QED BY <2>1, <2>2, <2>3, <2>4, <2>5, <2>6 DEF OwnInv
<1>4. ASSUME NEW h \in Handlers, Defer(h) PROVE OwnInv'
  <2>1. NewInv'
    BY <1>4
    DEF Defer, HGoto, OwnInv, NewInv, ApartInv, Waits, Unheld, Queued, BaseInv,
        BusyInv, TypeOK
  <2>2. ApartInv'
    BY <1>4 DEF Defer, OwnInv, ApartInv
  <2>3. QueueInv'
    BY <1>4 DEF Defer, OwnInv, QueueInv, Waits, Unheld
  <2>4. ListInv'
    BY <1>4 DEF Defer, OwnInv, ListInv, Waits, Unheld
  <2>5. HeldInv'
    BY <1>4 DEF Defer, OwnInv, HeldInv
  <2>6. AnswerInv'
    BY <1>4 DEF Defer, OwnInv, NewInv, AnswerInv, AtMostOneAnswer
  <2> QED BY <2>1, <2>2, <2>3, <2>4, <2>5, <2>6 DEF OwnInv
<1>5. ASSUME NEW h \in Handlers, Enqueue(h) PROVE OwnInv'
  <2>1. NewInv'
    <3>1. /\ jobs' = Append(jobs, AddJob(hreq[h])) /\ hreq[h] \in Requests
          /\ hpc' = [hpc EXCEPT ![h] = "deliver"]
          /\ UNCHANGED <<hreq, id, arena, deferred, status, replies, reqList, req>>
      BY <1>5, HandlerBusy DEF Enqueue, HGoto
    <3>2. AddJob(hreq[h]) \in Jobs
      BY <3>1 DEF AddJob, Jobs
    <3>3. \A r \in Requests : Queued(r)' => Queued(r) \/ r = hreq[h]
      BY <3>1, <3>2, AppendJob DEF Queued, AddJob, BaseInv
    <3>4. ASSUME NEW g \in Handlers, g # h, hpc[g] # "idle"
          PROVE  hreq[g] # hreq[h] /\ hreq[g] \in Requests
      BY <1>5, <3>4, HandlerBusy DEF OwnInv, ApartInv, BaseInv, BusyInv, Enqueue
    <3>5. deferred[hreq[h]]
      BY <1>5 DEF Enqueue, OwnInv, NewInv, Waits
    <3> QED BY <3>1, <3>3, <3>4, <3>5
            DEF OwnInv, NewInv, Waits, Unheld, BaseInv, TypeOK
  <2>2. ApartInv'
    BY <1>5 DEF Enqueue, OwnInv, ApartInv
  <2>3. QueueInv'
    <3>1. /\ jobs' = Append(jobs, AddJob(hreq[h])) /\ hreq[h] \in Requests
          /\ UNCHANGED <<id, arena, deferred, status, replies, reqList, req>>
      BY <1>5, HandlerBusy DEF Enqueue
    <3>2. AddJob(hreq[h]) \in Jobs /\ AddJob(hreq[h]).of = hreq[h]
      BY <3>1 DEF AddJob, Jobs
    <3>3. /\ Waits(hreq[h]) /\ hreq[h] \notin reqList /\ Unheld(hreq[h])
          /\ \A i \in 1..Len(jobs) : jobs[i] # AddJob(hreq[h])
      BY <1>5 DEF Enqueue, OwnInv, NewInv, Queued
    <3>4. /\ Len(jobs') = Len(jobs) + 1
          /\ jobs'[Len(jobs) + 1] = AddJob(hreq[h])
          /\ \A i \in 1..Len(jobs) : jobs'[i] = jobs[i]
          /\ \A i \in 1..Len(jobs') : i \in 1..Len(jobs) \/ i = Len(jobs) + 1
      BY <3>1, <3>2, AppendJob DEF BaseInv
    <3>5. ASSUME NEW i \in 1..Len(jobs'), jobs'[i].kind = "add"
          PROVE  Waits(jobs'[i].of) /\ jobs'[i].of \notin reqList /\ Unheld(jobs'[i].of)
      BY <3>2, <3>3, <3>4, <3>5 DEF OwnInv, QueueInv
    <3>6. ASSUME NEW i \in 1..Len(jobs'), jobs'[i].kind = "add",
                 NEW j \in 1..Len(jobs'), jobs'[j] = jobs'[i]
          PROVE  j = i
      BY <3>3, <3>4, <3>6 DEF OwnInv, QueueInv
    <3> QED BY <3>1, <3>5, <3>6 DEF QueueInv, Waits, Unheld
  <2>4. ListInv'
    BY <1>5 DEF Enqueue, OwnInv, ListInv, Waits, Unheld
  <2>5. HeldInv'
    BY <1>5 DEF Enqueue, OwnInv, HeldInv
  <2>6. AnswerInv'
    BY <1>5 DEF Enqueue, OwnInv, AnswerInv, AtMostOneAnswer
  <2> QED BY <2>1, <2>2, <2>3, <2>4, <2>5, <2>6 DEF OwnInv
<1>6. ASSUME NEW h \in Handlers, Deliver(h) PROVE OwnInv'
  <2>1. NewInv'
    BY <1>6 DEF Deliver, HGoto, OwnInv, NewInv, Waits, Unheld, Queued
  <2>2. ApartInv'
    BY <1>6 DEF Deliver, OwnInv, ApartInv
  <2>3. QueueInv'
    BY <1>6 DEF Deliver, OwnInv, QueueInv, Waits, Unheld
  <2>4. ListInv'
    BY <1>6 DEF Deliver, OwnInv, ListInv, Waits, Unheld
  <2>5. HeldInv'
    BY <1>6 DEF Deliver, OwnInv, HeldInv
  <2>6. AnswerInv'
    BY <1>6 DEF Deliver, OwnInv, AnswerInv, AtMostOneAnswer
  <2> QED BY <2>1, <2>2, <2>3, <2>4, <2>5, <2>6 DEF OwnInv
<1>7. ASSUME NEW h \in Handlers, Return(h) PROVE OwnInv'
  <2>1. NewInv'
    BY <1>7
    DEF Return, HGoto, OwnInv, NewInv, ApartInv, Waits, Unheld, Queued,
        BaseInv, TypeOK
  <2>2. ApartInv'
    BY <1>7 DEF Return, OwnInv, ApartInv
  <2>3. QueueInv'
    BY <1>7 DEF Return, OwnInv, QueueInv, Waits, Unheld
  <2>4. ListInv'
    BY <1>7 DEF Return, OwnInv, ListInv, Waits, Unheld
  <2>5. HeldInv'
    BY <1>7 DEF Return, OwnInv, HeldInv
  <2>6. AnswerInv'
    BY <1>7 DEF Return, OwnInv, AnswerInv, AtMostOneAnswer
  <2> QED BY <2>1, <2>2, <2>3, <2>4, <2>5, <2>6 DEF OwnInv
<1>8. CASE RunAdd
  <2>1. NewInv'
    <3>1. /\ jobs # <<>> /\ jobs' = Tail(jobs) /\ Head(jobs).kind = "add"
          /\ reqList' = reqList \cup {Head(jobs).of}
          /\ UNCHANGED <<hpc, hreq, id, arena, deferred, status, replies, req>>
      BY <1>8 DEF RunAdd
    <3>2. \A r \in Requests : Queued(r)' => Queued(r)
      BY <3>1, HeadTail DEF Queued, AddJob, BaseInv
    <3>3. Head(jobs).of \in Requests /\ Queued(Head(jobs).of)
      BY <3>1, HeadTail DEF Queued, AddJob, Jobs, BaseInv
    <3>4. ASSUME NEW h \in Handlers, hpc[h] # "idle" PROVE hreq[h] \in Requests
      BY <3>4, HandlerBusy
    <3> QED BY <3>1, <3>2, <3>3, <3>4 DEF OwnInv, NewInv, Waits, Unheld
  <2>2. ApartInv'
    BY <1>8 DEF RunAdd, OwnInv, ApartInv
  <2>3. QueueInv'
    <3>1. /\ jobs # <<>> /\ jobs' = Tail(jobs) /\ Head(jobs).kind = "add"
          /\ reqList' = reqList \cup {jobs[1].of}
          /\ UNCHANGED <<id, arena, deferred, status, replies, req>>
      BY <1>8, HeadTail DEF RunAdd, BaseInv
    <3>2. ASSUME NEW i \in 1..Len(jobs'), jobs'[i].kind = "add"
          PROVE  /\ Waits(jobs'[i].of) /\ jobs'[i].of \notin reqList
                 /\ Unheld(jobs'[i].of) /\ jobs'[i].of # jobs[1].of
      <4>1. jobs'[i] = jobs[i + 1] /\ i + 1 \in 1..Len(jobs) /\ 1 \in 1..Len(jobs)
        BY <3>1, HeadTail DEF BaseInv
      <4>2. jobs[1] \in Jobs /\ jobs[i + 1] \in Jobs /\ jobs[1].kind = "add"
        BY <3>1, <4>1, HeadTail DEF BaseInv, TypeOK
      <4>3. jobs[i + 1] # jobs[1]
        BY <4>1, <4>2 DEF OwnInv, QueueInv
      <4> QED BY <3>2, <4>1, <4>2, <4>3 DEF OwnInv, QueueInv, Jobs
    <3>3. ASSUME NEW i \in 1..Len(jobs'), jobs'[i].kind = "add",
                 NEW j \in 1..Len(jobs'), jobs'[j] = jobs'[i]
          PROVE  j = i
      <4>1. /\ jobs'[i] = jobs[i + 1] /\ i + 1 \in 1..Len(jobs)
            /\ jobs'[j] = jobs[j + 1] /\ j + 1 \in 1..Len(jobs)
        BY <3>1, HeadTail DEF BaseInv
      <4>2. j + 1 = i + 1
        BY <3>3, <4>1 DEF OwnInv, QueueInv
      <4>3. i \in Nat /\ j \in Nat
        OBVIOUS
      <4> QED BY <4>2, <4>3
    <3> QED BY <3>1, <3>2, <3>3 DEF QueueInv, Waits, Unheld
  <2>4. ListInv'
    BY <1>8 DEF RunAdd, OwnInv, QueueInv, ListInv, Waits, Unheld, BusyInv
  <2>5. HeldInv'
    BY <1>8 DEF RunAdd, OwnInv, HeldInv
  <2>6. AnswerInv'
    BY <1>8 DEF RunAdd, OwnInv, AnswerInv, AtMostOneAnswer
  <2> QED BY <2>1, <2>2, <2>3, <2>4, <2>5, <2>6 DEF OwnInv
<1>9. CASE RunTake
  <2>1. NewInv'
    BY <1>9 DEF RunTake, OwnInv, NewInv, Waits, Unheld, Queued, BaseInv, TypeOK
  <2>2. ApartInv'
    BY <1>9 DEF RunTake, OwnInv, ApartInv
  <2>3. QueueInv'
    BY <1>9 DEF RunTake, OwnInv, QueueInv, Waits, Unheld, BaseInv, TypeOK
  <2>4. ListInv'
    BY <1>9 DEF RunTake, OwnInv, ListInv, Waits, Unheld, BaseInv, TypeOK
  <2>5. HeldInv'
    BY <1>9
    DEF RunTake, OwnInv, ListInv, HeldInv, Waits, Unheld, BaseInv, TypeOK
  <2>6. AnswerInv'
    BY <1>9 DEF RunTake, OwnInv, AnswerInv, AtMostOneAnswer
  <2> QED BY <2>1, <2>2, <2>3, <2>4, <2>5, <2>6 DEF OwnInv
<1>10. ASSUME NEW t \in Responders, Rsp(t) PROVE OwnInv'
  <2>1. NewInv'
    BY <1>10 DEF Rsp, OwnInv, NewInv, Waits, Unheld, Queued
  <2>2. ApartInv'
    BY <1>10 DEF Rsp, OwnInv, ApartInv
  <2>3. QueueInv'
    BY <1>10 DEF Rsp, OwnInv, QueueInv, Waits, Unheld
  <2>4. ListInv'
    BY <1>10 DEF Rsp, OwnInv, ListInv, Waits, Unheld
  <2>5. HeldInv'
    BY <1>10 DEF Rsp, Goto, OwnInv, HeldInv
  <2>6. AnswerInv'
    BY <1>10 DEF Rsp, OwnInv, AnswerInv, AtMostOneAnswer
  <2> QED BY <2>1, <2>2, <2>3, <2>4, <2>5, <2>6 DEF OwnInv
<1>11. ASSUME NEW t \in Responders, RspExecute(t) PROVE OwnInv'
  <2>1. NewInv'
    <3>1. /\ jobs' = Append(jobs, TakeJob(t)) /\ TakeJob(t) \in Jobs
          /\ UNCHANGED <<hpc, hreq, id, arena, deferred, status, replies, reqList, req>>
      BY <1>11 DEF RspExecute, TakeJob, Jobs
    <3>2. \A r \in Requests : Queued(r)' => Queued(r)
      BY <3>1, AppendJob DEF Queued, AddJob, TakeJob, BaseInv
    <3>3. ASSUME NEW h \in Handlers, hpc[h] # "idle" PROVE hreq[h] \in Requests
      BY <3>3, HandlerBusy
    <3> QED BY <3>1, <3>2, <3>3 DEF OwnInv, NewInv, Waits, Unheld
  <2>2. ApartInv'
    BY <1>11 DEF RspExecute, OwnInv, ApartInv
  <2>3. QueueInv'
    <3>1. /\ jobs' = Append(jobs, TakeJob(t)) /\ TakeJob(t) \in Jobs
          /\ TakeJob(t).kind = "take"
          /\ UNCHANGED <<id, arena, deferred, status, replies, reqList, req>>
      BY <1>11 DEF RspExecute, TakeJob, Jobs
    <3>2. /\ Len(jobs') = Len(jobs) + 1
          /\ jobs'[Len(jobs) + 1] = TakeJob(t)
          /\ \A i \in 1..Len(jobs) : jobs'[i] = jobs[i]
          /\ \A i \in 1..Len(jobs') : i \in 1..Len(jobs) \/ i = Len(jobs) + 1
      BY <3>1, AppendJob DEF BaseInv
    <3>3. ASSUME NEW i \in 1..Len(jobs'), jobs'[i].kind = "add"
          PROVE  Waits(jobs'[i].of) /\ jobs'[i].of \notin reqList /\ Unheld(jobs'[i].of)
      BY <3>1, <3>2, <3>3 DEF OwnInv, QueueInv
    <3>4. ASSUME NEW i \in 1..Len(jobs'), jobs'[i].kind = "add",
                 NEW j \in 1..Len(jobs'), jobs'[j] = jobs'[i]
          PROVE  j = i
      BY <3>1, <3>2, <3>4 DEF OwnInv, QueueInv
    <3> QED BY <3>1, <3>3, <3>4 DEF QueueInv, Waits, Unheld
  <2>4. ListInv'
    BY <1>11 DEF RspExecute, OwnInv, ListInv, Waits, Unheld
  <2>5. HeldInv'
    BY <1>11 DEF RspExecute, Goto, OwnInv, HeldInv
  <2>6. AnswerInv'
    BY <1>11 DEF RspExecute, OwnInv, AnswerInv, AtMostOneAnswer
  <2> QED BY <2>1, <2>2, <2>3, <2>4, <2>5, <2>6 DEF OwnInv
<1>12. ASSUME NEW t \in Responders, RspNull(t) PROVE OwnInv'
  <2>1. NewInv'
    BY <1>12
    DEF RspNull, Finish, Goto, OwnInv, NewInv, Waits, Unheld, Queued, BaseInv,
        BusyInv
  <2>2. ApartInv'
    BY <1>12 DEF RspNull, Finish, OwnInv, ApartInv
  <2>3. QueueInv'
    <3>1. UNCHANGED <<jobs, reqList>>
      BY <1>12 DEF RspNull
    <3>2. ASSUME NEW i \in 1..Len(jobs), jobs[i].kind = "add"
          PROVE  jobs[i].of \in Requests /\ Waits(jobs[i].of) /\ Unheld(jobs[i].of)
      BY <3>2, JobTypes DEF OwnInv, QueueInv
    <3>3. ASSUME NEW r \in Requests, Waits(r), Unheld(r)
          PROVE  Waits(r)' /\ Unheld(r)'
      BY <1>12, <3>3 DEF RspNull, Finish, Waits, Unheld, BaseInv, TypeOK
    <3> QED BY <3>1, <3>2, <3>3 DEF OwnInv, QueueInv
  <2>4. ListInv'
    BY <1>12
    DEF RspNull, Finish, OwnInv, ListInv, Waits, Unheld, BaseInv, TypeOK
  <2>5. HeldInv'
    BY <1>12 DEF RspNull, Finish, Goto, OwnInv, HeldInv
  <2>6. AnswerInv'
    BY <1>12 DEF RspNull, Finish, OwnInv, AnswerInv, AtMostOneAnswer
  <2> QED BY <2>1, <2>2, <2>3, <2>4, <2>5, <2>6 DEF OwnInv
<1>13. ASSUME NEW t \in Responders, RspParse(t) PROVE OwnInv'
  <2>1. NewInv'
    BY <1>13
    DEF RspParse, Finish, OwnInv, NewInv, Waits, Unheld, Queued, BaseInv,
        BusyInv, TypeOK
  <2>2. ApartInv'
    BY <1>13 DEF RspParse, Finish, OwnInv, ApartInv
  <2>3. QueueInv'
    <3>1. UNCHANGED <<jobs, reqList>>
      BY <1>13 DEF RspParse
    <3>2. ASSUME NEW i \in 1..Len(jobs), jobs[i].kind = "add"
          PROVE  jobs[i].of \in Requests /\ Waits(jobs[i].of) /\ Unheld(jobs[i].of)
      BY <3>2, JobTypes DEF OwnInv, QueueInv
    <3>3. ASSUME NEW r \in Requests, Waits(r), Unheld(r)
          PROVE  Waits(r)' /\ Unheld(r)'
      BY <1>13, <3>3 DEF RspParse, Finish, Waits, Unheld, BaseInv, TypeOK
    <3> QED BY <3>1, <3>2, <3>3 DEF OwnInv, QueueInv
  <2>4. ListInv'
    BY <1>13
    DEF RspParse, Finish, OwnInv, ListInv, Waits, Unheld, BaseInv, TypeOK
  <2>5. HeldInv'
    BY <1>13 DEF RspParse, Finish, Goto, OwnInv, HeldInv, BaseInv, TypeOK
  <2>6. AnswerInv'
    BY <1>13 DEF RspParse, Finish, OwnInv, AnswerInv, AtMostOneAnswer
  <2> QED BY <2>1, <2>2, <2>3, <2>4, <2>5, <2>6 DEF OwnInv
<1>14. ASSUME NEW t \in Responders, RspReply(t) PROVE OwnInv'
  <2>1. NewInv'
    BY <1>14
    DEF RspReply, OwnInv, NewInv, Waits, Unheld, Queued, BaseInv, BusyInv,
        TypeOK
  <2>2. ApartInv'
    BY <1>14 DEF RspReply, OwnInv, ApartInv
  <2>3. QueueInv'
    <3>1. UNCHANGED <<jobs, reqList>>
      BY <1>14 DEF RspReply
    <3>2. ASSUME NEW i \in 1..Len(jobs), jobs[i].kind = "add"
          PROVE  jobs[i].of \in Requests /\ Waits(jobs[i].of) /\ Unheld(jobs[i].of)
      BY <3>2, JobTypes DEF OwnInv, QueueInv
    <3>3. ASSUME NEW r \in Requests, Waits(r), Unheld(r)
          PROVE  Waits(r)' /\ Unheld(r)'
      BY <1>14, <3>3, ResponderBusy DEF RspReply, Waits, Unheld, BaseInv, TypeOK
    <3> QED BY <3>1, <3>2, <3>3 DEF OwnInv, QueueInv
  <2>4. ListInv'
    BY <1>14 DEF RspReply, OwnInv, ListInv, Waits, Unheld, BaseInv, TypeOK
  <2>5. HeldInv'
    BY <1>14 DEF RspReply, Goto, OwnInv, HeldInv, BaseInv, TypeOK
  <2>6. AnswerInv'
    <3>1. /\ req[t] \in Requests /\ deferred[req[t]] /\ id[req[t]] # 0
          /\ replies[req[t]] = 0 /\ pc[t] = "reply"
      BY <1>14, ResponderBusy
      DEF RspReply, OwnInv, HeldInv, BaseInv, BusyInv, Holding
    <3>2. \/ replies' = [replies EXCEPT ![req[t]] = 1]
          \/ replies' = replies
      BY <1>14, <3>1 DEF RspReply
    <3>3. /\ UNCHANGED <<deferred, status, id>>
          /\ replies \in [Requests -> Nat]
      BY <1>14 DEF RspReply, BaseInv, TypeOK, handVars
    <3>4. CASE replies' = replies
      BY <3>3, <3>4 DEF OwnInv, AnswerInv, AtMostOneAnswer
    <3>5. CASE replies' = [replies EXCEPT ![req[t]] = 1]
      BY <3>1, <3>3, <3>5 DEF OwnInv, AnswerInv, AtMostOneAnswer
    <3> QED BY <3>2, <3>4, <3>5
  <2> QED BY <2>1, <2>2, <2>3, <2>4, <2>5, <2>6 DEF OwnInv
<1>15. ASSUME NEW t \in Responders, RspComplete(t) PROVE OwnInv'
  <2>1. NewInv'
    BY <1>15
    DEF RspComplete, OwnInv, NewInv, AtMostOneAnswer, Waits, Unheld, Queued
  <2>2. ApartInv'
    BY <1>15 DEF RspComplete, OwnInv, ApartInv
  <2>3. QueueInv'
    BY <1>15 DEF RspComplete, OwnInv, QueueInv, Waits, Unheld
  <2>4. ListInv'
    BY <1>15 DEF RspComplete, OwnInv, ListInv, Waits, Unheld
  <2>5. HeldInv'
    BY <1>15 DEF RspComplete, Goto, OwnInv, HeldInv, BaseInv, TypeOK
  <2>6. AnswerInv'
    BY <1>15
    DEF RspComplete, OwnInv, HeldInv, AnswerInv, AtMostOneAnswer, Holding
  <2> QED BY <2>1, <2>2, <2>3, <2>4, <2>5, <2>6 DEF OwnInv
<1>16. ASSUME NEW t \in Responders, RspClear(t) PROVE OwnInv'
  <2>1. NewInv'
    BY <1>16
    DEF RspClear, Finish, OwnInv, NewInv, Waits, Unheld, Queued, BaseInv,
        BusyInv
  <2>2. ApartInv'
    BY <1>16 DEF RspClear, Finish, OwnInv, ApartInv
  <2>3. QueueInv'
    <3>1. UNCHANGED <<jobs, reqList>>
      BY <1>16 DEF RspClear
    <3>2. ASSUME NEW i \in 1..Len(jobs), jobs[i].kind = "add"
          PROVE  jobs[i].of \in Requests /\ Waits(jobs[i].of) /\ Unheld(jobs[i].of)
      BY <3>2, JobTypes DEF OwnInv, QueueInv
    <3>3. ASSUME NEW r \in Requests, Waits(r), Unheld(r)
          PROVE  Waits(r)' /\ Unheld(r)'
      BY <1>16, <3>3, ResponderBusy
      DEF RspClear, Finish, Waits, Unheld, BaseInv, TypeOK
    <3> QED BY <3>1, <3>2, <3>3 DEF OwnInv, QueueInv
  <2>4. ListInv'
    BY <1>16
    DEF RspClear, Finish, OwnInv, ListInv, Waits, Unheld, BaseInv, TypeOK
  <2>5. HeldInv'
    BY <1>16 DEF RspClear, Finish, Goto, OwnInv, HeldInv, BaseInv, TypeOK
  <2>6. AnswerInv'
    BY <1>16 DEF RspClear, Finish, OwnInv, AnswerInv, AtMostOneAnswer
  <2> QED BY <2>1, <2>2, <2>3, <2>4, <2>5, <2>6 DEF OwnInv
<1>17. CASE AliveChanges
  <2>1. NewInv'
    BY <1>17 DEF AliveChanges, OwnInv, NewInv, Waits, Unheld, Queued
  <2>2. ApartInv'
    BY <1>17 DEF AliveChanges, OwnInv, ApartInv
  <2>3. QueueInv'
    BY <1>17 DEF AliveChanges, OwnInv, QueueInv, Waits, Unheld
  <2>4. ListInv'
    BY <1>17 DEF AliveChanges, OwnInv, ListInv, Waits, Unheld
  <2>5. HeldInv'
    BY <1>17 DEF AliveChanges, OwnInv, HeldInv
  <2>6. AnswerInv'
    BY <1>17 DEF AliveChanges, OwnInv, AnswerInv, AtMostOneAnswer
  <2> QED BY <2>1, <2>2, <2>3, <2>4, <2>5, <2>6 DEF OwnInv
<1>18. CASE UNCHANGED vars
  <2>1. NewInv'
    BY <1>18 DEF vars, OwnInv, NewInv, Waits, Unheld, Queued
  <2>2. ApartInv'
    BY <1>18 DEF vars, OwnInv, ApartInv
  <2>3. QueueInv'
    BY <1>18 DEF vars, OwnInv, QueueInv, Waits, Unheld
  <2>4. ListInv'
    BY <1>18 DEF vars, OwnInv, ListInv, Waits, Unheld
  <2>5. HeldInv'
    BY <1>18 DEF vars, OwnInv, HeldInv
  <2>6. AnswerInv'
    BY <1>18 DEF vars, OwnInv, AnswerInv, AtMostOneAnswer
  <2> QED BY <2>1, <2>2, <2>3, <2>4, <2>5, <2>6 DEF OwnInv
<1> QED
  BY <1>1, <1>2, <1>3, <1>4, <1>5, <1>6, <1>7, <1>8, <1>9, <1>10, <1>11,
     <1>12, <1>13, <1>14, <1>15, <1>16, <1>17, <1>18
  DEF Next, HandlerSteps, WorkerSteps, RspSteps

\* However often and by however many threads a request is answered, its caller
\* gets one reply and one status at most: see AtMostOneAnswer. find and remove of
\* rsp are one job of providerWorker (Provider.kt, rsp).
THEOREM AnswersOnce == Spec => []AtMostOneAnswer
<1>1. OwnInv => AtMostOneAnswer
  BY DEF OwnInv, AnswerInv
<1> QED BY <1>1, BaseInit, BaseNext, OwnInit, OwnNext, PTL DEF Spec

\* No thread of rsp uses the arena of a request after it has been cleared: see
\* NoUseAfterClear. Only the thread that has taken the request clears it.
THEOREM UsesLiveMemory == Spec => []NoUseAfterClear
<1>1. BaseInv /\ OwnInv => NoUseAfterClear
  BY DEF BaseInv, BusyInv, OwnInv, HeldInv, NoUseAfterClear, Holding
<1> QED BY <1>1, BaseInit, BaseNext, OwnInit, OwnNext, PTL DEF Spec

\* A reply never follows the status of its request: see NoReplyAfterStatus. Only
\* RspReply sends replies, and who is about to holds a request without a status.
THEOREM RepliesBeforeStatus == Spec => NoReplyAfterStatus
<1>1. ASSUME BaseInv, OwnInv, [Next]_vars
      PROVE  [\A r \in Requests : replies'[r] # replies[r] => status[r] = 0]_vars
  <2>1. ASSUME NEW t \in Responders, RspReply(t), NEW r \in Requests,
               replies'[r] # replies[r]
        PROVE  status[r] = 0
    <3>1. req[t] \in Requests /\ req[t] # NoRequest /\ pc[t] = "reply"
      BY <1>1, <2>1, ResponderBusy, RequestsAssumption DEF RspReply, Holding
    <3>2. r = req[t]
      BY <1>1, <2>1, <3>1 DEF RspReply, BaseInv, TypeOK
    <3> QED BY <1>1, <3>1, <3>2 DEF OwnInv, HeldInv
  <2>2. UNCHANGED replies \/ \E t \in Responders : RspReply(t)
    BY <1>1
    DEF Next, HandlerSteps, WorkerSteps, RspSteps, Arrive, MakeRequest, NoProvider,
        Defer, Enqueue, Deliver, Return, RunAdd, RunTake, Rsp, RspExecute,
        RspNull, RspParse, RspComplete, RspClear, AliveChanges, vars, busVars
  <2> QED BY <2>1, <2>2
<1> QED BY <1>1, BaseInit, BaseNext, OwnInit, OwnNext, PTL
        DEF Spec, NoReplyAfterStatus

-----------------------------------------------------------------------------
(* Third layer: the numbers. provideCounter gives none out twice, and a    *)
(* thread of rsp has the request of the number it was called with.         *)

NumberInv ==
  /\ \A r \in Requests : id[r] <= counter
  /\ \A q, r \in Requests : id[q] = id[r] /\ id[r] # 0 => q = r
  /\ \A r \in delivered : id[r] # 0
  /\ \A t \in Responders : pc[t] # "idle" => arg[t] # 0 /\ arg[t] <= counter
  /\ \A t \in Responders : pc[t] \in Holding => id[req[t]] = arg[t]

LEMMA NumberInit == Init => NumberInv
  BY DEF Init, NumberInv, Holding

\* A step of any action keeps NumberInv.
LEMMA NumberNext == BaseInv /\ OwnInv /\ NumberInv /\ [Next]_vars => NumberInv'
<1> SUFFICES ASSUME BaseInv, OwnInv, NumberInv, [Next]_vars PROVE NumberInv'
  OBVIOUS
<1> USE DEF busVars, handVars, listVars, rspVars
<1>1. ASSUME UNCHANGED <<id, counter, delivered, arg, req>>,
             \A t \in Responders : pc'[t] # pc[t] =>
               pc[t] # "idle" /\ (pc'[t] \in Holding => pc[t] \in Holding)
      PROVE  NumberInv'
  BY <1>1 DEF NumberInv
<1>2. ASSUME NEW h \in Handlers,
             Arrive(h) \/ NoProvider(h) \/ Defer(h) \/ Enqueue(h) \/ Return(h)
      PROVE  NumberInv'
  BY <1>1, <1>2 DEF Arrive, NoProvider, Defer, Enqueue, Return
<1>3. ASSUME NEW h \in Handlers, MakeRequest(h) PROVE NumberInv'
  <2>1. /\ hreq[h] \in Requests /\ Unheld(hreq[h]) /\ id[hreq[h]] = 0 /\ counter \in Nat
        /\ counter' = counter + 1 /\ id' = [id EXCEPT ![hreq[h]] = counter + 1]
        /\ UNCHANGED <<delivered, pc, arg, req>>
    BY <1>3, HandlerBusy DEF MakeRequest, OwnInv, NewInv, BaseInv, TypeOK
  <2>2. \A r \in Requests : id'[r] = IF r = hreq[h] THEN counter + 1 ELSE id[r]
    BY <2>1 DEF BaseInv, TypeOK
  <2>3. \A t \in Responders : pc[t] \in Holding => req[t] \in Requests /\ req[t] # hreq[h]
    BY <2>1, ResponderBusy DEF Unheld
  <2>4. \A r \in Requests : id[r] \in Nat
    BY DEF BaseInv, TypeOK
  <2>5. \A t \in Responders : arg[t] \in Nat
    BY DEF BaseInv, TypeOK
  <2>6. delivered \subseteq Requests
    BY DEF BaseInv, TypeOK
  <2> QED BY <2>1, <2>2, <2>3, <2>4, <2>5, <2>6 DEF NumberInv
<1>4. ASSUME NEW h \in Handlers, Deliver(h) PROVE NumberInv'
  <2>1. id[hreq[h]] # 0
    BY <1>4, HandlerBusy DEF Deliver, OwnInv, NewInv, AnswerInv
  <2> QED BY <1>4, <2>1 DEF Deliver, NumberInv
<1>5. CASE RunAdd
  BY <1>1, <1>5 DEF RunAdd
<1>6. CASE RunTake
  <2>1. PICK t : t = Head(jobs).of
    OBVIOUS
  <2>2. t \in Responders /\ pc[t] = "future"
    <3>1. Head(jobs) \in Jobs /\ Head(jobs) = jobs[1] /\ 1 \in 1..Len(jobs)
      BY <1>6, HeadTail DEF RunTake, BaseInv
    <3> QED BY <1>6, <2>1, <3>1 DEF RunTake, BaseInv, TakeInv, Jobs
  <2>3. /\ UNCHANGED <<id, counter, delivered, arg>>
        /\ \/ pc' = [pc EXCEPT ![t] = "null"] /\ UNCHANGED req
           \/ \E r \in Requests : /\ id[r] = arg[t] /\ req' = [req EXCEPT ![t] = r]
                                  /\ pc' = [pc EXCEPT ![t] = "parse"]
    BY <1>6, <2>1 DEF RunTake, BaseInv, TypeOK
  <2>4. CASE pc' = [pc EXCEPT ![t] = "null"] /\ UNCHANGED req
    BY <1>1, <2>2, <2>3, <2>4 DEF Holding, BaseInv, TypeOK
  <2>5. ASSUME NEW r \in Requests, id[r] = arg[t], req' = [req EXCEPT ![t] = r],
               pc' = [pc EXCEPT ![t] = "parse"]
        PROVE  NumberInv'
    BY <2>2, <2>3, <2>5 DEF NumberInv, BaseInv, TypeOK
  <2> QED BY <2>3, <2>4, <2>5
<1>7. ASSUME NEW t \in Responders, Rsp(t) PROVE NumberInv'
  <2>1. PICK r \in delivered : arg' = [arg EXCEPT ![t] = id[r]]
    BY <1>7 DEF Rsp
  <2>2. id[r] # 0 /\ id[r] <= counter
    BY DEF NumberInv, BaseInv, TypeOK
  <2>3. pc' = [pc EXCEPT ![t] = "execute"] /\ UNCHANGED <<id, counter, delivered, req>>
    BY <1>7 DEF Rsp, Goto
  <2> QED BY <2>1, <2>2, <2>3 DEF NumberInv, Holding, BaseInv, TypeOK
<1>8. ASSUME NEW t \in Responders,
             RspExecute(t) \/ RspReply(t) \/ RspComplete(t)
      PROVE  NumberInv'
  BY <1>1, <1>8 DEF RspExecute, RspReply, RspComplete, Goto, Holding, BaseInv, TypeOK
<1>9. ASSUME NEW t \in Responders, Finish(t), UNCHANGED <<id, counter, delivered>>
      PROVE  NumberInv'
  BY <1>9 DEF Finish, Goto, NumberInv, Holding, BaseInv, TypeOK
<1>10. ASSUME NEW t \in Responders, RspNull(t) \/ RspParse(t) \/ RspClear(t)
       PROVE  NumberInv'
  BY <1>1, <1>9, <1>10 DEF RspNull, RspParse, RspClear, Goto, Holding, BaseInv, TypeOK
<1>11. CASE AliveChanges \/ UNCHANGED vars
  BY <1>1, <1>11 DEF AliveChanges, vars
<1> QED BY <1>2, <1>3, <1>4, <1>5, <1>6, <1>7, <1>8, <1>10, <1>11
        DEF Next, HandlerSteps, WorkerSteps, RspSteps
=============================================================================

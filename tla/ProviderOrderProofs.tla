------------------------ MODULE ProviderOrderProofs ------------------------
(***************************************************************************)
(* Proofs about the order in which providerWorker does its jobs, for any   *)
(* sets of requests and threads: the job that adds a request is given      *)
(* before the application can answer it, so the job of the answer comes    *)
(* later in the queue. (ProviderRequestsProofs has who holds a request.)   *)
(***************************************************************************)
EXTENDS ProviderRequestsProofs

-----------------------------------------------------------------------------
\* The request has been added to reqList, or will be before job i is run.
Ahead(r, i) ==
  \/ r \in taken \/ r \in reqList
  \/ \E j \in 1..Len(jobs) : j < i /\ jobs[j] = AddJob(r)

Entered(r) == Ahead(r, Len(jobs) + 1)

DeliverInv ==
  /\ \A h \in Handlers : hpc[h] = "deliver" => Entered(hreq[h])
  /\ \A r \in delivered : Entered(r)
  /\ \A r \in Requests : Entered(r) => id[r] # 0

AskInv ==
  \A t \in Responders :
    pc[t] = "execute" => \E r \in delivered : id[r] = arg[t]

FifoInv ==
  \A i \in 1..Len(jobs) :
    jobs[i].kind = "take" =>
      \E r \in Requests : id[r] = arg[jobs[i].of] /\ Ahead(r, i)

OrderInv == DeliverInv /\ AskInv /\ FifoInv /\ NullMeansTaken

LEMMA OrderInit == Init => OrderInv
  BY DEF Init, OrderInv, DeliverInv, AskInv, FifoInv, NullMeansTaken, Entered, Ahead

\* A step that leaves the queue, the list and the numbers alone leaves every
\* request where it is.
LEMMA SamePlaces ==
  ASSUME UNCHANGED <<jobs, reqList, taken>>
  PROVE  /\ \A r : Entered(r)' <=> Entered(r)
         /\ \A r, i : Ahead(r, i)' <=> Ahead(r, i)
  BY DEF Entered, Ahead

\* A job at the end of the queue comes after all that is there.
LEMMA AppendPlaces ==
  ASSUME TypeOK, NEW x \in Jobs, jobs' = Append(jobs, x), UNCHANGED <<reqList, taken>>
  PROVE  /\ \A r, i : Entered(r) /\ i = Len(jobs) + 1 => Ahead(r, i)'
         /\ \A r : Entered(r)' <=> Entered(r) \/ x = AddJob(r)
         /\ \A r : \A i \in 1..Len(jobs) : Ahead(r, i) => Ahead(r, i)'
<1>1. Len(jobs) \in Nat
  BY DEF TypeOK
<1> QED BY <1>1, AppendJob DEF Entered, Ahead

\* When the first job is run and leaves its request in the list or taken, all the
\* others keep their places.
LEMMA TailPlaces ==
  ASSUME TypeOK, jobs # <<>>, jobs' = Tail(jobs),
         reqList \cup taken \subseteq (reqList \cup taken)',
         \A r \in Requests : jobs[1] = AddJob(r) => r \in (reqList \cup taken)'
  PROVE  \A r \in Requests :
           /\ Entered(r) => Entered(r)'
           /\ \A i \in 1..Len(jobs') : Ahead(r, i + 1) => Ahead(r, i)'
<1>1. Len(jobs) \in Nat /\ Len(jobs') = Len(jobs) - 1
  BY HeadTail DEF TypeOK
<1>2. ASSUME NEW r \in Requests, NEW i \in 1..Len(jobs), Ahead(r, i + 1)
      PROVE  Ahead(r, i)'
  <2>1. CASE r \in taken \/ r \in reqList
    BY <2>1 DEF Ahead
  <2>2. CASE \E j \in 1..Len(jobs) : j < i + 1 /\ jobs[j] = AddJob(r)
    <3>1. PICK j \in 1..Len(jobs) : j < i + 1 /\ jobs[j] = AddJob(r)
      BY <2>2
    <3>2. CASE j = 1
      BY <3>1, <3>2 DEF Ahead
    <3>3. CASE j # 1
      <4>1. j - 1 \in 1..Len(jobs') /\ j - 1 < i /\ (j - 1) + 1 = j
        BY <1>1, <3>1, <3>3
      <4>2. jobs'[j - 1] = jobs[j]
        BY <4>1, HeadTail
      <4> QED BY <3>1, <4>1, <4>2 DEF Ahead
    <3> QED BY <3>2, <3>3
  <2> QED BY <1>2, <2>1, <2>2 DEF Ahead
<1>3. ASSUME NEW r \in Requests, Entered(r) PROVE Entered(r)'
  <2>1. Len(jobs) \in 1..Len(jobs) /\ Len(jobs') + 1 = Len(jobs)
    BY <1>1, HeadTail
  <2> QED BY <1>2, <1>3, <2>1 DEF Entered
<1> QED BY <1>1, <1>2, <1>3

\* A step that leaves the queue, the list, the numbers, the questions and what has
\* been delivered alone, and takes no one to deliver, execute or null, keeps OrderInv.
LEMMA QuietStep ==
  ASSUME BaseInv, OrderInv,
         UNCHANGED <<jobs, reqList, taken, id, delivered>>,
         \A h \in Handlers : hpc'[h] = "deliver" => hpc[h] = "deliver" /\ hreq'[h] = hreq[h],
         \A t \in Responders :
           /\ pc'[t] \in {"execute", "null"} => pc'[t] = pc[t]
           /\ pc'[t] \in {"execute", "null"} \/ pc[t] = "future" => arg'[t] = arg[t]
  PROVE  OrderInv'
<1>1. DeliverInv'
  BY SamePlaces DEF OrderInv, DeliverInv
<1>2. AskInv'
  BY DEF OrderInv, AskInv
<1>3. FifoInv'
  <2>1. ASSUME NEW i \in 1..Len(jobs), jobs[i].kind = "take"
        PROVE  arg'[jobs[i].of] = arg[jobs[i].of]
    BY <2>1, JobTypes DEF BaseInv, TakeInv
  <2> QED BY <2>1, SamePlaces DEF OrderInv, FifoInv
<1>4. NullMeansTaken'
  BY DEF OrderInv, NullMeansTaken
<1> QED BY <1>1, <1>2, <1>3, <1>4 DEF OrderInv

\* A step of any action keeps OrderInv.
LEMMA OrderNext == BaseInv /\ OwnInv /\ OrderInv /\ [Next]_vars => OrderInv'
<1> SUFFICES ASSUME BaseInv, OwnInv, OrderInv, [Next]_vars PROVE OrderInv'
  OBVIOUS
<1> USE DEF busVars, handVars, listVars, rspVars
<1>1. ASSUME NEW h \in Handlers, Arrive(h) PROVE OrderInv'
  BY <1>1, QuietStep DEF Arrive, HGoto, BaseInv, TypeOK
<1>2. ASSUME NEW h \in Handlers, NoProvider(h) PROVE OrderInv'
  BY <1>2, QuietStep DEF NoProvider, HGoto, BaseInv, TypeOK
<1>3. ASSUME NEW h \in Handlers, MakeRequest(h) PROVE OrderInv'
  <2>1. /\ hreq[h] \in Requests /\ id[hreq[h]] = 0
        /\ hpc' = [hpc EXCEPT ![h] = "defer"]
        /\ id' = [id EXCEPT ![hreq[h]] = counter + 1] /\ counter \in Nat
        /\ UNCHANGED <<jobs, reqList, taken, delivered, hreq, pc, arg>>
    BY <1>3, HandlerBusy
    DEF MakeRequest, HGoto, OwnInv, NewInv, BaseInv, TypeOK
  <2>2. \A r \in Requests : id[r] # 0 => id'[r] = id[r]
    BY <2>1 DEF BaseInv, TypeOK
  <2>3. DeliverInv'
    BY <2>1, <2>2, SamePlaces DEF OrderInv, DeliverInv, BaseInv, TypeOK
  <2>4. AskInv'
    BY <2>1, <2>2 DEF OrderInv, DeliverInv, AskInv, BaseInv, TypeOK
  <2>5. FifoInv'
    <3>1. ASSUME NEW r \in Requests, NEW i \in 1..Len(jobs), Ahead(r, i)
          PROVE  id'[r] = id[r]
      <4>1. Entered(r)
        BY <3>1 DEF Entered, Ahead, BaseInv, TypeOK
      <4> QED BY <2>2, <4>1 DEF OrderInv, DeliverInv
    <3> QED BY <2>1, <3>1, SamePlaces DEF OrderInv, FifoInv
  <2>6. NullMeansTaken'
    <3>1. \A r \in taken : r \in Requests /\ id'[r] = id[r]
      BY <2>2 DEF OrderInv, DeliverInv, Entered, Ahead, BaseInv, TypeOK
    <3> QED BY <2>1, <3>1 DEF OrderInv, NullMeansTaken
  <2> QED BY <2>3, <2>4, <2>5, <2>6 DEF OrderInv
<1>4. ASSUME NEW h \in Handlers, Defer(h) PROVE OrderInv'
  BY <1>4, QuietStep DEF Defer, HGoto, BaseInv, TypeOK
<1>5. ASSUME NEW h \in Handlers, Enqueue(h) PROVE OrderInv'
  <2>1. /\ hreq[h] \in Requests /\ id[hreq[h]] # 0
        /\ jobs' = Append(jobs, AddJob(hreq[h])) /\ AddJob(hreq[h]) \in Jobs
        /\ UNCHANGED <<reqList, taken, id, delivered, hreq, pc, arg>>
    BY <1>5, HandlerBusy
    DEF Enqueue, OwnInv, NewInv, Waits, AddJob, Jobs
  <2>2. \A r \in Requests : Entered(r)' <=> Entered(r) \/ r = hreq[h]
    BY <2>1, AppendPlaces DEF BaseInv, AddJob
  <2>3. \A g \in Handlers : hpc'[g] = "deliver" => hpc[g] = "deliver" \/ g = h
    BY <1>5 DEF Enqueue, HGoto, BaseInv, TypeOK
  <2>4. DeliverInv'
    <3>1. \A g \in Handlers : hpc[g] = "deliver" => hreq[g] \in Requests
      BY HandlerBusy
    <3> QED BY <2>1, <2>2, <2>3, <3>1 DEF OrderInv, DeliverInv, BaseInv, TypeOK
  <2>5. AskInv' /\ NullMeansTaken'
    BY <2>1 DEF OrderInv, AskInv, NullMeansTaken
  <2>6. FifoInv'
    BY <2>1, AppendJob, AppendPlaces DEF OrderInv, FifoInv, BaseInv, AddJob
  <2> QED BY <2>4, <2>5, <2>6 DEF OrderInv
<1>6. ASSUME NEW h \in Handlers, Deliver(h) PROVE OrderInv'
  <2>1. /\ Entered(hreq[h]) /\ delivered' = delivered \cup {hreq[h]}
        /\ UNCHANGED <<jobs, reqList, taken, id, hreq, pc, arg>>
    BY <1>6 DEF Deliver, OrderInv, DeliverInv
  <2>2. \A g \in Handlers : hpc'[g] = "deliver" => hpc[g] = "deliver"
    BY <1>6 DEF Deliver, HGoto, BaseInv, TypeOK
  <2>3. DeliverInv'
    BY <2>1, <2>2, SamePlaces DEF OrderInv, DeliverInv
  <2>4. AskInv' /\ NullMeansTaken'
    BY <2>1 DEF OrderInv, AskInv, NullMeansTaken
  <2>5. FifoInv'
    BY <2>1, SamePlaces DEF OrderInv, FifoInv
  <2> QED BY <2>3, <2>4, <2>5 DEF OrderInv
<1>7. ASSUME NEW h \in Handlers, Return(h) PROVE OrderInv'
  BY <1>7, QuietStep DEF Return, HGoto, BaseInv, TypeOK
<1>8. CASE RunAdd
  <2>1. /\ jobs # <<>> /\ jobs' = Tail(jobs) /\ reqList' = reqList \cup {jobs[1].of}
        /\ jobs[1].kind = "add"
        /\ UNCHANGED <<taken, id, delivered, hpc, hreq, pc, arg>>
    BY <1>8, HeadTail DEF RunAdd, BaseInv
  <2>2. jobs[1].of \in Requests
    BY <2>1, HeadTail DEF BaseInv, Jobs
  <2>3. jobs[1] = AddJob(jobs[1].of)
    BY <2>1, HeadTail DEF BaseInv, Jobs, AddJob
  <2>4. \A r \in Requests :
          /\ Entered(r) => Entered(r)'
          /\ \A i \in 1..Len(jobs') : Ahead(r, i + 1) => Ahead(r, i)'
    BY <2>1, <2>2, TailPlaces DEF BaseInv, AddJob
  <2>5. \A r \in Requests : Entered(r)' => Entered(r)
    <3>1. \A r : (\E j \in 1..Len(jobs') : jobs'[j] = AddJob(r)) =>
                   \E j \in 1..Len(jobs) : j < Len(jobs) + 1 /\ jobs[j] = AddJob(r)
      BY <2>1, HeadTail DEF BaseInv, TypeOK
    <3> QED BY <2>1, <2>3, <3>1, HeadTail DEF Entered, Ahead, BaseInv, TypeOK
  <2>6. DeliverInv'
    BY <2>1, <2>4, <2>5, HandlerBusy DEF OrderInv, DeliverInv, BaseInv, TypeOK
  <2>7. AskInv' /\ NullMeansTaken'
    BY <2>1 DEF OrderInv, AskInv, NullMeansTaken
  <2>8. FifoInv'
    <3>1. ASSUME NEW i \in 1..Len(jobs'), jobs'[i].kind = "take"
          PROVE  \E r \in Requests : id[r] = arg[jobs'[i].of] /\ Ahead(r, i)'
      <4>1. jobs'[i] = jobs[i + 1] /\ i + 1 \in 1..Len(jobs)
        BY <2>1, HeadTail DEF BaseInv
      <4>2. PICK r \in Requests : id[r] = arg[jobs[i + 1].of] /\ Ahead(r, i + 1)
        BY <3>1, <4>1 DEF OrderInv, FifoInv
      <4> QED BY <2>4, <4>1, <4>2
    <3> QED BY <2>1, <3>1 DEF FifoInv
  <2> QED BY <2>6, <2>7, <2>8 DEF OrderInv
<1>9. CASE RunTake
  <2> DEFINE t == jobs[1].of
             found == {r \in reqList : id[r] = arg[t]}
  <2>1. /\ jobs # <<>> /\ jobs' = Tail(jobs) /\ jobs[1].kind = "take"
        /\ t \in Responders /\ UNCHANGED <<id, delivered, hpc, hreq, arg>>
    BY <1>9, HeadTail DEF RunTake, BaseInv, Jobs
  <2>2. \/ /\ found = {} /\ pc' = [pc EXCEPT ![t] = "null"]
           /\ UNCHANGED <<reqList, taken>>
        \/ \E r \in reqList : /\ reqList' = reqList \ {r} /\ taken' = taken \cup {r}
                              /\ pc' = [pc EXCEPT ![t] = "parse"]
    BY <1>9, HeadTail DEF RunTake, BaseInv
  <2>3. reqList' \cup taken' = reqList \cup taken
    BY <2>2
  <2>4. \A r \in Requests : jobs[1] # AddJob(r)
    BY <2>1 DEF AddJob
  <2>5. \A r \in Requests :
          /\ Entered(r) => Entered(r)'
          /\ \A i \in 1..Len(jobs') : Ahead(r, i + 1) => Ahead(r, i)'
    BY <2>1, <2>3, <2>4, TailPlaces DEF BaseInv
  <2>6. \A r \in Requests : Entered(r)' => Entered(r)
    <3>1. \A r : (\E j \in 1..Len(jobs') : jobs'[j] = AddJob(r)) =>
                   \E j \in 1..Len(jobs) : j < Len(jobs) + 1 /\ jobs[j] = AddJob(r)
      BY <2>1, HeadTail DEF BaseInv, TypeOK
    <3> QED BY <2>3, <3>1 DEF Entered, Ahead
  <2>7. \E r \in Requests : id[r] = arg[t] /\ (r \in taken \/ r \in reqList)
    <3>1. 1 \in 1..Len(jobs)
      BY <2>1, HeadTail DEF BaseInv
    <3>2. PICK r \in Requests : id[r] = arg[t] /\ Ahead(r, 1)
      BY <2>1, <3>1 DEF OrderInv, FifoInv
    <3> QED BY <3>2 DEF Ahead
  <2>8. NullMeansTaken'
    <3>1. CASE found = {} /\ pc' = [pc EXCEPT ![t] = "null"] /\ UNCHANGED taken
      <4>1. \E r \in taken : id[r] = arg[t]
        BY <2>7, <3>1
      <4> HIDE DEF t
      <4> QED BY <2>1, <3>1, <4>1 DEF OrderInv, NullMeansTaken, BaseInv, TypeOK
    <3>2. CASE taken \subseteq taken' /\ pc' = [pc EXCEPT ![t] = "parse"]
      <4> HIDE DEF t
      <4> QED BY <2>1, <3>2 DEF OrderInv, NullMeansTaken, BaseInv, TypeOK
    <3> QED BY <2>2, <3>1, <3>2
  <2>9. AskInv'
    <3>1. pc' = [pc EXCEPT ![t] = "null"] \/ pc' = [pc EXCEPT ![t] = "parse"]
      BY <2>2
    <3> HIDE DEF t
    <3> QED BY <2>1, <3>1 DEF OrderInv, AskInv, BaseInv, TypeOK
  <2>10. DeliverInv'
    BY <2>1, <2>5, <2>6, HandlerBusy DEF OrderInv, DeliverInv, BaseInv, TypeOK
  <2>11. FifoInv'
    <3> HIDE DEF t, found
    <3>1. ASSUME NEW i \in 1..Len(jobs'), jobs'[i].kind = "take"
          PROVE  \E r \in Requests : id[r] = arg[jobs'[i].of] /\ Ahead(r, i)'
      <4>1. jobs'[i] = jobs[i + 1] /\ i + 1 \in 1..Len(jobs)
        BY <2>1, HeadTail DEF BaseInv
      <4>2. PICK r \in Requests : id[r] = arg[jobs[i + 1].of] /\ Ahead(r, i + 1)
        BY <3>1, <4>1 DEF OrderInv, FifoInv
      <4> QED BY <2>5, <4>1, <4>2
    <3> QED BY <2>1, <3>1 DEF FifoInv
  <2> QED BY <2>8, <2>9, <2>10, <2>11 DEF OrderInv
<1>10. ASSUME NEW t \in Responders, Rsp(t) PROVE OrderInv'
  <2>1. /\ pc[t] = "idle" /\ pc' = [pc EXCEPT ![t] = "execute"]
        /\ \E r \in delivered : arg' = [arg EXCEPT ![t] = id[r]]
        /\ UNCHANGED <<jobs, reqList, taken, id, delivered, hpc, hreq>>
    BY <1>10 DEF Rsp, Goto
  <2>2. \A u \in Responders : u # t => pc'[u] = pc[u] /\ arg'[u] = arg[u]
    BY <2>1 DEF BaseInv, TypeOK
  <2>3. DeliverInv'
    BY <2>1, SamePlaces DEF OrderInv, DeliverInv
  <2>4. AskInv'
    BY <2>1, <2>2 DEF OrderInv, AskInv, BaseInv, TypeOK
  <2>5. FifoInv'
    <3>1. ASSUME NEW i \in 1..Len(jobs), jobs[i].kind = "take"
          PROVE  arg'[jobs[i].of] = arg[jobs[i].of]
      BY <2>1, <2>2, <3>1, JobTypes DEF BaseInv, TakeInv
    <3> QED BY <2>1, <3>1, SamePlaces DEF OrderInv, FifoInv
  <2>6. NullMeansTaken'
    BY <2>1, <2>2 DEF OrderInv, NullMeansTaken, BaseInv, TypeOK
  <2> QED BY <2>3, <2>4, <2>5, <2>6 DEF OrderInv
<1>11. ASSUME NEW t \in Responders, RspExecute(t) PROVE OrderInv'
  <2>1. /\ pc[t] = "execute" /\ pc' = [pc EXCEPT ![t] = "future"]
        /\ jobs' = Append(jobs, TakeJob(t)) /\ TakeJob(t) \in Jobs
        /\ UNCHANGED <<reqList, taken, id, delivered, hpc, hreq, arg>>
    BY <1>11 DEF RspExecute, Goto, TakeJob, Jobs
  <2>2. \A r : Entered(r)' <=> Entered(r)
    BY <2>1, AppendPlaces DEF BaseInv, TakeJob, AddJob
  <2>3. DeliverInv'
    BY <2>1, <2>2 DEF OrderInv, DeliverInv
  <2>4. AskInv' /\ NullMeansTaken'
    BY <2>1 DEF OrderInv, AskInv, NullMeansTaken, BaseInv, TypeOK
  <2>5. PICK r \in Requests : id[r] = arg[t] /\ Entered(r)
    BY <2>1 DEF OrderInv, AskInv, DeliverInv, BaseInv, TypeOK
  <2>6. ASSUME NEW i \in 1..Len(jobs'), jobs'[i].kind = "take"
        PROVE  \E q \in Requests : id[q] = arg[jobs'[i].of] /\ Ahead(q, i)'
    <3>1. CASE i \in 1..Len(jobs)
      <4>1. jobs'[i] = jobs[i]
        BY <2>1, <3>1, AppendJob DEF BaseInv
      <4>2. PICK q \in Requests : id[q] = arg[jobs[i].of] /\ Ahead(q, i)
        BY <2>6, <3>1, <4>1 DEF OrderInv, FifoInv
      <4> QED BY <2>1, <3>1, <4>1, <4>2, AppendPlaces DEF BaseInv
    <3>2. CASE i = Len(jobs) + 1
      <4>1. jobs'[i].of = t
        BY <2>1, <3>2, AppendJob DEF BaseInv, TakeJob
      <4> QED BY <2>1, <2>5, <3>2, <4>1, AppendPlaces DEF BaseInv
    <3> QED BY <2>1, <3>1, <3>2, AppendJob DEF BaseInv
  <2>7. FifoInv'
    BY <2>1, <2>6 DEF FifoInv
  <2> QED BY <2>3, <2>4, <2>7 DEF OrderInv
<1>12. ASSUME NEW t \in Responders, RspNull(t) PROVE OrderInv'
  BY <1>12, QuietStep DEF RspNull, Finish, Goto, BaseInv, TypeOK
<1>13. ASSUME NEW t \in Responders, RspParse(t) PROVE OrderInv'
  BY <1>13, QuietStep DEF RspParse, Finish, Goto, BaseInv, TypeOK
<1>14. ASSUME NEW t \in Responders, RspReply(t) PROVE OrderInv'
  BY <1>14, QuietStep DEF RspReply, Goto, BaseInv, TypeOK
<1>15. ASSUME NEW t \in Responders, RspComplete(t) PROVE OrderInv'
  BY <1>15, QuietStep DEF RspComplete, Goto, BaseInv, TypeOK
<1>16. ASSUME NEW t \in Responders, RspClear(t) PROVE OrderInv'
  BY <1>16, QuietStep DEF RspClear, Finish, Goto, BaseInv, TypeOK
<1>17. CASE AliveChanges
  BY <1>17, QuietStep DEF AliveChanges
<1>18. CASE UNCHANGED vars
  BY <1>18, QuietStep DEF vars
<1> QED BY <1>1, <1>2, <1>3, <1>4, <1>5, <1>6, <1>7, <1>8, <1>9, <1>10, <1>11,
           <1>12, <1>13, <1>14, <1>15, <1>16, <1>17, <1>18
        DEF Next, HandlerSteps, WorkerSteps, RspSteps

\* rsp(reqId) finds the request of a number the application was given unless
\* another rsp has found it: see NullMeansTaken. By the order of the two lines of
\* onInvoke and of the jobs of providerWorker.
THEOREM NullIsTaken == Spec => []NullMeansTaken
<1>1. OrderInv => NullMeansTaken
  BY DEF OrderInv
<1> QED BY <1>1, BaseInit, BaseNext, OwnInit, OwnNext, OrderInit, OrderNext,
           PTL DEF Spec
=============================================================================

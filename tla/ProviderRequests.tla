-------------------------- MODULE ProviderRequests --------------------------
(***************************************************************************)
(* Provider.kt: the way of a method call that arrives from the bus. A      *)
(* handler thread (the loop, or a thread whose blocking libubus call ends) *)
(* defers the request, hands it to providerWorker and tells the            *)
(* application; the application answers, from any thread and at any time,  *)
(* with rsp(reqId, payload).                                               *)
(*                                                                         *)
(* providerWorker is a Kotlin worker: it runs the jobs given to it one by  *)
(* one in the order they came. reqList lives on its thread only.           *)
(***************************************************************************)
EXTENDS Naturals, Sequences

CONSTANTS
  Requests,    \* the calls that arrive from the bus
  NoRequest,
  Handlers,    \* threads that run the method handler
  Responders,  \* application threads that call rsp
  BadPayloads  \* whether the application may pass text that is no JSON

ASSUME RequestsAssumption == NoRequest \notin Requests
ASSUME PayloadsAssumption == BadPayloads \in BOOLEAN

VARIABLES
  alive,       \* ctxAlive, driven by Registration
  counter,     \* provideCounter
  id,          \* ProviderRequest.reqId, 0 while there is none
  arena,       \* ProviderRequest.arena, the memory of the deferred request
  deferred,    \* ubus_request_data.deferred of the original request
  delivered,   \* requests the application has been told of
  replies,     \* ubus_send_reply calls that sent a reply, per request
  status,      \* statuses sent for a request, by Kotlin or by libubus
  hpc, hreq,   \* per handler: place and request
  jobs,        \* queue of providerWorker
  reqList,     \* the requests that wait for their answer
  taken,       \* requests a rsp has found (history)
  pc, arg, good, req \* per responder: place, reqId, payload is JSON, result

busVars  == <<deferred, replies, status>>
handVars == <<hpc, hreq, counter, id, delivered>>
listVars == <<jobs, reqList, taken>>
rspVars  == <<pc, arg, good, req>>
vars == <<alive, arena, busVars, handVars, listVars, rspVars>>

AddJob(r)  == [kind |-> "add", of |-> r]
TakeJob(t) == [kind |-> "take", of |-> t]

Jobs == [kind : {"add"}, of : Requests] \cup [kind : {"take"}, of : Responders]

HandlerPlaces == {"idle", "find", "defer", "enqueue", "deliver", "return"}

RspPlaces == {"idle", "execute", "future", "null", "parse", "reply", "complete",
              "clear"}

TypeOK ==
  /\ alive \in {0, 1}
  /\ counter \in Nat
  /\ id \in [Requests -> Nat]
  /\ arena \in [Requests -> {"none", "live", "cleared"}]
  /\ deferred \in [Requests -> BOOLEAN]
  /\ delivered \subseteq Requests
  /\ replies \in [Requests -> Nat]
  /\ status \in [Requests -> Nat]
  /\ hpc \in [Handlers -> HandlerPlaces]
  /\ hreq \in [Handlers -> Requests \cup {NoRequest}]
  /\ jobs \in Seq(Jobs)
  /\ reqList \subseteq Requests
  /\ taken \subseteq Requests
  /\ pc \in [Responders -> RspPlaces]
  /\ arg \in [Responders -> Nat]
  /\ good \in [Responders -> BOOLEAN]
  /\ req \in [Responders -> Requests \cup {NoRequest}]

Init ==
  /\ alive \in {0, 1}
  /\ counter = 0
  /\ id = [r \in Requests |-> 0]
  /\ arena = [r \in Requests |-> "none"]
  /\ deferred = [r \in Requests |-> FALSE]
  /\ delivered = {}
  /\ replies = [r \in Requests |-> 0]
  /\ status = [r \in Requests |-> 0]
  /\ hpc = [h \in Handlers |-> "idle"]
  /\ hreq = [h \in Handlers |-> NoRequest]
  /\ jobs = <<>>
  /\ reqList = {}
  /\ taken = {}
  /\ pc = [t \in Responders |-> "idle"]
  /\ arg = [t \in Responders |-> 0]
  /\ good = [t \in Responders |-> FALSE]
  /\ req = [t \in Responders |-> NoRequest]

-----------------------------------------------------------------------------
(* The method handler of a provider's object.                              *)

HGoto(h, p) == hpc' = [hpc EXCEPT ![h] = p]

\* libubus has received a call for one of our objects and runs the handler.
Arrive(h) ==
  /\ hpc[h] = "idle"
  /\ \E r \in Requests :
       /\ id[r] = 0 /\ status[r] = 0 /\ \A g \in Handlers : hreq[g] # r
       /\ hreq' = [hreq EXCEPT ![h] = r]
  /\ HGoto(h, "find")
  /\ UNCHANGED <<alive, arena, busVars, counter, id, delivered, listVars, rspVars>>

\* findProviderById fails when the Config does not list the object's id: the
\* handler completes the request at once, although it has not deferred it.
NoProvider(h) ==
  /\ hpc[h] = "find"
  /\ status' = [status EXCEPT ![hreq[h]] = @ + 1]
  /\ HGoto(h, "return")
  /\ UNCHANGED <<alive, arena, deferred, replies, hreq, counter, id, delivered,
                 listVars, rspVars>>

\* The ProviderRequest is made: an arena, and the next number.
MakeRequest(h) ==
  /\ hpc[h] = "find"
  /\ counter' = counter + 1
  /\ id' = [id EXCEPT ![hreq[h]] = counter + 1]
  /\ arena' = [arena EXCEPT ![hreq[h]] = "live"]
  /\ HGoto(h, "defer")
  /\ UNCHANGED <<alive, busVars, hreq, delivered, listVars, rspVars>>

\* Mutant of Defer: the copy is marked as deferred, the original is not.
DeferCopy(h) ==
  /\ hpc[h] = "defer"
  /\ HGoto(h, "enqueue")
  /\ UNCHANGED <<alive, arena, busVars, hreq, counter, id, delivered, listVars, rspVars>>

\* ubus_defer_request copies the request into the arena.
Defer(h) ==
  /\ hpc[h] = "defer"
  /\ deferred' = [deferred EXCEPT ![hreq[h]] = TRUE]
  /\ HGoto(h, "enqueue")
  /\ UNCHANGED <<alive, arena, replies, status, hreq, counter, id, delivered,
                 listVars, rspVars>>

\* Mutant of Enqueue: the application hears of the request before the job is given.
EnqueueLate(h) ==
  /\ hpc[h] = "enqueue"
  /\ IF hreq[h] \notin delivered
       THEN delivered' = delivered \cup {hreq[h]} /\ UNCHANGED <<jobs, hpc>>
       ELSE /\ jobs' = Append(jobs, AddJob(hreq[h]))
            /\ HGoto(h, "deliver")
            /\ UNCHANGED delivered
  /\ UNCHANGED <<alive, arena, busVars, hreq, counter, id, reqList, taken, rspVars>>

\* onInvoke, first half: the job that adds the request to reqList.
Enqueue(h) ==
  /\ hpc[h] = "enqueue"
  /\ jobs' = Append(jobs, AddJob(hreq[h]))
  /\ HGoto(h, "deliver")
  /\ UNCHANGED <<alive, arena, busVars, hreq, counter, id, delivered, reqList,
                 taken, rspVars>>

\* onInvoke, second half: onRequestArrive of the application.
Deliver(h) ==
  /\ hpc[h] = "deliver"
  /\ delivered' = delivered \cup {hreq[h]}
  /\ HGoto(h, "return")
  /\ UNCHANGED <<alive, arena, busVars, hreq, counter, id, listVars, rspVars>>

\* The handler returns 0 and libubus sends that status unless the request has
\* been deferred.
Return(h) ==
  /\ hpc[h] = "return"
  /\ status' = IF deferred[hreq[h]] THEN status
               ELSE [status EXCEPT ![hreq[h]] = @ + 1]
  /\ HGoto(h, "idle")
  /\ hreq' = [hreq EXCEPT ![h] = NoRequest]
  /\ UNCHANGED <<alive, arena, deferred, replies, counter, id, delivered,
                 listVars, rspVars>>

-----------------------------------------------------------------------------
(* providerWorker.                                                         *)

\* Mutant of RunAdd: the list gets the job, not the request.
RunAddJob ==
  /\ jobs # <<>> /\ Head(jobs).kind = "add"
  /\ reqList' = reqList \cup {Head(jobs)}
  /\ jobs' = Tail(jobs)
  /\ UNCHANGED <<alive, arena, busVars, handVars, taken, rspVars>>

RunAdd ==
  /\ jobs # <<>> /\ Head(jobs).kind = "add"
  /\ reqList' = reqList \cup {Head(jobs).of}
  /\ jobs' = Tail(jobs)
  /\ UNCHANGED <<alive, arena, busVars, handVars, taken, rspVars>>

\* Mutant of RunTake: the request found is left in the list.
RunTakeKeeps ==
  /\ jobs # <<>> /\ Head(jobs).kind = "take"
  /\ LET t == Head(jobs).of
         found == {r \in reqList : id[r] = arg[t]}
     IN  IF found = {}
           THEN /\ pc' = [pc EXCEPT ![t] = "null"]
                /\ UNCHANGED <<taken, req>>
           ELSE \E r \in found :
                  /\ taken' = taken \cup {r}
                  /\ req' = [req EXCEPT ![t] = r]
                  /\ pc' = [pc EXCEPT ![t] = "parse"]
  /\ jobs' = Tail(jobs)
  /\ UNCHANGED <<alive, arena, busVars, handVars, reqList, arg, good>>

\* The job of rsp: find the request of that number and remove it; the result
\* resolves the future the responder waits for.
RunTake ==
  /\ jobs # <<>> /\ Head(jobs).kind = "take"
  /\ LET t == Head(jobs).of
         found == {r \in reqList : id[r] = arg[t]}
     IN  IF found = {}
           THEN /\ pc' = [pc EXCEPT ![t] = "null"]
                /\ UNCHANGED <<reqList, taken, req>>
           ELSE \E r \in found :
                  /\ reqList' = reqList \ {r}
                  /\ taken' = taken \cup {r}
                  /\ req' = [req EXCEPT ![t] = r]
                  /\ pc' = [pc EXCEPT ![t] = "parse"]
  /\ jobs' = Tail(jobs)
  /\ UNCHANGED <<alive, arena, busVars, handVars, arg, good>>

-----------------------------------------------------------------------------
(* rsp, called by an application thread.                                   *)

Goto(t, p) == pc' = [pc EXCEPT ![t] = p]

\* Ubus.rsp: without a live context the call is dropped, else Provider.rsp runs.
Rsp(t) ==
  /\ pc[t] = "idle"
  /\ \E r \in delivered : arg' = [arg EXCEPT ![t] = id[r]]
  /\ good' \in {[good EXCEPT ![t] = g] : g \in (IF BadPayloads THEN BOOLEAN ELSE {TRUE})}
  /\ alive = 1
  /\ Goto(t, "execute")
  /\ UNCHANGED <<alive, arena, busVars, handVars, listVars, req>>

RspExecute(t) ==
  /\ pc[t] = "execute"
  /\ jobs' = Append(jobs, TakeJob(t))
  /\ Goto(t, "future")
  /\ UNCHANGED <<alive, arena, busVars, handVars, reqList, taken, arg, good, req>>

\* return of rsp, by any of its ways out
Finish(t) ==
  /\ Goto(t, "idle")
  /\ arg' = [arg EXCEPT ![t] = 0]
  /\ good' = [good EXCEPT ![t] = FALSE]
  /\ req' = [req EXCEPT ![t] = NoRequest]

RspNull(t) ==
  /\ pc[t] = "null"
  /\ Finish(t)
  /\ UNCHANGED <<alive, arena, busVars, handVars, listVars>>

\* A payload that is no JSON: error() is kotlin.error here and throws. The
\* request is in no list any more and keeps its arena.
RspParse(t) ==
  /\ pc[t] = "parse"
  /\ IF good[t] THEN Goto(t, "reply") /\ UNCHANGED <<arg, good, req>>
     ELSE Finish(t)
  /\ UNCHANGED <<alive, arena, busVars, handVars, listVars>>

\* Mutant of RspReply: the request is completed first.
RspReplyLate(t) ==
  /\ pc[t] = "reply"
  /\ IF status[req[t]] = 0
       THEN status' = [status EXCEPT ![req[t]] = 1] /\ UNCHANGED <<replies, pc>>
       ELSE /\ replies' = [replies EXCEPT ![req[t]] = @ + 1]
            /\ Goto(t, "clear")
            /\ UNCHANGED status
  /\ UNCHANGED <<alive, arena, deferred, handVars, listVars, arg, good, req>>

\* Mutant of RspReply: the arena is cleared as soon as the reply is out.
RspReplyClears(t) ==
  /\ pc[t] = "reply"
  /\ \/ replies' = [replies EXCEPT ![req[t]] = @ + 1]
     \/ UNCHANGED replies
  /\ arena' = [arena EXCEPT ![req[t]] = "cleared"]
  /\ Goto(t, "complete")
  /\ UNCHANGED <<alive, deferred, status, handVars, listVars, arg, good, req>>

\* Mutant of RspReply: rsp returns when the reply cannot be sent.
RspReplyGivesUp(t) ==
  /\ pc[t] = "reply"
  /\ \/ /\ replies' = [replies EXCEPT ![req[t]] = @ + 1]
        /\ Goto(t, "complete")
        /\ UNCHANGED <<arg, good, req>>
     \/ Finish(t) /\ UNCHANGED replies
  /\ UNCHANGED <<alive, arena, deferred, status, handVars, listVars>>

\* ubus_send_reply; an error, as when the connection is lost, is only logged.
RspReply(t) ==
  /\ pc[t] = "reply"
  /\ \/ replies' = [replies EXCEPT ![req[t]] = @ + 1]
     \/ UNCHANGED replies
  /\ Goto(t, "complete")
  /\ UNCHANGED <<alive, arena, deferred, status, handVars, listVars, arg, good, req>>

RspComplete(t) ==
  /\ pc[t] = "complete"
  /\ status' = [status EXCEPT ![req[t]] = @ + 1]
  /\ Goto(t, "clear")
  /\ UNCHANGED <<alive, arena, deferred, replies, handVars, listVars, arg, good, req>>

\* ProviderRequest.complete(). The reqList.remove that follows finds nothing:
\* it works on the list of the calling thread.
RspClear(t) ==
  /\ pc[t] = "clear"
  /\ arena' = [arena EXCEPT ![req[t]] = "cleared"]
  /\ Finish(t)
  /\ UNCHANGED <<alive, busVars, handVars, listVars>>

-----------------------------------------------------------------------------
\* ctxAlive, as seen from here.
AliveChanges ==
  /\ alive' = 1 - alive
  /\ UNCHANGED <<arena, busVars, handVars, listVars, rspVars>>

HandlerSteps(h) ==
  MakeRequest(h) \/ NoProvider(h) \/ Defer(h) \/ Enqueue(h) \/ Deliver(h) \/ Return(h)

WorkerSteps == RunAdd \/ RunTake

RspSteps(t) ==
  \/ RspExecute(t) \/ RspNull(t) \/ RspParse(t) \/ RspReply(t) \/ RspComplete(t)
  \/ RspClear(t)

Next ==
  \/ \E h \in Handlers : Arrive(h) \/ HandlerSteps(h)
  \/ WorkerSteps
  \/ \E t \in Responders : Rsp(t) \/ RspSteps(t)
  \/ AliveChanges

Spec == Init /\ [][Next]_vars

\* Every thread that has begun goes on, and the worker serves its queue. Nothing
\* makes a call arrive or the application answer it.
Fairness ==
  /\ \A h \in Handlers : WF_vars(HandlerSteps(h))
  /\ WF_vars(WorkerSteps)
  /\ \A t \in Responders : WF_vars(RspSteps(t))

FairSpec == Spec /\ Fairness

-----------------------------------------------------------------------------
(* Properties.                                                             *)

\* However many threads answer a request, and however often, the caller gets at
\* most one reply, and one status once the request is deferred: the find and the
\* remove of rsp are one job of providerWorker.
AtMostOneAnswer ==
  \A r \in Requests : replies[r] <= 1 /\ (deferred[r] => status[r] <= 1)

\* No thread passes the memory of a request to libubus, or clears it, after it
\* has been cleared.
NoUseAfterClear ==
  \A t \in Responders :
    pc[t] \in {"parse", "reply", "complete", "clear"} => arena[req[t]] = "live"

\* rsp(reqId) of a number the application was given fails to find the request
\* only when another rsp has found it: onInvoke gives the worker the job that
\* adds the request before it tells the application, so even an answer from
\* inside onRequestArrive comes after it in the queue.
NullMeansTaken ==
  \A t \in Responders : pc[t] = "null" => \E r \in taken : id[r] = arg[t]

\* A reply never follows the status of its request (the caller's libubus would
\* have forgotten the request).
NoReplyAfterStatus ==
  [][\A r \in Requests : replies'[r] # replies[r] => status[r] = 0]_vars

\* Being answered: a rsp of its number has begun, or one with good JSON has taken it.
Answering(r) ==
  \E t \in Responders :
    \/ pc[t] = "execute" /\ id[r] = arg[t] /\ r \in delivered \ taken
    \/ pc[t] = "parse" /\ good[t] /\ req[t] = r

\* A call that is being answered is completed, whether its reply could be sent or
\* not, unless an answer that is no JSON has taken it.
AnswerEnds ==
  \A r \in Requests :
    Answering(r) ~>
      (status[r] > 0 \/ \E t \in Responders : pc[t] = "parse" /\ ~good[t] /\ req[t] = r)

\* An answer in good JSON completes its request, whoever else answers it.
AnswerCompletes ==
  \A t \in Responders, r \in Requests :
    (pc[t] = "execute" /\ good[t] /\ r \in delivered /\ id[r] = arg[t])
      ~> (status[r] > 0)
=============================================================================

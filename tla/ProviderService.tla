-------------------------- MODULE ProviderService --------------------------
(***************************************************************************)
(* ProviderRequests as an implementation of CallService. A call is open    *)
(* from its number on, held from the job that takes it off reqList, and    *)
(* closed with its status.                                                 *)
(***************************************************************************)
EXTENDS ProviderRequests

HeldBy(r) == {t \in Responders : req[t] = r}

ServiceState(r) ==
  IF id[r] = 0 THEN (IF status[r] = 0 THEN "new" ELSE "refused")
  ELSE IF status[r] > 0 THEN "closed"
  ELSE IF r \notin taken THEN "open"
  ELSE IF replies[r] > 0 THEN "replied"
  ELSE IF HeldBy(r) = {} THEN "dropped" ELSE "held"

ServiceHolder(r) == IF status[r] = 0 THEN HeldBy(r) ELSE {}

Service ==
  INSTANCE CallService WITH state  <- [r \in Requests |-> ServiceState(r)],
                            holder <- [r \in Requests |-> ServiceHolder(r)]

\* Every step of the handlers, of providerWorker and of rsp is a step of the
\* abstract service or none at all: whatever order the threads come in, a call is
\* taken by one answer only, by a thread that has no other in hand, is replied to
\* at most once and then closed, and nothing touches it afterwards
\* (Provider.kt, handler, onInvoke and rsp).
ImplementsService == Service!Spec
=============================================================================

--------------------------- MODULE InvokerService ---------------------------
(***************************************************************************)
(* Invoker as an implementation of CallerService. A call is in the hands   *)
(* of its thread from its number on until it is linked or given back; it   *)
(* waits while libubus has it linked.                                      *)
(***************************************************************************)
EXTENDS Invoker

\* The request a thread has made and not let go of.
Hand(t) ==
  IF pc[t] \in {"parse", "send", "complete_async", "failed"} THEN num[t] ELSE 0

Held(n) == \E t \in Invokers : Hand(t) = n

\* Memory that nobody will give back is "lost".
CallState(n) ==
  CASE mem[n] = "none"                        -> "new"
    [] mem[n] = "cleared" /\ callbacks[n] > 0 -> "reported"
    [] mem[n] = "cleared" /\ callbacks[n] = 0 -> "given_back"
    [] mem[n] = "live" ->
         IF Held(n) THEN "held"
         ELSE IF n \in linked THEN "waiting" ELSE "lost"

States == [n \in Numbers |-> CallState(n)]

Hands == [t \in Invokers |-> Hand(t)]

Service ==
  INSTANCE CallerService
    WITH Calls   <- Numbers,
         NoCall  <- 0,
         Callers <- Invokers,
         Ids     <- 0..MaxIds,
         NoId    <- Uncached,
         Repeats <- ~ProperCallees,
         state   <- States,
         reports <- callbacks,
         hand    <- Hands,
         cache   <- idCache

\* Every step of the threads in invoke and lookup and of the callbacks is a step of
\* the abstract service or none at all: a call is reported only after its thread
\* has let go of it and never after that thread has given it back, its memory is
\* given back once, and the copying and storing of the cache's map comes to one
\* name being stored at a time (Invoker.kt invoke, lookup, data_cb, complete_cb).
ImplementsService == Service!Spec
=============================================================================

---------------------------- MODULE CallerService ----------------------------
(***************************************************************************)
(* What Invoker.kt promises of the calls it makes, whatever its threads    *)
(* and libubus's callbacks do. Every call is in the hands of one thread,   *)
(* which gives its memory back, leaves it to the callbacks, or loses it.   *)
(* A callback reports only calls that were left to it, and gives back what *)
(* it reports. The cache of ids is stored to one name at a time.           *)
(***************************************************************************)
EXTENDS Naturals

CONSTANTS
  Calls,
  NoCall,
  Callers,   \* threads
  Names,
  Ids,       \* what a lookup may give
  NoId,
  Repeats    \* a callee may send more than its one answer

VARIABLES
  state,     \* how far a call has come
  reports,   \* how often the application has heard of a call
  hand,      \* the call a thread has in hand
  cache      \* the id stored for each name

vars == <<state, reports, hand, cache>>

Init ==
  /\ state = [n \in Calls |-> "new"]
  /\ reports = [n \in Calls |-> 0]
  /\ hand = [t \in Callers |-> NoCall]
  /\ cache = [x \in Names |-> NoId]

Become(n, s) == state' = [state EXCEPT ![n] = s]

Open(t, n) ==
  /\ state[n] = "new" /\ hand[t] = NoCall
  /\ Become(n, "held")
  /\ hand' = [hand EXCEPT ![t] = n]
  /\ UNCHANGED <<reports, cache>>

LetGo(t, s) ==
  /\ hand[t] # NoCall
  /\ state[hand[t]] = "held"
  /\ Become(hand[t], s)
  /\ hand' = [hand EXCEPT ![t] = NoCall]
  /\ UNCHANGED <<reports, cache>>

\* Left to the callbacks.
Leave(t) == LetGo(t, "waiting")

\* It could not be sent: its memory is given back by the thread.
GiveBack(t) == LetGo(t, "given_back")

\* The thread throws; the memory of the call stays.
Forget(t) == LetGo(t, "lost")

Report(n) ==
  /\ state[n] = "waiting" \/ (Repeats /\ state[n] = "reported")
  /\ Become(n, "reported")
  /\ reports' = [reports EXCEPT ![n] = @ + 1]
  /\ UNCHANGED <<hand, cache>>

\* The end of the call comes and nobody is told.
Lose(n) ==
  /\ state[n] = "waiting"
  /\ Become(n, "lost")
  /\ UNCHANGED <<reports, hand, cache>>

Store(x, i) ==
  /\ cache' = [cache EXCEPT ![x] = i]
  /\ UNCHANGED <<state, reports, hand>>

Next ==
  \/ \E t \in Callers :
       (\E n \in Calls : Open(t, n)) \/ Leave(t) \/ GiveBack(t) \/ Forget(t)
  \/ \E n \in Calls : Report(n) \/ Lose(n)
  \/ \E x \in Names, i \in Ids : Store(x, i)

Spec == Init /\ [][Next]_vars
=============================================================================

---------------------------- MODULE CallService ----------------------------
(***************************************************************************)
(* What Provider.kt promises of a call, whatever its threads do: it is     *)
(* refused or gets a number; one responder at a time gets hold of it, and  *)
(* nobody after that one; the one that has it replies at most once, and    *)
(* closes it or drops it unanswered.                                       *)
(***************************************************************************)
CONSTANTS
  Requests,
  Responders

VARIABLES
  state,   \* how far a call has come
  holder   \* the responders that are answering it

vars == <<state, holder>>

States == {"new", "refused", "open", "held", "replied", "closed", "dropped"}

Init ==
  /\ state = [r \in Requests |-> "new"]
  /\ holder = [r \in Requests |-> {}]

Become(r, s) == state' = [state EXCEPT ![r] = s]

Release(r) == holder' = [holder EXCEPT ![r] = {}]

Refuse(r) == state[r] = "new" /\ Become(r, "refused") /\ UNCHANGED holder

Open(r) == state[r] = "new" /\ Become(r, "open") /\ UNCHANGED holder

\* An answer finds the call; its thread has no other in hand.
Take(r, t) ==
  /\ state[r] = "open"
  /\ \A q \in Requests : t \notin holder[q]
  /\ Become(r, "held")
  /\ holder' = [holder EXCEPT ![r] = {t}]

Reply(r) == state[r] = "held" /\ Become(r, "replied") /\ UNCHANGED holder

\* The status goes out, after the reply or, when that was not sent, without one.
Close(r) == state[r] \in {"held", "replied"} /\ Become(r, "closed") /\ Release(r)

\* The thread that has the call gives up before it has said anything.
Drop(r) == state[r] = "held" /\ Become(r, "dropped") /\ Release(r)

Next ==
  \E r \in Requests :
    \/ Refuse(r) \/ Open(r) \/ Reply(r) \/ Close(r) \/ Drop(r)
    \/ \E t \in Responders : Take(r, t)

Spec == Init /\ [][Next]_vars
=============================================================================

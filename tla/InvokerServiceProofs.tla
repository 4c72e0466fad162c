------------------------ MODULE InvokerServiceProofs ------------------------
(***************************************************************************)
(* Invoker implements CallerService, for any sets of names and threads,    *)
(* any bounds, callees that answer as they like, and a libubus that clears *)
(* the request it is given or does not.                                    *)
(***************************************************************************)
EXTENDS InvokerService, InvokerProofs

-----------------------------------------------------------------------------
(* The life of a request: untouched until it is made, live and unreported  *)
(* in the hands of one thread, live until reported while it is linked.     *)

MadeInv ==
  \A n \in Numbers :
    n > reqCounter => mem[n] = "none" /\ callbacks[n] = 0 /\ n \notin linked

HandInv ==
  \A t \in Invokers : Hand(t) # 0 =>
    /\ mem[Hand(t)] = "live" /\ callbacks[Hand(t)] = 0 /\ Hand(t) \notin linked
    /\ \A u \in Invokers : Hand(u) = Hand(t) => u = t

ReportInv ==
  \A n \in Numbers :
    /\ callbacks[n] > 0 => mem[n] = "cleared"
    /\ n \in linked => mem[n] = "live" \/ callbacks[n] > 0
    /\ ProperCallees /\ n \in linked /\ data[n] = 0 => callbacks[n] = 0

LifeInv == MadeInv /\ HandInv /\ ReportInv

LEMMA LifeInit == Init => LifeInv
  BY BoundsAssumption
  DEF Init, LifeInv, MadeInv, HandInv, ReportInv, Hand, Numbers

\* A thread has a request in hand at four places, and it is one that has been made.
LEMMA HandMade ==
  ASSUME TypeInv, NEW t \in Invokers
  PROVE  /\ Hand(t) # 0 <=> pc[t] \in Having
         /\ Hand(t) # 0 => Hand(t) = num[t] /\ Hand(t) \in Numbers /\ Hand(t) <= reqCounter
<1>1. reqCounter \in Nat
  BY DEF TypeInv, TypeOK
<1>2. CASE pc[t] \in Having
  BY <1>1, <1>2, HasRequest DEF Hand, Having
<1>3. CASE pc[t] \notin Having
  BY <1>3 DEF Hand, Having
<1> QED BY <1>2, <1>3

-----------------------------------------------------------------------------
(* What the actions do to requests and to the hands they are in.           *)

\* Only t's hand changes: it takes n, or lets go with 0.
Takes(t, n) == \A u \in Invokers : Hand(u)' = IF u = t THEN n ELSE Hand(u)

Kept == UNCHANGED <<reqCounter, mem, callbacks, linked, data>>
        /\ \A u \in Invokers : Hand(u)' = Hand(u)

Opened(t) ==
  /\ Hand(t) = 0 /\ reqCounter + 1 \in Numbers
  /\ reqCounter' = reqCounter + 1
  /\ mem' = [mem EXCEPT ![reqCounter + 1] = "live"]
  /\ Takes(t, reqCounter + 1)
  /\ UNCHANGED <<callbacks, linked, data>>

Emptied(t) ==
  /\ Hand(t) # 0 /\ Takes(t, 0)
  /\ UNCHANGED <<reqCounter, callbacks, data>>
  /\ \/ mem' = mem /\ linked' = linked \cup {Hand(t)}
     \/ mem' = [mem EXCEPT ![Hand(t)] = "cleared"] /\ UNCHANGED linked
     \/ UNCHANGED <<mem, linked>>

\* A message reports a request that is linked; with proper callees, only once.
Reported(n) ==
  /\ n \in linked
  /\ callbacks' = [callbacks EXCEPT ![n] = @ + 1]
  /\ mem' = [mem EXCEPT ![n] = "cleared"]
  /\ ProperCallees => callbacks[n] = 0

Received(n) ==
  /\ UNCHANGED reqCounter /\ \A u \in Invokers : Hand(u)' = Hand(u)
  /\ Reported(n) \/ UNCHANGED <<callbacks, mem>>
  /\ \/ linked' \in {linked, linked \ {n}} /\ UNCHANGED data
     \/ UNCHANGED linked /\ data' = [data EXCEPT ![n] = @ + 1]
  /\ callbacks' = callbacks \/ linked' = linked \ {n} \/ data'[n] > 0

Effects ==
  \/ Kept
  \/ \E t \in Invokers : Opened(t) \/ Emptied(t)
  \/ \E n \in Numbers : Received(n)

LEMMA FinishEmpties ==
  ASSUME TypeInv, NEW t \in Invokers, Finish(t)
  PROVE  Takes(t, 0)
  BY DEF Finish, Goto, Takes, Hand, TypeInv, TypeOK

\* A message that comes for a request.
LEMMA MessageEffects ==
  ASSUME TypeInv, LifeInv, NEW n \in Numbers, ReceiveData(n) \/ ReceiveStatus(n)
  PROVE  Received(n)
<1>1. UNCHANGED <<reqCounter, pc, num>>
  BY DEF ReceiveData, ReceiveStatus, callVars
<1>2. \A u \in Invokers : Hand(u)' = Hand(u)
  BY <1>1 DEF Hand
<1>3. data[n] \in Nat /\ data \in [Numbers -> Nat] /\ callbacks \in [Numbers -> Nat]
  BY DEF TypeInv, TypeOK
<1>4. CASE ReceiveData(n)
  <2>1. /\ data' = [data EXCEPT ![n] = @ + 1] /\ UNCHANGED linked
        /\ ProperCallees => data[n] = 0
    BY <1>3, <1>4 DEF ReceiveData
  <2>2. data'[n] > 0
    BY <1>3, <2>1
  <2>3. UNCHANGED <<callbacks, mem>> \/ Reported(n)
    BY <1>4, <2>1 DEF ReceiveData, DataCb, Reported, LifeInv, ReportInv
  <2> QED BY <1>1, <1>2, <2>1, <2>2, <2>3 DEF Received
<1>5. CASE ReceiveStatus(n)
  <2>1. UNCHANGED data
    BY <1>5 DEF ReceiveStatus
  <2>2. PICK failed \in BOOLEAN :
          /\ ProperCallees => (failed <=> data[n] = 0)
          /\ IF n \in linked
               THEN CompleteCb(n, failed) /\ linked' = linked \ {n} /\ UNCHANGED missed
               ELSE missed' = missed \cup {n} /\ UNCHANGED <<callbacks, mem, linked>>
    BY <1>5 DEF ReceiveStatus
  <2>3. CASE n \in linked
    <3>1. UNCHANGED <<callbacks, mem>> \/ Reported(n)
      BY <2>2, <2>3 DEF CompleteCb, Reported, LifeInv, ReportInv
    <3> QED BY <1>1, <1>2, <2>1, <2>2, <2>3, <3>1 DEF Received
  <2>4. CASE n \notin linked
    BY <1>1, <1>2, <2>1, <2>2, <2>4 DEF Received
  <2> QED BY <2>3, <2>4
<1> QED BY <1>4, <1>5

\* What any step does.
LEMMA StepEffects == TypeInv /\ LifeInv /\ [Next]_vars => Effects
<1> SUFFICES ASSUME TypeInv, LifeInv, [Next]_vars PROVE Effects
  OBVIOUS
<1> USE DEF appVars, cbVars, callVars, busVars, reqVars
<1>1. ASSUME NEW t \in Invokers,
             \/ Invoke(t) \/ ReadCache(t) \/ LookupId(t) \/ ReadMap(t)
             \/ CompareAndSet(t) \/ CheckId(t)
      PROVE  Kept
  <2>1. UNCHANGED <<mem, callbacks, reqCounter, num, linked, data>>
    BY <1>1 DEF Invoke, ReadCache, LookupId, ReadMap, CompareAndSet, CheckId
  <2>2. \A u \in Invokers : pc'[u] = pc[u] \/ (pc[u] \notin Having /\ pc'[u] \notin Having)
    BY <1>1 DEF Invoke, ReadCache, LookupId, ReadMap, CompareAndSet, CheckId, Goto,
                Having, TypeInv, TypeOK
  <2> QED BY <2>1, <2>2 DEF Kept, Hand, Having
<1>2. ASSUME NEW t \in Invokers, Refuse(t) PROVE Kept
  <2>1. Hand(t) = 0 /\ Takes(t, 0)
    BY <1>2, FinishEmpties DEF Refuse, Hand
  <2> QED BY <1>2, <2>1 DEF Refuse, Kept, Takes
<1>3. ASSUME NEW t \in Invokers, MakeRequest(t) PROVE Opened(t)
  <2>1. reqCounter + 1 \in Numbers
    BY <1>3, BoundsAssumption DEF MakeRequest, Numbers, TypeInv, TypeOK
  <2>2. Hand(t) = 0 /\ Takes(t, reqCounter + 1)
    BY <1>3 DEF MakeRequest, Goto, Hand, Takes, TypeInv, TypeOK
  <2> QED BY <1>3, <2>1, <2>2 DEF MakeRequest, Opened
<1>4. ASSUME NEW t \in Invokers, Parse(t) PROVE Kept \/ Emptied(t)
  <2>1. UNCHANGED <<mem, callbacks, reqCounter, linked, data>> /\ pc[t] = "parse"
    BY <1>4 DEF Parse
  <2>2. CASE Finish(t)
    BY <2>1, <2>2, FinishEmpties, HandMade DEF Emptied, Having
  <2>3. CASE Goto(t, "send") /\ UNCHANGED num
    <3>1. \A u \in Invokers : Hand(u)' = Hand(u)
      BY <2>1, <2>3 DEF Goto, Hand, TypeInv, TypeOK
    <3> QED BY <2>1, <3>1 DEF Kept
  <2> QED BY <1>4, <2>2, <2>3 DEF Parse
<1>5. ASSUME NEW t \in Invokers, InvokeAsync(t) PROVE Kept
  <2>1. \A u \in Invokers : Hand(u)' = Hand(u)
    BY <1>5 DEF InvokeAsync, Goto, Hand, TypeInv, TypeOK
  <2> QED BY <1>5, <2>1 DEF InvokeAsync, Kept
<1>6. ASSUME NEW t \in Invokers, CompleteRequestAsync(t) PROVE Emptied(t)
  <2>1. Hand(t) # 0 /\ Hand(t) = num[t]
    BY <1>6, HandMade DEF CompleteRequestAsync, Having
  <2> QED BY <1>6, <2>1, FinishEmpties DEF CompleteRequestAsync, Emptied
<1>7. ASSUME NEW t \in Invokers, InvokeFailed(t) PROVE Emptied(t)
  <2>1. Hand(t) # 0 /\ Hand(t) = num[t]
    BY <1>7, HandMade DEF InvokeFailed, Having
  <2>2. Takes(t, 0)
    <3>1. CASE first[t]
      BY <1>7, <3>1 DEF InvokeFailed, Goto, Takes, Hand, TypeInv, TypeOK
    <3> QED BY <1>7, <3>1, FinishEmpties DEF InvokeFailed
  <2> QED BY <1>7, <2>1, <2>2 DEF InvokeFailed, Emptied
<1>7a. ASSUME NEW t \in Invokers, InvokeThrows(t) PROVE Emptied(t)
  <2>1. Hand(t) # 0
    BY <1>7a, HandMade DEF InvokeThrows, Having
  <2> QED BY <1>7a, <2>1, FinishEmpties DEF InvokeThrows, Emptied
<1>8. ASSUME NEW n \in Numbers, ReceiveData(n) \/ ReceiveStatus(n) PROVE Received(n)
  BY <1>8, MessageEffects
<1>9. ASSUME NEW n \in Names, Join(n) \/ Part(n) PROVE Kept
  BY <1>9 DEF Join, Part, Kept, Hand
<1>10. ASSUME Drop \/ LossSeen \/ Reconnect \/ UNCHANGED vars PROVE Kept
  BY <1>10 DEF Drop, LossSeen, Reconnect, vars, Kept, Hand
<1>11. ASSUME NEW t \in Invokers, Kept \/ Opened(t) \/ Emptied(t) PROVE Effects
  BY <1>11 DEF Effects
<1>12. ASSUME NEW n \in Numbers, Received(n) PROVE Effects
  BY <1>12 DEF Effects
<1>13. Kept => Effects
  BY DEF Effects
<1> QED BY <1>1, <1>2, <1>3, <1>4, <1>5, <1>6, <1>7, <1>8, <1>9, <1>10, <1>11, <1>12,
           <1>13, <1>7a DEF Next

\* A step of any action keeps LifeInv.
LEMMA LifeNext == TypeInv /\ LifeInv /\ [Next]_vars => LifeInv'
<1> SUFFICES ASSUME TypeInv, LifeInv, Effects PROVE LifeInv'
  BY StepEffects
<1>0. /\ reqCounter \in Nat /\ mem \in [Numbers -> {"none", "live", "cleared"}]
      /\ callbacks \in [Numbers -> Nat] /\ data \in [Numbers -> Nat]
  BY DEF TypeInv, TypeOK
<1>1. \A t \in Invokers : Hand(t) # 0 => Hand(t) \in Numbers /\ Hand(t) <= reqCounter
  BY HandMade
<1>2. \A n \in Numbers : n \in Nat
  BY DEF Numbers
<1>3. CASE Kept
  BY <1>3 DEF Kept, LifeInv, MadeInv, HandInv, ReportInv
<1>4. ASSUME NEW t \in Invokers, Opened(t) PROVE LifeInv'
  <2>1. /\ callbacks[reqCounter + 1] = 0 /\ reqCounter + 1 \notin linked
        /\ mem[reqCounter + 1] = "none"
    BY <1>0, <1>4 DEF Opened, LifeInv, MadeInv
  <2>2. MadeInv'
    BY <1>0, <1>2, <1>4 DEF Opened, LifeInv, MadeInv
  <2>3. HandInv'
    <3>1. ASSUME NEW u \in Invokers, u # t, Hand(u) # 0
          PROVE  Hand(u) # reqCounter + 1 /\ mem'[Hand(u)] = mem[Hand(u)]
      BY <1>0, <1>1, <1>4, <3>1 DEF Opened
    <3>2. mem'[reqCounter + 1] = "live"
      BY <1>0, <1>4 DEF Opened
    <3> QED BY <1>4, <2>1, <3>1, <3>2 DEF Opened, Takes, LifeInv, HandInv
  <2>4. ReportInv'
    BY <1>0, <1>4, <2>1 DEF Opened, LifeInv, ReportInv
  <2> QED BY <2>2, <2>3, <2>4 DEF LifeInv
<1>5. ASSUME NEW t \in Invokers, Emptied(t) PROVE LifeInv'
  <2>1. /\ Hand(t) \in Numbers /\ ~(Hand(t) > reqCounter) /\ Hand(t) \notin linked
        /\ mem[Hand(t)] = "live" /\ callbacks[Hand(t)] = 0
    BY <1>0, <1>1, <1>2, <1>5 DEF Emptied, LifeInv, HandInv
  <2>2. MadeInv'
    BY <1>0, <1>5, <2>1 DEF Emptied, LifeInv, MadeInv
  <2>3. HandInv'
    <3>1. ASSUME NEW u \in Invokers, u # t, Hand(u) # 0
          PROVE  Hand(u) # Hand(t) /\ Hand(u) \in Numbers
      BY <1>1, <1>5, <3>1 DEF Emptied, LifeInv, HandInv
    <3> QED BY <1>0, <1>5, <3>1 DEF Emptied, Takes, LifeInv, HandInv
  <2>4. ReportInv'
    BY <1>0, <1>5, <2>1 DEF Emptied, LifeInv, ReportInv
  <2> QED BY <2>2, <2>3, <2>4 DEF LifeInv
<1>6. ASSUME NEW n \in Numbers, Received(n) PROVE LifeInv'
  <2>1. linked' \subseteq linked
    BY <1>6 DEF Received
  <2>2. MadeInv'
    BY <1>0, <1>6, <2>1 DEF Received, Reported, LifeInv, MadeInv
  <2>3. HandInv'
    BY <1>0, <1>1, <1>6, <2>1 DEF Received, Reported, LifeInv, HandInv
  <2>4. ReportInv'
    BY <1>0, <1>6, <2>1 DEF Received, Reported, LifeInv, ReportInv
  <2> QED BY <2>2, <2>3, <2>4 DEF LifeInv
<1> QED BY <1>3, <1>4, <1>5, <1>6 DEF Effects

-----------------------------------------------------------------------------
(* The refinement.                                                         *)

LEMMA ServiceInit == Init => Service!Init
<1> SUFFICES ASSUME Init PROVE Service!Init
  OBVIOUS
<1>1. States = [n \in Numbers |-> "new"]
  BY DEF Init, States, CallState
<1>2. Hands = [t \in Invokers |-> 0]
  BY DEF Init, Hands, Hand
<1> QED BY <1>1, <1>2 DEF Init, Service!Init, Nothing

\* Only request n moves when the others keep memory, callbacks, holder and list.
LEMMA OneMoves ==
  ASSUME NEW n \in Numbers,
         \A m \in Numbers : m # n =>
           /\ mem'[m] = mem[m] /\ callbacks'[m] = callbacks[m]
           /\ Held(m)' = Held(m) /\ (m \in linked' <=> m \in linked)
  PROVE  States' = [States EXCEPT ![n] = CallState(n)']
<1>1. ASSUME NEW m \in Numbers, m # n PROVE CallState(m)' = CallState(m)
  BY <1>1 DEF CallState
<1> QED BY <1>1 DEF States

\* Nothing moves when nothing happens to requests and hands.
LEMMA NoneMoves == Kept => UNCHANGED <<States, callbacks, Hands>>
<1> SUFFICES ASSUME Kept PROVE UNCHANGED <<States, callbacks, Hands>>
  OBVIOUS
<1>1. \A n \in Numbers : Held(n)' = Held(n)
  BY DEF Kept, Held
<1>2. \A n \in Numbers : CallState(n)' = CallState(n)
  BY <1>1 DEF Kept, CallState
<1> QED BY <1>2 DEF Kept, States, Hands

MapInv == TypeInv /\ SameInv /\ LifeInv

\* The cache changes at one name, in a step that touches no request.
LEMMA CacheSteps ==
  ASSUME TypeInv, SameInv, LifeInv, [Next]_vars, idCache' # idCache
  PROVE  /\ Kept
         /\ \E x \in Names, i \in 0..MaxIds : idCache' = [idCache EXCEPT ![x] = i]
<1> USE DEF appVars, cbVars, callVars, busVars, reqVars
<1>1. PICK t \in Invokers : CompareAndSet(t)
  <2>1. ASSUME NEW t \in Invokers,
               \/ Invoke(t) \/ ReadCache(t) \/ LookupId(t) \/ ReadMap(t) \/ CheckId(t)
               \/ Refuse(t) \/ MakeRequest(t) \/ Parse(t) \/ InvokeAsync(t)
               \/ CompleteRequestAsync(t) \/ InvokeFailed(t) \/ InvokeThrows(t)
        PROVE  FALSE
    BY <2>1 DEF Invoke, ReadCache, LookupId, ReadMap, CheckId, Refuse, MakeRequest, Parse,
                InvokeAsync, CompleteRequestAsync, InvokeFailed, InvokeThrows
  <2>2. ASSUME NEW n \in Numbers, ReceiveData(n) \/ ReceiveStatus(n) PROVE FALSE
    BY <2>2 DEF ReceiveData, ReceiveStatus
  <2>3. ASSUME NEW n \in Names, Join(n) \/ Part(n) PROVE FALSE
    BY <2>3 DEF Join, Part
  <2>4. ~(Drop \/ LossSeen \/ Reconnect \/ UNCHANGED vars)
    BY DEF Drop, LossSeen, Reconnect, vars
  <2> QED BY <2>1, <2>2, <2>3, <2>4 DEF Next
<1>2. idCache' = [idCache EXCEPT ![name[t]] = got[t]]
  BY <1>1 DEF CompareAndSet, SameInv
<1>3. name[t] \in Names /\ got[t] \in 0..MaxIds
  BY <1>1 DEF CompareAndSet, TypeInv, TypeOK, PlaceInv
<1>4. Kept
  <2>1. \A u \in Invokers : Hand(u)' = Hand(u)
    BY <1>1 DEF CompareAndSet, Goto, Hand, TypeInv, TypeOK
  <2> QED BY <1>1, <2>1 DEF CompareAndSet, Kept
<1> QED BY <1>2, <1>3, <1>4

\* A step of any action maps to a step of the service or to none.
LEMMA ServiceNext == MapInv /\ MapInv' /\ [Next]_vars => [Service!Next]_(Service!vars)
<1> SUFFICES ASSUME MapInv, MapInv', [Next]_vars
             PROVE  Service!Next \/ UNCHANGED <<States, callbacks, Hands, idCache>>
  BY DEF Service!vars
<1> USE DEF MapInv
<1>0. /\ mem \in [Numbers -> {"none", "live", "cleared"}] /\ callbacks \in [Numbers -> Nat]
      /\ reqCounter \in Nat
  BY DEF TypeInv, TypeOK
<1>1. \A t \in Invokers : Hand(t) # 0 => Hand(t) \in Numbers /\ Hand(t) <= reqCounter
  BY HandMade
<1>2. \A n \in Numbers : n \in Nat /\ n # 0
  BY DEF Numbers
<1>3. CASE idCache' # idCache
  BY <1>3, CacheSteps, NoneMoves DEF Service!Next, Service!Store
<1>4. CASE idCache' = idCache /\ Kept
  BY <1>4, NoneMoves
<1>5. ASSUME idCache' = idCache, NEW t \in Invokers, Opened(t) PROVE Service!Next
  <2>0. PICK n \in Numbers : n = reqCounter + 1
    BY <1>5 DEF Opened
  <2>1. mem[n] = "none" /\ mem' = [mem EXCEPT ![n] = "live"] /\ mem'[n] = "live"
    BY <1>0, <1>5, <2>0 DEF Opened, LifeInv, MadeInv
  <2>2. Held(n)'
    BY <1>5, <2>0 DEF Opened, Takes, Held
  <2>3. ASSUME NEW m \in Numbers, m # n PROVE Held(m)' = Held(m)
    BY <1>2, <1>5, <2>0, <2>3 DEF Opened, Takes, Held
  <2>4. States' = [States EXCEPT ![n] = "held"] /\ States[n] = "new"
    <3>1. CallState(n)' = "held" /\ CallState(n) = "new"
      BY <2>1, <2>2 DEF CallState
    <3>2. States' = [States EXCEPT ![n] = CallState(n)']
      BY <1>0, <1>5, <2>1, <2>3, OneMoves DEF Opened
    <3> QED BY <2>1, <3>1, <3>2 DEF States
  <2>5. Hands' = [Hands EXCEPT ![t] = n] /\ Hands[t] = 0
    BY <1>5, <2>0 DEF Opened, Takes, Hands
  <2> QED BY <1>5, <2>4, <2>5
      DEF Opened, Service!Next, Service!Open, Service!Become
<1>6. ASSUME idCache' = idCache, NEW t \in Invokers, Emptied(t) PROVE Service!Next
  <2>0. PICK n \in Numbers : n = Hand(t)
    BY <1>1, <1>6 DEF Emptied
  <2>1. /\ mem[n] = "live" /\ callbacks[n] = 0 /\ n \notin linked
        /\ \A u \in Invokers : Hand(u) = n => u = t
    BY <1>6, <2>0 DEF Emptied, LifeInv, HandInv
  <2>2. Held(n) /\ ~Held(n)'
    BY <1>2, <1>6, <2>0, <2>1 DEF Emptied, Takes, Held
  <2>3. ASSUME NEW m \in Numbers, m # n PROVE Held(m)' = Held(m)
    BY <1>2, <1>6, <2>0, <2>3 DEF Emptied, Takes, Held
  <2>4. States' = [States EXCEPT ![n] = CallState(n)'] /\ States[n] = "held"
    <3>1. CallState(n) = "held"
      BY <2>1, <2>2 DEF CallState
    <3>2. States' = [States EXCEPT ![n] = CallState(n)']
      BY <1>0, <1>6, <2>0, <2>3, OneMoves DEF Emptied
    <3> QED BY <2>1, <3>1, <3>2 DEF States
  <2>5. CallState(n)' \in {"waiting", "given_back", "lost"}
    BY <1>0, <1>6, <2>0, <2>1, <2>2 DEF Emptied, CallState
  <2>6. Hands' = [Hands EXCEPT ![t] = 0] /\ Hands[t] = n /\ n # 0
    BY <1>2, <1>6, <2>0 DEF Emptied, Takes, Hands
  <2> QED BY <1>6, <2>4, <2>5, <2>6
      DEF Emptied, Service!Next, Service!Leave, Service!GiveBack, Service!Forget,
          Service!LetGo, Service!Become
<1>7. ASSUME idCache' = idCache, NEW n \in Numbers, Received(n)
      PROVE  Service!Next \/ UNCHANGED <<States, callbacks, Hands, idCache>>
  <2>1. Hands' = Hands /\ \A m \in Numbers : Held(m)' = Held(m)
    BY <1>7 DEF Received, Hands, Held
  <2>2. /\ linked' \in {linked, linked \ {n}}
        /\ Reported(n) \/ UNCHANGED <<callbacks, mem>>
    BY <1>7 DEF Received
  <2>3. States' = [States EXCEPT ![n] = CallState(n)'] /\ States[n] = CallState(n)
    <3>1. States' = [States EXCEPT ![n] = CallState(n)']
      BY <1>0, <2>1, <2>2, OneMoves DEF Reported
    <3> QED BY <3>1 DEF States
  <2>4. n \in linked => ~Held(n)
    BY <1>2 DEF Held, LifeInv, HandInv
  <2>5. CASE Reported(n)
    <3>1. /\ n \in linked /\ callbacks' = [callbacks EXCEPT ![n] = callbacks[n] + 1]
          /\ mem'[n] = "cleared" /\ callbacks'[n] > 0
          /\ ProperCallees => callbacks[n] = 0
      BY <1>0, <2>5 DEF Reported
    <3>2. CallState(n)' = "reported"
      BY <3>1 DEF CallState
    <3>3. CallState(n) = "waiting" \/ (~ProperCallees /\ CallState(n) = "reported")
      BY <1>0, <2>4, <3>1 DEF CallState, LifeInv, ReportInv
    <3> QED BY <1>7, <2>1, <2>3, <3>1, <3>2, <3>3
        DEF Service!Next, Service!Report, Service!Become
  <2>6. CASE UNCHANGED <<callbacks, mem>>
    <3>1. CASE CallState(n)' = CallState(n)
      <4>1. States' = States
        BY <2>3, <3>1 DEF States
      <4> QED BY <1>7, <2>1, <2>6, <4>1
    <3>2. CASE CallState(n)' # CallState(n)
      <4>1. CallState(n) = "waiting" /\ CallState(n)' = "lost"
        BY <1>0, <2>1, <2>2, <2>4, <2>6, <3>2 DEF CallState, LifeInv, ReportInv
      <4> QED BY <1>7, <2>1, <2>3, <2>6, <4>1
          DEF Service!Next, Service!Lose, Service!Become
    <3> QED BY <3>1, <3>2
  <2> QED BY <2>2, <2>5, <2>6
<1> QED BY <1>3, <1>4, <1>5, <1>6, <1>7, StepEffects DEF Effects

\* For any number of names, threads and requests, and whatever callees answer, the
\* calls of Invoker.kt come to the ones of CallerService: see ImplementsService.
THEOREM Implements == Spec => ImplementsService
<1>1. Init => MapInv
  BY TypeInit, SameInit, LifeInit DEF MapInv
<1>2. MapInv /\ [Next]_vars => MapInv'
  BY TypeNext, SameNext, LifeNext DEF MapInv
<1> QED BY <1>1, <1>2, ServiceInit, ServiceNext, PTL
    DEF Spec, ImplementsService, Service!Spec

-----------------------------------------------------------------------------
(* What the abstract service says by itself: a call counts as reported     *)
(* from its first report on, and without callees that repeat themselves    *)
(* there is no second one.                                                 *)

OnceInv ==
  /\ callbacks \in [Numbers -> Nat]
  /\ \A n \in Numbers :
       /\ callbacks[n] > 0 <=> States[n] = "reported"
       /\ ProperCallees => callbacks[n] <= 1

LEMMA OnceInit == Service!Init => OnceInv
  BY DEF Service!Init, OnceInv

LEMMA OnceNext == OnceInv /\ [Service!Next]_(Service!vars) => OnceInv'
<1> SUFFICES ASSUME OnceInv, [Service!Next]_(Service!vars) PROVE OnceInv'
  OBVIOUS
<1>0. DOMAIN States = Numbers
  BY DEF States
<1>1. ASSUME NEW n \in Numbers, NEW s, Service!Become(n, s), States[n] # "reported",
             s # "reported", UNCHANGED callbacks
      PROVE  OnceInv'
  BY <1>0, <1>1 DEF Service!Become, OnceInv
<1>2. ASSUME NEW t \in Invokers, NEW n \in Numbers, Service!Open(t, n) PROVE OnceInv'
  BY <1>1, <1>2 DEF Service!Open
<1>3. ASSUME NEW t \in Invokers, NEW s \in {"waiting", "given_back", "lost"},
             Service!LetGo(t, s)
      PROVE  OnceInv'
  <2>1. /\ Service!Become(Hands[t], s) /\ States[Hands[t]] = "held"
        /\ UNCHANGED callbacks
    BY <1>3 DEF Service!LetGo
  <2>2. CASE Hands[t] \in Numbers
    BY <1>1, <2>1, <2>2
  <2>3. CASE Hands[t] \notin Numbers
    <3>1. \A n \in Numbers : States'[n] = States[n]
      BY <1>0, <2>1, <2>3 DEF Service!Become
    <3> QED BY <2>1, <3>1 DEF OnceInv
  <2> QED BY <2>2, <2>3
<1>4. ASSUME NEW n \in Numbers, Service!Report(n) PROVE OnceInv'
  <2>1. /\ callbacks' = [callbacks EXCEPT ![n] = callbacks[n] + 1]
        /\ \A m \in Numbers : States'[m] = IF m = n THEN "reported" ELSE States[m]
        /\ ProperCallees => States[n] = "waiting"
    BY <1>0, <1>4 DEF Service!Report, Service!Become
  <2>2. /\ callbacks \in [Numbers -> Nat]
        /\ States[n] = "waiting" => callbacks[n] = 0
    BY DEF OnceInv
  <2> QED BY <2>1, <2>2 DEF OnceInv
<1>5. ASSUME NEW n \in Numbers, Service!Lose(n) PROVE OnceInv'
  BY <1>1, <1>5 DEF Service!Lose
<1>6. CASE UNCHANGED <<States, callbacks>>
  BY <1>6 DEF OnceInv
<1> QED BY <1>2, <1>3, <1>4, <1>5, <1>6
        DEF Service!Next, Service!Leave, Service!GiveBack, Service!Forget, Service!Store,
            Service!vars

ReportedOnce == \A n \in Numbers : ProperCallees => callbacks[n] <= 1

\* Every call is reported once at most when callees answer once, whatever
\* ubus_invoke_async does to the request it is given, and however the callbacks meet
\* the threads (Invoker.kt data_cb, complete_cb).
THEOREM ReportsOnce == Spec => []ReportedOnce
<1>1. OnceInv => ReportedOnce
  BY DEF OnceInv, ReportedOnce
<1> QED BY <1>1, Implements, OnceInit, OnceNext, PTL DEF ImplementsService, Service!Spec
=============================================================================

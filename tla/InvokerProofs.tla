--------------------------- MODULE InvokerProofs ---------------------------
(***************************************************************************)
(* Proofs about Invoker, for any sets of names and threads and any bounds. *)
(***************************************************************************)
EXTENDS Invoker, TLAPS

-----------------------------------------------------------------------------
(* Types. A call knows its object, and its request while it has one.       *)

\* Places at which a thread has a request in hand.
Having == {"parse", "send", "complete_async", "failed"}

PlaceInv ==
  \A t \in Invokers :
    /\ pc[t] # "idle" => name[t] \in Names
    /\ pc[t] \in Having => num[t] \in 1..reqCounter

TypeInv == TypeOK /\ PlaceInv

LEMMA TypeInit == Init => TypeInv
<1> SUFFICES ASSUME Init PROVE TypeInv
  OBVIOUS
<1>1. Uncached \in 0..Uncached /\ 0 \in 0..MaxIds /\ 0 \in 0..MaxRequests /\ 0 \in 0..MaxDrops
  BY BoundsAssumption DEF Uncached
<1>2. Nothing \in [Names -> 0..Uncached]
  BY <1>1 DEF Nothing
<1>3. TypeOK
  BY <1>1, <1>2 DEF Init, TypeOK, Places
<1>4. PlaceInv
  BY DEF Init, PlaceInv, Having
<1> QED BY <1>3, <1>4 DEF TypeInv

\* A thread has a request that has been made.
LEMMA HasRequest ==
  ASSUME TypeInv, NEW t \in Invokers, pc[t] \in Having
  PROVE  num[t] \in Numbers /\ num[t] \in 1..reqCounter
<1>1. num[t] \in 1..reqCounter /\ reqCounter \in 0..MaxRequests
  BY DEF TypeInv, TypeOK, PlaceInv
<1> QED BY <1>1, BoundsAssumption DEF Numbers

\* The end of invoke leaves its thread with nothing, and keeps the types.
LEMMA FinishTypes ==
  ASSUME TypeInv, NEW t \in Invokers, Finish(t)
  PROVE  /\ pc' \in [Invokers -> Places]
         /\ name' \in [Invokers -> Names \cup {NoName}]
         /\ first' \in [Invokers -> BOOLEAN]
         /\ got' \in [Invokers -> 0..MaxIds]
         /\ num' \in [Invokers -> 0..MaxRequests]
         /\ deadAtRetry' \in [Invokers -> SUBSET Ids]
         /\ present' \subseteq Invokers
         /\ UNCHANGED <<old, same>>
  BY BoundsAssumption DEF Finish, Goto, Places, TypeInv, TypeOK

\* A step of any action keeps the types.
LEMMA TypeNext == TypeInv /\ [Next]_vars => TypeInv'
<1> SUFFICES ASSUME TypeInv, [Next]_vars PROVE TypeInv'
  OBVIOUS
<1> USE BoundsAssumption
    DEF appVars, cbVars, callVars, busVars, reqVars, Places, Having
<1>1. ASSUME NEW t \in Invokers, Invoke(t) PROVE TypeInv'
  <2>1. TypeOK'
    BY <1>1 DEF Invoke, Goto, TypeInv, TypeOK, PlaceInv
  <2>2. PlaceInv'
    BY <1>1 DEF Invoke, Goto, TypeInv, TypeOK, PlaceInv
  <2> QED BY <2>1, <2>2 DEF TypeInv
<1>2. ASSUME NEW t \in Invokers, ReadCache(t) PROVE TypeInv'
  <2>0. idCache[name[t]] # Uncached => idCache[name[t]] \in 0..MaxIds
    <3>1. idCache[name[t]] \in 0..Uncached
      BY <1>2 DEF ReadCache, TypeInv, TypeOK, PlaceInv
    <3> QED BY <3>1 DEF Uncached
  <2>1. TypeOK'
    BY <1>2, <2>0 DEF ReadCache, Goto, TypeInv, TypeOK, PlaceInv
  <2>2. PlaceInv'
    BY <1>2 DEF ReadCache, Goto, TypeInv, TypeOK, PlaceInv
  <2> QED BY <2>1, <2>2 DEF TypeInv
<1>3. ASSUME NEW t \in Invokers, LookupId(t) PROVE TypeInv'
  <2>1. TypeOK'
    BY <1>3 DEF LookupId, Goto, TypeInv, TypeOK, PlaceInv
  <2>2. PlaceInv'
    BY <1>3 DEF LookupId, Goto, TypeInv, TypeOK, PlaceInv
  <2> QED BY <2>1, <2>2 DEF TypeInv
<1>4. ASSUME NEW t \in Invokers, ReadMap(t) PROVE TypeInv'
  <2>1. TypeOK'
    BY <1>4 DEF ReadMap, Goto, TypeInv, TypeOK, PlaceInv
  <2>2. PlaceInv'
    BY <1>4 DEF ReadMap, Goto, TypeInv, TypeOK, PlaceInv
  <2> QED BY <2>1, <2>2 DEF TypeInv
<1>5. ASSUME NEW t \in Invokers, CompareAndSet(t) PROVE TypeInv'
  <2>1. TypeOK'
    <3>1. got[t] \in 0..Uncached /\ Nothing \in [Names -> 0..Uncached]
      BY DEF TypeInv, TypeOK, Uncached, Nothing
    <3>2. idCache' \in [Names -> 0..Uncached]
      BY <1>5, <3>1 DEF CompareAndSet, TypeInv, TypeOK
    <3>3. same' \subseteq Invokers
      BY <1>5 DEF CompareAndSet, TypeInv, TypeOK
    <3> QED BY <1>5, <3>1, <3>2, <3>3 DEF CompareAndSet, Goto, TypeInv, TypeOK
  <2>2. PlaceInv'
    BY <1>5 DEF CompareAndSet, Goto, TypeInv, TypeOK, PlaceInv
  <2> QED BY <2>1, <2>2 DEF TypeInv
<1>6. ASSUME NEW t \in Invokers, CheckId(t) PROVE TypeInv'
  <2>1. TypeOK'
    BY <1>6 DEF CheckId, Goto, TypeInv, TypeOK, PlaceInv
  <2>2. PlaceInv'
    BY <1>6 DEF CheckId, Goto, TypeInv, TypeOK, PlaceInv
  <2> QED BY <2>1, <2>2 DEF TypeInv
<1>7. ASSUME NEW t \in Invokers, Refuse(t) PROVE TypeInv'
  <2>1. TypeOK'
    BY <1>7 DEF Refuse, Finish, Goto, TypeInv, TypeOK, PlaceInv
  <2>2. PlaceInv'
    BY <1>7 DEF Refuse, Finish, Goto, TypeInv, TypeOK, PlaceInv
  <2> QED BY <2>1, <2>2 DEF TypeInv
<1>8. ASSUME NEW t \in Invokers, MakeRequest(t) PROVE TypeInv'
  <2>1. TypeOK'
    <3>1. reqCounter + 1 \in Numbers /\ reqCounter + 1 \in 0..MaxRequests
      BY <1>8 DEF MakeRequest, TypeInv, TypeOK, Numbers
    <3> QED BY <1>8, <3>1 DEF MakeRequest, Goto, TypeInv, TypeOK
  <2>2. PlaceInv'
    BY <1>8 DEF MakeRequest, Goto, TypeInv, TypeOK, PlaceInv
  <2> QED BY <2>1, <2>2 DEF TypeInv
<1>9. ASSUME NEW t \in Invokers, Parse(t) PROVE TypeInv'
  <2>1. TypeOK'
    <3>1. CASE Finish(t)
      BY <1>9, <3>1, FinishTypes DEF Parse, TypeInv, TypeOK
    <3>2. CASE ~Finish(t)
      BY <1>9, <3>2 DEF Parse, Goto, TypeInv, TypeOK
    <3> QED BY <3>1, <3>2
  <2>2. PlaceInv'
    BY <1>9 DEF Parse, Finish, Goto, TypeInv, TypeOK, PlaceInv
  <2> QED BY <2>1, <2>2 DEF TypeInv
<1>10. ASSUME NEW t \in Invokers, InvokeAsync(t) PROVE TypeInv'
  <2>1. TypeOK'
    <3>1. num[t] \in Numbers
      BY <1>10, HasRequest DEF InvokeAsync
    <3>2. pc' \in [Invokers -> Places]
      BY <1>10 DEF InvokeAsync, Goto, TypeInv, TypeOK
    <3>3. coming' \subseteq Numbers /\ priv' \subseteq Numbers
      BY <1>10, <3>1 DEF InvokeAsync, TypeInv, TypeOK
    <3> QED BY <1>10, <3>2, <3>3 DEF InvokeAsync, TypeInv, TypeOK
  <2>2. PlaceInv'
    BY <1>10 DEF InvokeAsync, Goto, TypeInv, TypeOK, PlaceInv
  <2> QED BY <2>1, <2>2 DEF TypeInv
<1>11. ASSUME NEW t \in Invokers, CompleteRequestAsync(t) PROVE TypeInv'
  <2>1. TypeOK'
    BY <1>11, HasRequest, FinishTypes DEF CompleteRequestAsync, TypeInv, TypeOK
  <2>2. PlaceInv'
    BY <1>11 DEF CompleteRequestAsync, Finish, Goto, TypeInv, TypeOK, PlaceInv
  <2> QED BY <2>1, <2>2 DEF TypeInv
<1>12. ASSUME NEW t \in Invokers, InvokeFailed(t) PROVE TypeInv'
  <2>1. TypeOK'
    <3>1. mem' \in [Numbers -> {"none", "live", "cleared"}]
      BY <1>12, HasRequest DEF InvokeFailed, TypeInv, TypeOK
    <3>2. CASE Finish(t)
      BY <1>12, <3>1, <3>2, FinishTypes DEF InvokeFailed, TypeInv, TypeOK
    <3>3. CASE first[t]
      <4>1. /\ pc' \in [Invokers -> Places] /\ first' \in [Invokers -> BOOLEAN]
            /\ got' \in [Invokers -> 0..MaxIds] /\ num' \in [Invokers -> 0..MaxRequests]
            /\ deadAtRetry' \in [Invokers -> SUBSET Ids]
        <5>1. /\ pc' = [pc EXCEPT ![t] = "lookup_id"]
              /\ first' = [first EXCEPT ![t] = FALSE]
              /\ got' = [got EXCEPT ![t] = 0] /\ num' = [num EXCEPT ![t] = 0]
              /\ deadAtRetry' = [deadAtRetry EXCEPT ![t] = dead]
          BY <1>12, <3>3 DEF InvokeFailed, Goto
        <5>2. 0 \in 0..MaxIds /\ 0 \in 0..MaxRequests
          OBVIOUS
        <5> QED BY <5>1, <5>2 DEF TypeInv, TypeOK
      <4> QED BY <1>12, <3>1, <3>3, <4>1 DEF InvokeFailed, TypeInv, TypeOK
    <3> QED BY <1>12, <3>2, <3>3 DEF InvokeFailed
  <2>2. PlaceInv'
    BY <1>12 DEF InvokeFailed, Finish, Goto, TypeInv, TypeOK, PlaceInv
  <2> QED BY <2>1, <2>2 DEF TypeInv
<1>12a. ASSUME NEW t \in Invokers, InvokeThrows(t) PROVE TypeInv'
  <2>1. TypeOK'
    BY <1>12a, FinishTypes DEF InvokeThrows, TypeInv, TypeOK
  <2>2. PlaceInv'
    BY <1>12a DEF InvokeThrows, Finish, Goto, TypeInv, TypeOK, PlaceInv
  <2> QED BY <2>1, <2>2 DEF TypeInv
<1>13. ASSUME NEW n \in Numbers, ReceiveData(n) PROVE TypeInv'
  <2>1. TypeOK'
    BY <1>13 DEF ReceiveData, DataCb, TypeInv, TypeOK, PlaceInv
  <2>2. PlaceInv'
    BY <1>13 DEF ReceiveData, DataCb, TypeInv, TypeOK, PlaceInv
  <2> QED BY <2>1, <2>2 DEF TypeInv
<1>14. ASSUME NEW n \in Numbers, ReceiveStatus(n) PROVE TypeInv'
  <2>1. TypeOK'
    <3>1. /\ callbacks' \in [Numbers -> Nat] /\ linked' \subseteq Numbers
          /\ mem' \in [Numbers -> {"none", "live", "cleared"}] /\ missed' \subseteq Numbers
      <4>1. PICK failed \in BOOLEAN :
              IF n \in linked
                THEN CompleteCb(n, failed) /\ linked' = linked \ {n} /\ UNCHANGED missed
                ELSE missed' = missed \cup {n} /\ UNCHANGED <<callbacks, mem, linked>>
        BY <1>14 DEF ReceiveStatus
      <4>2. callbacks' \in [Numbers -> Nat]
        <5>1. callbacks' = callbacks \/ callbacks' = [callbacks EXCEPT ![n] = callbacks[n] + 1]
          BY <4>1 DEF CompleteCb
        <5>2. callbacks[n] + 1 \in Nat /\ callbacks \in [Numbers -> Nat]
          BY DEF TypeInv, TypeOK
        <5> QED BY <5>1, <5>2
      <4>3. mem' \in [Numbers -> {"none", "live", "cleared"}]
        <5>1. mem' = mem \/ mem' = [mem EXCEPT ![n] = "cleared"]
          BY <4>1 DEF CompleteCb
        <5> QED BY <5>1 DEF TypeInv, TypeOK
      <4>4. linked' \subseteq Numbers /\ missed' \subseteq Numbers
        BY <4>1 DEF TypeInv, TypeOK
      <4> QED BY <4>2, <4>3, <4>4
    <3> QED BY <1>14, <3>1 DEF ReceiveStatus, TypeInv, TypeOK
  <2>2. PlaceInv'
    BY <1>14 DEF ReceiveStatus, CompleteCb, TypeInv, TypeOK, PlaceInv
  <2> QED BY <2>1, <2>2 DEF TypeInv
<1>15. ASSUME NEW n \in Names, Join(n) PROVE TypeInv'
  <2>1. TypeOK'
    BY <1>15 DEF Join, TypeInv, TypeOK, PlaceInv
  <2>2. PlaceInv'
    BY <1>15 DEF Join, TypeInv, TypeOK, PlaceInv
  <2> QED BY <2>1, <2>2 DEF TypeInv
<1>16. ASSUME NEW n \in Names, Part(n) PROVE TypeInv'
  <2>1. TypeOK'
    <3>1. busId[n] \in Ids
      BY <1>16 DEF Part, TypeInv, TypeOK, Ids
    <3> QED BY <1>16, <3>1 DEF Part, TypeInv, TypeOK
  <2>2. PlaceInv'
    BY <1>16 DEF Part, TypeInv, TypeOK, PlaceInv
  <2> QED BY <2>1, <2>2 DEF TypeInv
<1>17. CASE Drop \/ LossSeen \/ Reconnect
  BY <1>17 DEF Drop, LossSeen, Reconnect, TypeInv, TypeOK, PlaceInv
<1>18. CASE UNCHANGED vars
  BY <1>18 DEF vars, TypeInv, TypeOK, PlaceInv
<1> QED BY <1>1, <1>2, <1>3, <1>4, <1>5, <1>6, <1>7, <1>8, <1>9, <1>10, <1>11,
           <1>12, <1>13, <1>14, <1>15, <1>16, <1>17, <1>18, <1>12a DEF Next

\* Every variable of Invoker keeps its type: the cache holds ids of ubusd, 0 or
\* nothing for each name, and a thread in the second half of invoke has a request
\* that has been made (Invoker.kt, lookup and invokeInner).
THEOREM TypeCorrect == Spec => []TypeOK
<1>1. TypeInv => TypeOK
  BY DEF TypeInv
<1> QED BY <1>1, TypeInit, TypeNext, PTL DEF Spec

-----------------------------------------------------------------------------
(* CacheKeepsNames. A thread whose compareAndSet will succeed has a copy   *)
(* of the map that is there.                                               *)

SameInv == \A t \in same : old[t] = idCache

LEMMA SameInit == Init => SameInv
  BY DEF Init, SameInv

\* A step of any action keeps SameInv and takes no name out of the cache.
LEMMA SameNext ==
  TypeInv /\ SameInv /\ [Next]_vars =>
    /\ SameInv'
    /\ \A n \in Names : idCache[n] # Uncached => idCache'[n] # Uncached
<1> SUFFICES ASSUME TypeInv, SameInv, [Next]_vars
             PROVE  /\ SameInv'
                    /\ \A n \in Names : idCache[n] # Uncached => idCache'[n] # Uncached
  OBVIOUS
<1> DEFINE Kept == \A n \in Names : idCache[n] # Uncached => idCache'[n] # Uncached
<1> USE DEF appVars, cbVars, callVars, busVars, reqVars
<1>1. ASSUME UNCHANGED <<idCache, old, same>> PROVE SameInv' /\ Kept
  BY <1>1 DEF SameInv
<1>2. ASSUME NEW t \in Invokers, ReadMap(t) PROVE SameInv' /\ Kept
  BY <1>2 DEF ReadMap, SameInv, TypeInv, TypeOK
<1>3. ASSUME NEW t \in Invokers, CompareAndSet(t) PROVE SameInv' /\ Kept
  <2>1. got[t] # Uncached
    BY BoundsAssumption DEF TypeInv, TypeOK, Uncached
  <2>2. CASE t \in same
    <3>1. idCache' = [idCache EXCEPT ![name[t]] = got[t]] /\ same' = {}
      BY <1>3, <2>2 DEF CompareAndSet, SameInv
    <3> QED BY <2>1, <3>1 DEF SameInv, TypeInv, TypeOK
  <2>3. CASE t \notin same
    BY <1>3, <2>3 DEF CompareAndSet, SameInv, TypeInv, TypeOK
  <2> QED BY <2>2, <2>3
<1>4. ASSUME NEW t \in Invokers,
             \/ Invoke(t) \/ ReadCache(t) \/ LookupId(t) \/ CheckId(t) \/ Refuse(t)
             \/ MakeRequest(t) \/ Parse(t) \/ InvokeAsync(t)
             \/ CompleteRequestAsync(t) \/ InvokeFailed(t) \/ InvokeThrows(t)
      PROVE  UNCHANGED <<idCache, old, same>>
  BY <1>4 DEF Invoke, ReadCache, LookupId, CheckId, Refuse, MakeRequest, Parse,
              InvokeAsync, CompleteRequestAsync, InvokeFailed, InvokeThrows, Finish
<1>5. ASSUME NEW n \in Numbers, ReceiveData(n) \/ ReceiveStatus(n)
      PROVE  UNCHANGED <<idCache, old, same>>
  BY <1>5 DEF ReceiveData, ReceiveStatus
<1>6. ASSUME NEW n \in Names, Join(n) \/ Part(n) PROVE UNCHANGED <<idCache, old, same>>
  BY <1>6 DEF Join, Part
<1>7. CASE Drop \/ LossSeen \/ Reconnect \/ UNCHANGED vars
  BY <1>1, <1>7 DEF Drop, LossSeen, Reconnect, vars
<1> QED BY <1>1, <1>2, <1>3, <1>4, <1>5, <1>6, <1>7 DEF Next

\* No lookup takes the entry of another out of the cache that all threads share,
\* however their copies of the map and compareAndSet interleave (Invoker.kt
\* lookup): see CacheKeepsNames.
THEOREM NamesStay == Spec => CacheKeepsNames
<1>1. TypeInv /\ SameInv /\ [Next]_vars =>
        [\A n \in Names : idCache[n] # Uncached => idCache'[n] # Uncached]_vars
  BY SameNext
<1>2. TypeInv /\ SameInv /\ [Next]_vars => SameInv'
  BY SameNext
<1> QED BY <1>1, <1>2, TypeInit, TypeNext, SameInit, PTL DEF Spec, CacheKeepsNames

-----------------------------------------------------------------------------
(* RetryIsFresh. ubusd gives no id out twice, so that what it has on the   *)
(* bus is not gone, and what the second round looks up was not gone when   *)
(* the first one failed.                                                   *)

BusInv ==
  /\ \A i \in dead : i <= lastId
  /\ \A n \in Names : busId[n] <= lastId /\ busId[n] \notin dead
  /\ \A m, n \in Names : busId[m] = busId[n] /\ busId[n] # 0 => m = n

RetryInv ==
  \A t \in Invokers :
    /\ deadAtRetry[t] \subseteq dead
    /\ ~first[t] => pc[t] \notin {"idle", "cache"}
    /\ ~first[t] /\ pc[t] # "lookup_id" => got[t] \notin deadAtRetry[t]

FreshInv == BusInv /\ RetryInv

LEMMA FreshInit == Init => FreshInv
  BY DEF Init, FreshInv, BusInv, RetryInv

\* A step of any action keeps FreshInv.
LEMMA FreshNext == TypeInv /\ FreshInv /\ [Next]_vars => FreshInv'
<1> SUFFICES ASSUME TypeInv, FreshInv, [Next]_vars PROVE FreshInv'
  OBVIOUS
<1> USE DEF appVars, cbVars, callVars, busVars, reqVars
<1>1. ASSUME UNCHANGED <<busId, lastId, dead>> PROVE BusInv'
  BY <1>1 DEF FreshInv, BusInv
<1>2. ASSUME UNCHANGED <<pc, first, got, deadAtRetry>>, dead \subseteq dead'
      PROVE  RetryInv'
  BY <1>2 DEF FreshInv, RetryInv
<1>3. ASSUME NEW t \in Invokers, Invoke(t) PROVE FreshInv'
  BY <1>1, <1>3 DEF Invoke, Goto, FreshInv, RetryInv, TypeInv, TypeOK
<1>4. ASSUME NEW t \in Invokers, ReadCache(t) \/ ReadMap(t) \/ CompareAndSet(t)
                                 \/ CheckId(t) \/ MakeRequest(t) \/ InvokeAsync(t)
      PROVE  FreshInv'
  <2>1. UNCHANGED <<first, deadAtRetry, dead>>
    BY <1>4 DEF ReadCache, ReadMap, CompareAndSet, CheckId, MakeRequest, InvokeAsync
  <2>2. \A u \in Invokers : ~first[u] /\ pc'[u] # "lookup_id" =>
          pc[u] # "lookup_id" /\ got'[u] = got[u]
    BY <1>4 DEF ReadCache, ReadMap, CompareAndSet, CheckId, MakeRequest, InvokeAsync,
                Goto, FreshInv, RetryInv, TypeInv, TypeOK
  <2>3. UNCHANGED <<busId, lastId, dead>>
    BY <1>4 DEF ReadCache, ReadMap, CompareAndSet, CheckId, MakeRequest, InvokeAsync
  <2>4. \A u \in Invokers : ~first[u] => pc'[u] \notin {"idle", "cache"}
    BY <1>4 DEF ReadCache, ReadMap, CompareAndSet, CheckId, MakeRequest, InvokeAsync,
                Goto, FreshInv, RetryInv, TypeInv, TypeOK
  <2> QED BY <1>1, <2>1, <2>2, <2>3, <2>4 DEF FreshInv, RetryInv
<1>5. ASSUME NEW t \in Invokers, LookupId(t) PROVE FreshInv'
  <2>1. \A i \in dead : i # 0
    BY DEF TypeInv, TypeOK, Ids
  <2>2. name[t] \in Names
    BY <1>5 DEF LookupId, TypeInv, PlaceInv
  <2>3. got'[t] \notin dead
    BY <1>5, <2>1, <2>2 DEF LookupId, FreshInv, BusInv, TypeInv, TypeOK
  <2>4. RetryInv'
    BY <1>5, <2>3 DEF LookupId, Goto, FreshInv, RetryInv, TypeInv, TypeOK
  <2> QED BY <1>1, <1>5, <2>4 DEF LookupId, FreshInv
<1>6. ASSUME NEW t \in Invokers, Finish(t), UNCHANGED <<busId, lastId, dead>>
      PROVE  FreshInv'
  BY <1>1, <1>6 DEF Finish, Goto, FreshInv, RetryInv, TypeInv, TypeOK
<1>7. ASSUME NEW t \in Invokers, Refuse(t) \/ CompleteRequestAsync(t) \/ InvokeThrows(t)
      PROVE  FreshInv'
  BY <1>6, <1>7 DEF Refuse, CompleteRequestAsync, InvokeThrows
<1>8. ASSUME NEW t \in Invokers, Parse(t) PROVE FreshInv'
  <2>1. CASE ~Finish(t)
    BY <1>1, <1>8, <2>1 DEF Parse, Goto, FreshInv, RetryInv, TypeInv, TypeOK
  <2> QED BY <1>6, <1>8, <2>1 DEF Parse
<1>9. ASSUME NEW t \in Invokers, InvokeFailed(t) PROVE FreshInv'
  <2>1. CASE first[t]
    BY <1>1, <1>9, <2>1 DEF InvokeFailed, Goto, FreshInv, RetryInv, TypeInv, TypeOK
  <2> QED BY <1>6, <1>9, <2>1 DEF InvokeFailed
<1>10. ASSUME NEW n \in Numbers, ReceiveData(n) \/ ReceiveStatus(n) PROVE FreshInv'
  BY <1>1, <1>2, <1>10 DEF ReceiveData, ReceiveStatus, FreshInv
<1>11. ASSUME NEW n \in Names, Join(n) PROVE FreshInv'
  <2>1. BusInv'
    BY <1>11 DEF Join, FreshInv, BusInv, TypeInv, TypeOK, Ids
  <2> QED BY <1>2, <1>11, <2>1 DEF Join, FreshInv
<1>12. ASSUME NEW n \in Names, Part(n) PROVE FreshInv'
  <2>1. BusInv'
    BY <1>12 DEF Part, FreshInv, BusInv, TypeInv, TypeOK, Ids
  <2> QED BY <1>2, <1>12, <2>1 DEF Part, FreshInv
<1>13. CASE Drop \/ LossSeen \/ Reconnect \/ UNCHANGED vars
  BY <1>1, <1>2, <1>13 DEF Drop, LossSeen, Reconnect, vars, FreshInv
<1> QED BY <1>3, <1>4, <1>5, <1>7, <1>8, <1>9, <1>10, <1>11, <1>12, <1>13 DEF Next

\* The second round of invoke sends to no id that was gone when the first one
\* failed (Invoker.kt invokeInner with useCache = false): see RetryIsFresh.
THEOREM RetryAsksAgain == Spec => []RetryIsFresh
<1>1. FreshInv => RetryIsFresh
  BY DEF FreshInv, RetryInv, RetryIsFresh
<1> QED BY <1>1, TypeInit, TypeNext, FreshInit, FreshNext, PTL DEF Spec

-----------------------------------------------------------------------------
(* OneCallback, with callees that answer properly. A request is with its   *)
(* thread until it is linked; what comes before is missed; a linked one    *)
(* that still has its callbacks has been reported when its data came.      *)

NumberInv ==
  \A n \in Numbers :
    n > reqCounter =>
      /\ callbacks[n] = 0 /\ data[n] = 0
      /\ n \notin coming \cup linked \cup answered \cup missed

OwnerInv ==
  \A t \in Invokers :
    /\ pc[t] \in Having =>
         /\ num[t] \notin linked /\ callbacks[num[t]] = 0 /\ mem[num[t]] = "live"
         /\ \A u \in Invokers : pc[u] \in Having /\ num[u] = num[t] => u = t
    /\ pc[t] \in {"parse", "send", "failed"} =>
         data[num[t]] = 0 /\ num[t] \notin coming \cup answered \cup missed
    /\ pc[t] = "complete_async" /\ num[t] \notin missed =>
         data[num[t]] = 0 /\ num[t] \notin answered

LinkedInv ==
  \A n \in Numbers :
    /\ data[n] <= 1
    /\ n \in linked /\ data[n] = 0 => callbacks[n] = 0
    /\ n \in (linked \ missed) \cap priv /\ data[n] = 1 => callbacks[n] = 1

CallbackInv == NumberInv /\ OwnerInv /\ LinkedInv /\ OneCallback

LEMMA CallbackInit == Init => CallbackInv
  BY BoundsAssumption
  DEF Init, CallbackInv, NumberInv, OwnerInv, LinkedInv, OneCallback, Having, Numbers

\* A step of any action keeps CallbackInv.
LEMMA CallbackNext == ProperCallees /\ TypeInv /\ CallbackInv /\ [Next]_vars => CallbackInv'
<1> SUFFICES ASSUME ProperCallees, TypeInv, CallbackInv, [Next]_vars PROVE CallbackInv'
  OBVIOUS
<1> USE DEF appVars, cbVars, callVars, busVars, reqVars
<1>0. ASSUME UNCHANGED <<cbVars, reqCounter, num, linked, data, missed, answered>>,
             coming' = coming \/ coming' = {},
             \A t \in Invokers :
               pc'[t] # pc[t] /\ pc'[t] \in Having => pc[t] = "parse" /\ pc'[t] = "send"
      PROVE  CallbackInv'
  <2>1. NumberInv' /\ LinkedInv' /\ OneCallback'
    BY <1>0 DEF CallbackInv, NumberInv, LinkedInv, OneCallback
  <2>2. OwnerInv'
    BY <1>0 DEF CallbackInv, OwnerInv, Having
  <2> QED BY <2>1, <2>2 DEF CallbackInv
<1>1. ASSUME NEW t \in Invokers,
             \/ Invoke(t) \/ ReadCache(t) \/ LookupId(t) \/ ReadMap(t)
             \/ CompareAndSet(t) \/ CheckId(t)
      PROVE  CallbackInv'
  <2>1. UNCHANGED <<mem, priv, callbacks, reqCounter, num, reqVars>>
    BY <1>1 DEF Invoke, ReadCache, LookupId, ReadMap, CompareAndSet, CheckId
  <2>2. \A u \in Invokers : pc'[u] = pc[u] \/ pc'[u] \notin Having
    BY <1>1 DEF Invoke, ReadCache, LookupId, ReadMap, CompareAndSet, CheckId, Goto,
                Having, TypeInv, TypeOK
  <2> QED BY <1>0, <2>1, <2>2
<1>2. ASSUME NEW t \in Invokers, Finish(t), UNCHANGED <<reqCounter, cbVars>>,
             UNCHANGED <<coming, data, missed, answered>>,
             \/ UNCHANGED linked
             \/ pc[t] = "complete_async" /\ linked' = linked \cup {num[t]}
      PROVE  CallbackInv'
  <2>1. NumberInv'
    <3>1. CASE UNCHANGED linked
      BY <1>2, <3>1 DEF CallbackInv, NumberInv
    <3>2. CASE pc[t] = "complete_async" /\ linked' = linked \cup {num[t]}
      <4>1. num[t] \in 1..reqCounter /\ reqCounter \in Nat
        BY <3>2, HasRequest DEF Having, TypeInv, TypeOK
      <4>2. ~(num[t] > reqCounter)
        BY <4>1
      <4> QED BY <1>2, <3>2, <4>2 DEF CallbackInv, NumberInv
    <3> QED BY <1>2, <3>1, <3>2
  <2>2. OwnerInv'
    BY <1>2 DEF Finish, Goto, CallbackInv, OwnerInv, Having, TypeInv, TypeOK
  <2>3. LinkedInv' /\ OneCallback'
    BY <1>2, HasRequest DEF CallbackInv, OwnerInv, LinkedInv, OneCallback, Having
  <2> QED BY <2>1, <2>2, <2>3 DEF CallbackInv
<1>3. ASSUME NEW t \in Invokers, Refuse(t) \/ CompleteRequestAsync(t) \/ InvokeThrows(t)
      PROVE  CallbackInv'
  BY <1>2, <1>3 DEF Refuse, CompleteRequestAsync, InvokeThrows
<1>4. ASSUME NEW t \in Invokers, Parse(t) PROVE CallbackInv'
  <2>1. CASE ~Finish(t)
    BY <1>0, <1>4, <2>1 DEF Parse, Goto, TypeInv, TypeOK
  <2> QED BY <1>2, <1>4, <2>1 DEF Parse
<1>5. ASSUME NEW t \in Invokers, MakeRequest(t) PROVE CallbackInv'
  <2>1. /\ reqCounter + 1 \in Numbers /\ reqCounter \in Nat
        /\ \A u \in Invokers : pc[u] \in Having => num[u] \in 1..reqCounter
    <3>1. reqCounter + 1 \in Numbers /\ reqCounter \in Nat
      <4>1. reqCounter \in 0..MaxRequests /\ reqCounter < MaxRequests
        BY <1>5 DEF MakeRequest, TypeInv, TypeOK
      <4> QED BY <4>1, BoundsAssumption DEF Numbers
    <3>2. \A u \in Invokers : pc[u] \in Having => num[u] \in 1..reqCounter
      BY HasRequest
    <3> QED BY <3>1, <3>2
  <2>2. \A n \in Numbers : n \in Nat
    BY DEF Numbers
  <2>3. NumberInv'
    BY <1>5, <2>1, <2>2 DEF MakeRequest, CallbackInv, NumberInv
  <2>4. OwnerInv'
    <3>1. ASSUME NEW u \in Invokers, pc'[u] \in Having, u # t
          PROVE  pc[u] = pc'[u] /\ num'[u] = num[u] /\ num[u] # reqCounter + 1
      BY <1>5, <2>1, <3>1 DEF MakeRequest, Goto, TypeInv, TypeOK
    <3>2. pc'[t] = "parse" /\ num'[t] = reqCounter + 1
      BY <1>5 DEF MakeRequest, Goto, TypeInv, TypeOK
    <3>3. /\ reqCounter + 1 \notin linked \cup coming \cup answered \cup missed
          /\ callbacks[reqCounter + 1] = 0 /\ data[reqCounter + 1] = 0
      BY <2>1 DEF CallbackInv, NumberInv
    <3>4. mem'[reqCounter + 1] = "live" /\ \A n \in Numbers : n # reqCounter + 1 => mem'[n] = mem[n]
      BY <1>5, <2>1 DEF MakeRequest, TypeInv, TypeOK
    <3>5. \A u \in Invokers : pc[u] \in Having => num[u] \in Numbers
      BY HasRequest
    <3>6. UNCHANGED <<callbacks, reqVars>>
      BY <1>5 DEF MakeRequest
    <3> QED BY <3>1, <3>2, <3>3, <3>4, <3>5, <3>6 DEF CallbackInv, OwnerInv, Having
  <2>5. LinkedInv'
    <3>1. reqCounter + 1 \notin linked
      BY <2>1 DEF CallbackInv, NumberInv
    <3> QED BY <1>5, <3>1 DEF MakeRequest, CallbackInv, LinkedInv
  <2>6. OneCallback'
    <3>1. /\ reqCounter + 1 \notin answered /\ callbacks[reqCounter + 1] = 0
      BY <2>1 DEF CallbackInv, NumberInv
    <3> QED BY <1>5, <3>1 DEF MakeRequest, CallbackInv, OneCallback, TypeInv, TypeOK
  <2> QED BY <2>3, <2>4, <2>5, <2>6 DEF CallbackInv
<1>6. ASSUME NEW t \in Invokers, InvokeAsync(t) PROVE CallbackInv'
  <2>1. /\ pc[t] = "send" /\ coming' \subseteq coming \cup {num[t]}
        /\ coming' # coming => pc'[t] = "complete_async"
        /\ pc'[t] \in {"complete_async", "failed"}
        /\ \A u \in Invokers : u # t => pc'[u] = pc[u]
        /\ priv' \subseteq priv
        /\ UNCHANGED <<mem, callbacks, reqCounter, num, linked, data, missed, answered>>
    BY <1>6 DEF InvokeAsync, Goto, TypeInv, TypeOK
  <2>2. num[t] \in Numbers /\ num[t] \in 1..reqCounter
    BY <2>1, HasRequest DEF Having
  <2>3. NumberInv'
    BY <2>1, <2>2 DEF CallbackInv, NumberInv, Numbers, TypeInv, TypeOK
  <2>4. OwnerInv'
    BY <2>1 DEF CallbackInv, OwnerInv, Having
  <2>5. LinkedInv' /\ OneCallback'
    BY <2>1 DEF CallbackInv, LinkedInv, OneCallback
  <2> QED BY <2>3, <2>4, <2>5 DEF CallbackInv
<1>7. ASSUME NEW t \in Invokers, InvokeFailed(t) PROVE CallbackInv'
  <2>1. /\ pc[t] = "failed" /\ mem' = [mem EXCEPT ![num[t]] = "cleared"]
        /\ pc'[t] \notin Having
        /\ \A u \in Invokers : u # t => pc'[u] = pc[u] /\ num'[u] = num[u]
        /\ UNCHANGED <<priv, callbacks, reqCounter, reqVars>>
    BY <1>7 DEF InvokeFailed, Finish, Goto, Having, TypeInv, TypeOK
  <2>2. num[t] \in Numbers /\ num[t] \notin linked
    BY <2>1, HasRequest DEF Having, CallbackInv, OwnerInv
  <2>3. NumberInv' /\ LinkedInv'
    BY <2>1 DEF CallbackInv, NumberInv, LinkedInv
  <2>4. OwnerInv'
    <3>1. ASSUME NEW u \in Invokers, u # t, pc[u] \in Having
          PROVE  num[u] # num[t] /\ mem'[num[u]] = mem[num[u]]
      BY <2>1, <3>1 DEF CallbackInv, OwnerInv, Having, TypeInv, TypeOK
    <3> QED BY <2>1, <3>1 DEF CallbackInv, OwnerInv, Having
  <2>5. OneCallback'
    BY <2>1, <2>2 DEF CallbackInv, OneCallback, TypeInv, TypeOK
  <2> QED BY <2>3, <2>4, <2>5 DEF CallbackInv
<1>8. ASSUME NEW n \in Numbers, ReceiveData(n) PROVE CallbackInv'
  <2>1. /\ n \in coming /\ data[n] = 0 /\ data' = [data EXCEPT ![n] = 1]
        /\ UNCHANGED <<pc, num, priv, reqCounter, coming, linked, answered>>
    <3>1. data[n] < 1 /\ data[n] \in Nat /\ data' = [data EXCEPT ![n] = data[n] + 1]
      BY <1>8 DEF ReceiveData, TypeInv, TypeOK
    <3>2. data[n] = 0 /\ data[n] + 1 = 1
      BY <3>1
    <3> QED BY <1>8, <3>1, <3>2 DEF ReceiveData
  <2>2. n <= reqCounter
    BY <2>1 DEF CallbackInv, NumberInv, Numbers, TypeInv, TypeOK
  <2>3. \/ /\ n \in linked /\ UNCHANGED missed /\ mem' = [mem EXCEPT ![n] = "cleared"]
           /\ callbacks' = [callbacks EXCEPT ![n] = 1] /\ callbacks[n] = 0
        \/ n \in linked \ priv /\ UNCHANGED <<missed, callbacks, mem>>
        \/ n \notin linked /\ missed' = missed \cup {n} /\ UNCHANGED <<callbacks, mem>>
    BY <1>8, <2>1, <2>2 DEF ReceiveData, DataCb, CallbackInv, LinkedInv, TypeInv, TypeOK
  <2>4. NumberInv'
    <3>1. \A m \in Numbers : m # n => callbacks'[m] = callbacks[m] /\ data'[m] = data[m]
      BY <2>1, <2>3 DEF TypeInv, TypeOK
    <3>2. ~(n > reqCounter)
      BY <2>2 DEF TypeInv, TypeOK, Numbers
    <3> QED BY <2>1, <2>2, <2>3, <3>1, <3>2 DEF CallbackInv, NumberInv
  <2>5. \A t \in Invokers :
          pc[t] \in Having => num[t] \in Numbers /\ (num[t] = n => pc[t] = "complete_async")
    BY <2>1, HasRequest DEF CallbackInv, OwnerInv, Having
  <2>6. OwnerInv'
    BY <2>1, <2>3, <2>5 DEF CallbackInv, OwnerInv, Having, TypeInv, TypeOK
  <2>7. LinkedInv'
    BY <2>1, <2>3 DEF CallbackInv, LinkedInv, TypeInv, TypeOK
  <2>8. OneCallback'
    BY <2>1, <2>3 DEF CallbackInv, OneCallback, TypeInv, TypeOK
  <2> QED BY <2>4, <2>6, <2>7, <2>8 DEF CallbackInv
<1>9. ASSUME NEW n \in Numbers, ReceiveStatus(n) PROVE CallbackInv'
  <2>1. /\ n \in coming /\ coming' = coming \ {n} /\ answered' = answered \cup {n}
        /\ UNCHANGED <<pc, num, priv, reqCounter, data>>
    BY <1>9 DEF ReceiveStatus
  <2>2. n <= reqCounter /\ data[n] \in {0, 1}
    <3>1. n <= reqCounter
      BY <2>1 DEF CallbackInv, NumberInv, Numbers, TypeInv, TypeOK
    <3>2. data[n] \in Nat /\ data[n] <= 1
      BY DEF CallbackInv, LinkedInv, TypeInv, TypeOK
    <3> QED BY <3>1, <3>2 DEF CallbackInv, NumberInv
  <2>3. PICK failed \in BOOLEAN :
          /\ failed <=> data[n] = 0
          /\ IF n \in linked
               THEN CompleteCb(n, failed) /\ linked' = linked \ {n} /\ UNCHANGED missed
               ELSE missed' = missed \cup {n} /\ UNCHANGED <<callbacks, mem, linked>>
    BY <1>9 DEF ReceiveStatus
  <2>4. \/ /\ n \in linked /\ data[n] = 0 /\ linked' = linked \ {n} /\ UNCHANGED missed
           /\ callbacks' = [callbacks EXCEPT ![n] = 1] /\ callbacks[n] = 0
           /\ mem' = [mem EXCEPT ![n] = "cleared"]
        \/ /\ n \in linked /\ data[n] = 1 /\ linked' = linked \ {n}
           /\ UNCHANGED <<missed, callbacks, mem>>
           /\ n \in missed \/ n \notin priv \/ callbacks[n] = 1
        \/ /\ n \in linked \ priv /\ linked' = linked \ {n}
           /\ UNCHANGED <<missed, callbacks, mem>>
        \/ n \notin linked /\ missed' = missed \cup {n} /\ UNCHANGED <<callbacks, mem, linked>>
    BY <2>2, <2>3 DEF CompleteCb, CallbackInv, LinkedInv, TypeInv, TypeOK
  <2>5. NumberInv'
    <3>1. \A m \in Numbers : m # n => callbacks'[m] = callbacks[m] /\ data'[m] = data[m]
      BY <2>1, <2>4 DEF TypeInv, TypeOK
    <3>2. ~(n > reqCounter)
      BY <2>2 DEF TypeInv, TypeOK, Numbers
    <3> QED BY <2>1, <2>2, <2>4, <3>1, <3>2 DEF CallbackInv, NumberInv
  <2>6. \A t \in Invokers :
          pc[t] \in Having => num[t] \in Numbers /\ (num[t] = n => pc[t] = "complete_async")
    BY <2>1, HasRequest DEF CallbackInv, OwnerInv, Having
  <2>7. OwnerInv'
    BY <2>1, <2>4, <2>6 DEF CallbackInv, OwnerInv, Having, TypeInv, TypeOK
  <2>8. LinkedInv'
    BY <2>1, <2>4 DEF CallbackInv, LinkedInv, TypeInv, TypeOK
  <2>9. OneCallback'
    BY <2>1, <2>4 DEF CallbackInv, OneCallback, TypeInv, TypeOK
  <2> QED BY <2>5, <2>7, <2>8, <2>9 DEF CallbackInv
<1>10. ASSUME NEW n \in Names, Join(n) \/ Part(n) PROVE CallbackInv'
  BY <1>0, <1>10 DEF Join, Part
<1>11. CASE Drop \/ LossSeen \/ Reconnect \/ UNCHANGED vars
  BY <1>0, <1>11 DEF Drop, LossSeen, Reconnect, vars
<1> QED BY <1>1, <1>3, <1>4, <1>5, <1>6, <1>7, <1>8, <1>9, <1>10, <1>11 DEF Next

\* With callees that answer as ubus expects, the application hears of a request once
\* at most, its memory is given back by the callback that tells it, and it hears of
\* every linked request that ubus_invoke_async has left as it was: whether libubus
\* clears the requests it is given or not (Invoker.kt data_cb, complete_cb): see
\* OneCallback.
THEOREM CallsBackOnce == ASSUME ProperCallees PROVE Spec => []OneCallback
<1>1. TypeInv /\ CallbackInv /\ [Next]_vars => CallbackInv'
  BY ProperCallees, CallbackNext
<1>2. CallbackInv => OneCallback
  BY DEF CallbackInv
<1> QED BY <1>1, <1>2, TypeInit, TypeNext, CallbackInit, PTL DEF Spec
=============================================================================

------------------------------ MODULE Invoker ------------------------------
(***************************************************************************)
(* Invoker.kt: calling a method of an object on the bus. invoke() looks    *)
(* the object's id up, through a cache that all threads share, sends the   *)
(* call with two callbacks and returns the number of the request; the      *)
(* application hears of the outcome by onInvokeCallback with that number.  *)
(*                                                                         *)
(* libubus links a request into its list of pending requests only in       *)
(* ubus_complete_request_async. An answer that comes before is dropped.    *)
(***************************************************************************)
EXTENDS Naturals, FiniteSets

CONSTANTS
  Names,          \* objects of other processes
  NoName,
  Invokers,       \* application threads that call invoke
  MaxIds,         \* ids ubusd gives out
  MaxRequests,    \* requests made
  MaxDrops,       \* lost connections
  BadPayloads,    \* whether the application may pass text that is no JSON
  ProperCallees,  \* every call is answered by one message, or by an error status
  ClearsRequest   \* whether ubus_invoke_async clears the request it is given:
                  \* the answers that libubus may give, one for each call

ASSUME NamesAssumption == NoName \notin Names
ASSUME BoundsAssumption ==
  MaxIds \in Nat /\ MaxRequests \in Nat /\ MaxDrops \in Nat
ASSUME FlagsAssumption ==
  /\ BadPayloads \in BOOLEAN /\ ProperCallees \in BOOLEAN
  /\ ClearsRequest \subseteq BOOLEAN /\ ClearsRequest # {}

Ids == 1..MaxIds
Numbers == 1..MaxRequests
Uncached == MaxIds + 1    \* the map has no entry for the name

VARIABLES
  alive,      \* ctxAlive
  idCache,    \* the map: an id, 0 for a failed lookup, or Uncached
  reqCounter,
  mem,        \* InvokeReq.scope and the StableRef to it, per request number
  priv,       \* the requests whose priv and callbacks are set
  callbacks,  \* onInvokeCallback calls per request number
  pc, name, first, got, \* per thread: place, obj, first, the id found
  old,        \* per thread: the map read before compareAndSet
  same,       \* threads whose old map is still the one in idCache
  num,        \* per thread: number of its request
  link, drops,
  busId,      \* id of each object on the bus, 0 when it is not there
  lastId, dead, deadAtRetry, \* ids given out; gone; gone when t retried (history)
  present,    \* threads whose object was there all through the call (history)
  linked,     \* requests in ctx->requests
  coming,     \* requests whose status has not come yet
  data,       \* data messages that came, per request
  missed,     \* requests that lost a message by coming too early (history)
  answered    \* requests whose status came over the link (history)

appVars == <<alive, idCache, reqCounter, mem, priv, callbacks>>
cbVars  == <<mem, priv, callbacks>>
callVars == <<pc, name, first, got, old, same, num>>
busVars == <<link, drops, busId, lastId, dead>>
reqVars == <<linked, coming, data, missed, answered>>
vars == <<appVars, callVars, busVars, deadAtRetry, present, reqVars>>

Places == {"idle", "cache", "lookup_id", "read", "cas", "check", "make",
           "parse", "send", "complete_async", "failed", "refused"}

TypeOK ==
  /\ alive \in {0, 1}
  /\ idCache \in [Names -> 0..Uncached]
  /\ reqCounter \in 0..MaxRequests
  /\ mem \in [Numbers -> {"none", "live", "cleared"}]
  /\ priv \subseteq Numbers
  /\ callbacks \in [Numbers -> Nat]
  /\ pc \in [Invokers -> Places]
  /\ name \in [Invokers -> Names \cup {NoName}]
  /\ first \in [Invokers -> BOOLEAN]
  /\ got \in [Invokers -> 0..MaxIds]
  /\ old \in [Invokers -> [Names -> 0..Uncached]]
  /\ same \subseteq Invokers
  /\ num \in [Invokers -> 0..MaxRequests]
  /\ link \in {"up", "down"}
  /\ drops \in 0..MaxDrops
  /\ busId \in [Names -> 0..MaxIds]
  /\ lastId \in 0..MaxIds
  /\ dead \subseteq Ids
  /\ deadAtRetry \in [Invokers -> SUBSET Ids]
  /\ present \subseteq Invokers
  /\ linked \subseteq Numbers
  /\ coming \subseteq Numbers
  /\ data \in [Numbers -> Nat]
  /\ missed \subseteq Numbers
  /\ answered \subseteq Numbers

Nothing == [n \in Names |-> Uncached]

Init ==
  /\ alive = 1
  /\ idCache = Nothing
  /\ reqCounter = 0
  /\ mem = [n \in Numbers |-> "none"]
  /\ priv = {}
  /\ callbacks = [n \in Numbers |-> 0]
  /\ pc = [t \in Invokers |-> "idle"]
  /\ name = [t \in Invokers |-> NoName]
  /\ first = [t \in Invokers |-> TRUE]
  /\ got = [t \in Invokers |-> 0]
  /\ old = [t \in Invokers |-> Nothing]
  /\ same = {}
  /\ num = [t \in Invokers |-> 0]
  /\ link = "up"
  /\ drops = 0
  /\ busId = [n \in Names |-> 0]
  /\ lastId = 0
  /\ dead = {}
  /\ deadAtRetry = [t \in Invokers |-> {}]
  /\ present = {}
  /\ linked = {}
  /\ coming = {}
  /\ data = [n \in Numbers |-> 0]
  /\ missed = {}
  /\ answered = {}

-----------------------------------------------------------------------------
Goto(t, p) == pc' = [pc EXCEPT ![t] = p]

\* invoke returns, or throws.
Finish(t) ==
  /\ Goto(t, "idle")
  /\ name' = [name EXCEPT ![t] = NoName]
  /\ first' = [first EXCEPT ![t] = TRUE]
  /\ got' = [got EXCEPT ![t] = 0]
  /\ num' = [num EXCEPT ![t] = 0]
  /\ deadAtRetry' = [deadAtRetry EXCEPT ![t] = {}]
  /\ present' = present \ {t}
  /\ UNCHANGED <<old, same>>

\* Ubus.invoke: the call is refused without a live context.
Invoke(t) ==
  /\ pc[t] = "idle"
  /\ alive = 1
  /\ \E n \in Names :
       /\ name' = [name EXCEPT ![t] = n]
       /\ present' = IF busId[n] # 0 /\ link = "up" THEN present \cup {t} ELSE present
  /\ Goto(t, "cache")
  /\ UNCHANGED <<appVars, first, got, old, same, num, busVars, deadAtRetry, reqVars>>

\* Mutant of ReadCache: a missing entry is taken for an id.
ReadCacheBlind(t) ==
  /\ pc[t] = "cache"
  /\ got' = [got EXCEPT ![t] = idCache[name[t]]]
  /\ Goto(t, "check")
  /\ UNCHANGED <<appVars, name, first, old, same, num, busVars, deadAtRetry,
                 present, reqVars>>

\* lookup with useCache: an entry answers, also the 0 of a failed lookup.
ReadCache(t) ==
  /\ pc[t] = "cache"
  /\ IF idCache[name[t]] = Uncached
       THEN Goto(t, "lookup_id") /\ UNCHANGED got
       ELSE got' = [got EXCEPT ![t] = idCache[name[t]]] /\ Goto(t, "check")
  /\ UNCHANGED <<appVars, name, first, old, same, num, busVars, deadAtRetry,
                 present, reqVars>>

LookupId(t) ==
  /\ pc[t] = "lookup_id"
  /\ got' = [got EXCEPT ![t] = IF link = "up" THEN busId[name[t]] ELSE 0]
  /\ Goto(t, "read")
  /\ UNCHANGED <<appVars, name, first, old, same, num, busVars, deadAtRetry,
                 present, reqVars>>

ReadMap(t) ==
  /\ pc[t] = "read"
  /\ old' = [old EXCEPT ![t] = idCache]
  /\ same' = same \cup {t}
  /\ Goto(t, "cas")
  /\ UNCHANGED <<appVars, name, first, got, num, busVars, deadAtRetry, present,
                 reqVars>>

\* Mutant of CompareAndSet: the new map is stored whatever is there by then.
CompareAndSetAlways(t) ==
  /\ pc[t] = "cas"
  /\ idCache' = [old[t] EXCEPT ![name[t]] = got[t]]
  /\ same' = {}
  /\ old' = [old EXCEPT ![t] = Nothing]
  /\ Goto(t, "check")
  /\ UNCHANGED <<alive, reqCounter, cbVars, name, first, got, num, busVars,
                 deadAtRetry, present, reqVars>>

\* A new map, copied from the old one, takes its place, unless another thread has
\* put one there in the meantime: then the result of this lookup is not cached.
CompareAndSet(t) ==
  /\ pc[t] = "cas"
  /\ IF t \in same
       THEN idCache' = [old[t] EXCEPT ![name[t]] = got[t]] /\ same' = {}
       ELSE UNCHANGED <<idCache, same>>
  /\ old' = [old EXCEPT ![t] = Nothing]
  /\ Goto(t, "check")
  /\ UNCHANGED <<alive, reqCounter, cbVars, name, first, got, num, busVars,
                 deadAtRetry, present, reqVars>>

CheckId(t) ==
  /\ pc[t] = "check"
  /\ Goto(t, IF got[t] = 0 THEN "refused" ELSE "make")
  /\ UNCHANGED <<appVars, name, first, got, old, same, num, busVars, deadAtRetry,
                 present, reqVars>>

\* "invoke err, lookup ${obj} failed"
Refuse(t) ==
  /\ pc[t] = "refused"
  /\ Finish(t)
  /\ UNCHANGED <<appVars, busVars, reqVars>>

MakeRequest(t) ==
  /\ pc[t] = "make"
  /\ reqCounter < MaxRequests
  /\ reqCounter' = reqCounter + 1
  /\ num' = [num EXCEPT ![t] = reqCounter + 1]
  /\ mem' = [mem EXCEPT ![reqCounter + 1] = "live"]
  /\ priv' = priv \cup {reqCounter + 1}
  /\ Goto(t, "parse")
  /\ UNCHANGED <<alive, idCache, callbacks, name, first, got, old, same, busVars,
                 deadAtRetry, present, reqVars>>

\* A payload that is no JSON: error() is kotlin.error here and throws.
Parse(t) ==
  /\ pc[t] = "parse"
  /\ \/ /\ Goto(t, "send")
        /\ UNCHANGED <<name, first, got, old, same, num, deadAtRetry, present>>
     \/ BadPayloads /\ Finish(t)
  /\ UNCHANGED <<appVars, busVars, reqVars>>

\* Mutant of InvokeAsync: the request is linked before it is sent.
InvokeAsyncLinks(t) ==
  /\ pc[t] = "send"
  /\ linked' = linked \cup {num[t]}
  /\ \E clears \in ClearsRequest :
       priv' = IF clears THEN priv \ {num[t]} ELSE priv
  /\ IF link = "up"
       THEN coming' = coming \cup {num[t]} /\ Goto(t, "complete_async")
       ELSE Goto(t, "failed") /\ UNCHANGED coming
  /\ UNCHANGED <<alive, idCache, reqCounter, mem, callbacks, name, first, got, old,
                 same, num, busVars, deadAtRetry, present, data, missed, answered>>

\* ubus_invoke_async fails only when the message cannot be written.
InvokeAsync(t) ==
  /\ pc[t] = "send"
  /\ \E clears \in ClearsRequest :
       priv' = IF clears THEN priv \ {num[t]} ELSE priv
  /\ IF link = "up"
       THEN coming' = coming \cup {num[t]} /\ Goto(t, "complete_async")
       ELSE Goto(t, "failed") /\ UNCHANGED coming
  /\ UNCHANGED <<alive, idCache, reqCounter, mem, callbacks, name, first, got, old,
                 same, num, busVars, deadAtRetry, present, linked, data, missed,
                 answered>>

CompleteRequestAsync(t) ==
  /\ pc[t] = "complete_async"
  /\ linked' = linked \cup {num[t]}
  /\ Finish(t)
  /\ UNCHANGED <<appVars, busVars, coming, data, missed, answered>>

\* Mutant of InvokeFailed: the second round looks into the cache again.
InvokeFailedCached(t) ==
  /\ pc[t] = "failed"
  /\ num[t] \in priv
  /\ mem' = [mem EXCEPT ![num[t]] = "cleared"]
  /\ IF first[t]
       THEN /\ first' = [first EXCEPT ![t] = FALSE]
            /\ deadAtRetry' = [deadAtRetry EXCEPT ![t] = dead]
            /\ got' = [got EXCEPT ![t] = 0]
            /\ num' = [num EXCEPT ![t] = 0]
            /\ Goto(t, "cache")
            /\ UNCHANGED <<name, old, same, present>>
       ELSE Finish(t)
  /\ UNCHANGED <<alive, idCache, reqCounter, priv, callbacks, busVars, reqVars>>

\* The request is given back; the first failure leads to a second round, which
\* asks ubusd for the id again.
InvokeFailed(t) ==
  /\ pc[t] = "failed"
  /\ num[t] \in priv
  /\ mem' = [mem EXCEPT ![num[t]] = "cleared"]
  /\ IF first[t]
       THEN /\ first' = [first EXCEPT ![t] = FALSE]
            /\ deadAtRetry' = [deadAtRetry EXCEPT ![t] = dead]
            /\ got' = [got EXCEPT ![t] = 0]
            /\ num' = [num EXCEPT ![t] = 0]
            /\ Goto(t, "lookup_id")
            /\ UNCHANGED <<name, old, same, present>>
       ELSE Finish(t)
  /\ UNCHANGED <<alive, idCache, reqCounter, priv, callbacks, busVars, reqVars>>

\* priv!! throws when ubus_invoke_async has cleared the request. Nothing is given
\* back, and there is no second round.
InvokeThrows(t) ==
  /\ pc[t] = "failed"
  /\ num[t] \notin priv
  /\ Finish(t)
  /\ UNCHANGED <<appVars, busVars, reqVars>>

-----------------------------------------------------------------------------
(* Messages of ubusd, dispatched by libubus.                               *)

\* data_cb tells the application and gives the request's memory back.
DataCb(n) ==
  IF n \in priv
    THEN /\ callbacks' = [callbacks EXCEPT ![n] = @ + 1]
         /\ mem' = [mem EXCEPT ![n] = "cleared"]
    ELSE UNCHANGED <<callbacks, mem>>

\* Mutant of CompleteCb: the status is not looked at.
CompleteCbAlways(n, failed) ==
  IF n \in priv
    THEN /\ callbacks' = [callbacks EXCEPT ![n] = @ + 1]
         /\ mem' = [mem EXCEPT ![n] = "cleared"]
    ELSE UNCHANGED <<callbacks, mem>>

\* complete_cb does the same when the status is an error.
CompleteCb(n, failed) ==
  IF n \in priv /\ failed
    THEN /\ callbacks' = [callbacks EXCEPT ![n] = @ + 1]
         /\ mem' = [mem EXCEPT ![n] = "cleared"]
    ELSE UNCHANGED <<callbacks, mem>>

ReceiveData(n) ==
  /\ n \in coming
  /\ data[n] < IF ProperCallees THEN 1 ELSE 2
  /\ data' = [data EXCEPT ![n] = @ + 1]
  /\ IF n \in linked THEN DataCb(n) /\ UNCHANGED missed
     ELSE missed' = missed \cup {n} /\ UNCHANGED <<callbacks, mem>>
  /\ UNCHANGED <<alive, idCache, reqCounter, priv, callVars, busVars, deadAtRetry,
                 present, linked, coming, answered>>

ReceiveStatus(n) ==
  /\ n \in coming
  /\ coming' = coming \ {n}
  /\ answered' = answered \cup {n}
  /\ \E failed \in BOOLEAN :
       /\ ProperCallees => (failed <=> data[n] = 0)
       /\ IF n \in linked
            THEN CompleteCb(n, failed) /\ linked' = linked \ {n} /\ UNCHANGED missed
            ELSE missed' = missed \cup {n} /\ UNCHANGED <<callbacks, mem, linked>>
  /\ UNCHANGED <<alive, idCache, reqCounter, priv, callVars, busVars, deadAtRetry,
                 present, data>>

-----------------------------------------------------------------------------
(* The connection and the other processes on the bus.                      *)

Drop ==
  /\ link = "up" /\ drops < MaxDrops
  /\ drops' = drops + 1
  /\ link' = "down"
  /\ coming' = {}
  /\ present' = {}
  /\ UNCHANGED <<appVars, callVars, busId, lastId, dead, deadAtRetry, linked, data,
                 missed, answered>>

\* connection_lost clears ctxAlive; the reconnect timer then restores the link.
LossSeen ==
  /\ link = "down" /\ alive = 1
  /\ alive' = 0
  /\ UNCHANGED <<idCache, reqCounter, cbVars, callVars, busVars, deadAtRetry,
                 present, reqVars>>

Reconnect ==
  /\ link = "down" /\ alive = 0
  /\ link' = "up"
  /\ UNCHANGED <<appVars, callVars, drops, busId, lastId, dead, deadAtRetry,
                 present, reqVars>>

Join(n) ==
  /\ busId[n] = 0 /\ lastId < MaxIds
  /\ lastId' = lastId + 1
  /\ busId' = [busId EXCEPT ![n] = lastId + 1]
  /\ UNCHANGED <<appVars, callVars, link, drops, dead, deadAtRetry, present, reqVars>>

Part(n) ==
  /\ busId[n] # 0
  /\ busId' = [busId EXCEPT ![n] = 0]
  /\ dead' = dead \cup {busId[n]}
  /\ present' = {t \in present : name[t] # n}
  /\ UNCHANGED <<appVars, callVars, link, drops, lastId, deadAtRetry, reqVars>>

-----------------------------------------------------------------------------
Next ==
  \/ \E t \in Invokers :
       \/ Invoke(t) \/ ReadCache(t) \/ LookupId(t) \/ ReadMap(t) \/ CompareAndSet(t)
       \/ CheckId(t) \/ Refuse(t) \/ MakeRequest(t) \/ Parse(t) \/ InvokeAsync(t)
       \/ CompleteRequestAsync(t) \/ InvokeFailed(t) \/ InvokeThrows(t)
  \/ \E n \in Numbers : ReceiveData(n) \/ ReceiveStatus(n)
  \/ \E n \in Names : Join(n) \/ Part(n)
  \/ Drop \/ LossSeen \/ Reconnect

Spec == Init /\ [][Next]_vars

-----------------------------------------------------------------------------
(* Properties.                                                             *)

\* A name that has been looked up stays in the cache: no thread's map takes the
\* place of one it is not a copy of, though copying and storing are two steps.
CacheKeepsNames ==
  [][\A n \in Names : idCache[n] # Uncached => idCache'[n] # Uncached]_vars

\* With callees that answer as ubus expects, the application hears of a request
\* once at most, by data_cb or by complete_cb and never by both, and what was
\* allocated for it is given back by the callback that tells it. It hears of every
\* request whose messages came after it was linked and that still has the callbacks
\* invoke set: a request that ubus_invoke_async has cleared has none.
OneCallback ==
  \A n \in Numbers :
    /\ callbacks[n] <= 1
    /\ callbacks[n] = 1 => mem[n] = "cleared"
    /\ n \in linked /\ data[n] = 0 => mem[n] = "live"
    /\ n \in (answered \ missed) \cap priv => callbacks[n] = 1

\* The second round never sends to an id that was gone when the first one failed:
\* it does not trust the cache.
RetryIsFresh ==
  \A t \in Invokers : pc[t] = "send" /\ ~first[t] => got[t] \notin deadAtRetry[t]

\* invoke says "lookup ${obj} failed" (Invoker.kt:21) of no object that has been
\* on the bus from the beginning of the call.
LookupFailedIsTrue == \A t \in Invokers : pc[t] = "refused" => t \notin present

\* A request completed asynchronously (libubus.h:262) is reported when its answer
\* comes, even at once.
AnswerReachesApp == \A n \in answered : callbacks[n] = 1

\* The assertion priv!! of the way out after a failed send (Invoker.kt:81).
PrivIsSet == \A t \in Invokers : pc[t] = "failed" => num[t] \in priv
=============================================================================

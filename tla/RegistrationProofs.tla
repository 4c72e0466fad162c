------------------------- MODULE RegistrationProofs -------------------------
(***************************************************************************)
(* Proofs about Registration, for any sets of objects and application      *)
(* threads and any bounds: nobody uses a context that is not ready, what   *)
(* counts as registered is on the bus, and no loss is forgotten.           *)
(***************************************************************************)
EXTENDS Registration, TLAPS

-----------------------------------------------------------------------------
(* Types. A thread inside the registration of an object has one.           *)

Busy == LibCalls \cup {"store", "alive", "registered", "onRegiste", "onSubscribe"}

CurInv ==
  /\ \A t \in Threads : pc[t] \in Busy => cur[t] \in Objects
  /\ \A t \in Threads :
       pc[t] \in {"registered", "register_subscriber", "lookup_id", "subscribe",
                  "onSubscribe"} => cur[t] \in Subscribers
  /\ \A t \in Threads :
       pc[t] \in {"register_event_handler", "register_pattern"} => cur[t] \in Listeners

TypeInv == TypeOK /\ CurInv

LEMMA TypeInit == Init => TypeInv
<1> SUFFICES ASSUME Init PROVE TypeInv
  OBVIOUS
<1>1. TypeOK
  <2>1. drops \in 0..MaxDrops /\ refusals \in 0..MaxRefusals /\ moves \in 0..MaxMoves
    BY BoundsAssumption DEF Init
  <2> QED BY <2>1 DEF Init, TypeOK, Places, LibCalls, SendCalls, LostPlaces
<1>2. CurInv
  BY DEF Init, CurInv, Busy, LibCalls
<1> QED BY <1>1, <1>2 DEF TypeInv

\* A step of any action keeps the types.
LEMMA TypeNext == TypeInv /\ [Next]_vars => TypeInv'
<1> SUFFICES ASSUME TypeInv, [Next]_vars PROVE TypeInv'
  OBVIOUS
<1> USE DEF appVars, confVars, callVars, lostVars, timerVars, linkVars, busVars, envVars,
           Places, LibCalls, SendCalls, LostPlaces, Busy, Objects, Threads
<1> USE BoundsAssumption, ObjectsAssumption, ThreadsAssumption
<1>1. CASE SetRegisteTimer
  BY <1>1 DEF SetRegisteTimer, Goto, At, TypeInv, TypeOK, CurInv
<1>2. CASE Connect
  BY <1>2 DEF Connect, Goto, At, TypeInv, TypeOK, CurInv
<1>3. CASE InstallHandler
  BY <1>3 DEF InstallHandler, Goto, At, TypeInv, TypeOK, CurInv
<1>4. CASE SetAlive
  BY <1>4 DEF SetAlive, Goto, At, TypeInv, TypeOK, CurInv
<1>5. CASE FireRegiste
  BY <1>5 DEF FireRegiste, Goto, At, TypeInv, TypeOK, CurInv
<1>6. CASE RearmRegiste
  BY <1>6 DEF RearmRegiste, Goto, At, TypeInv, TypeOK, CurInv
<1>7. CASE FireReconn
  BY <1>7 DEF FireReconn, Goto, At, TypeInv, TypeOK, CurInv
<1>8. CASE Reconnect
  <2>1. bus' \in [Objects -> Nat]
    BY <1>8 DEF Reconnect
  <2>2. pc' \in [Threads -> Places] /\ pc'[Loop] \notin Busy
        /\ \A t \in Threads : pc'[t] \in Busy => pc'[t] = pc[t]
    BY <1>8 DEF Reconnect, Goto, TypeInv, TypeOK
  <2>3. TypeOK'
    <3>1. /\ todo' \in [Threads -> SUBSET Objects] /\ tree' \subseteq Objects
          /\ link' \in {"none", "up", "down"} /\ refusals' \in 0..MaxRefusals
      BY <1>8 DEF Reconnect, TypeInv, TypeOK
    <3>2. patterns' \subseteq Listeners /\ subscribed' \subseteq Subscribers
          /\ removing' \subseteq Subscribers /\ watched' \in BOOLEAN
      BY <1>8 DEF Reconnect
    <3>3. UNCHANGED <<appVars, cur, draft, lostVars, timerVars, handler, added, targets,
                      drops, moves>>
      BY <1>8 DEF Reconnect
    <3> QED BY <2>1, <2>2, <3>1, <3>2, <3>3 DEF TypeInv, TypeOK
  <2>4. CurInv'
    BY <1>8, <2>2 DEF Reconnect, TypeInv, CurInv
  <2> QED BY <2>3, <2>4 DEF TypeInv
<1>9. CASE SetReconnTimer
  BY <1>9 DEF SetReconnTimer, Goto, At, TypeInv, TypeOK, CurInv
<1>10. CASE LoopSeesLoss
  BY <1>10 DEF LoopSeesLoss, At, TypeInv, TypeOK, CurInv
<1>11. ASSUME NEW t \in Threads, AddUloop(t) PROVE TypeInv'
  BY <1>11 DEF AddUloop, Goto, At, TypeInv, TypeOK, CurInv
<1>12. ASSUME NEW t \in Threads, Registe(t) PROVE TypeInv'
  BY <1>12 DEF Registe, Goto, At, TypeInv, TypeOK, CurInv
<1>13. ASSUME NEW t \in Threads, TakeNext(t) PROVE TypeInv'
  BY <1>13 DEF TakeNext, Goto, At, FirstOf, IsDone, TypeInv, TypeOK, CurInv
<1>14. ASSUME NEW t \in Threads, AllTaken(t) PROVE TypeInv'
  BY <1>14 DEF AllTaken, Goto, At, TypeInv, TypeOK, CurInv
<1>15. ASSUME NEW t \in Threads, CheckAlive(t) PROVE TypeInv'
  BY <1>15 DEF CheckAlive, Goto, Leave, At, TypeInv, TypeOK, CurInv
<1>16. ASSUME NEW t \in Threads, CheckRegistered(t) PROVE TypeInv'
  BY <1>16 DEF CheckRegistered, Goto, At, TypeInv, TypeOK, CurInv
<1>17. ASSUME NEW t \in Threads, AddObject(t) PROVE TypeInv'
  BY <1>17 DEF AddObject, Calling, Added, Goto, At, TypeInv, TypeOK, CurInv
<1>18. ASSUME NEW t \in Threads, LookupId(t) PROVE TypeInv'
  BY <1>18 DEF LookupId, Goto, At, TypeInv, TypeOK, CurInv
<1>19. ASSUME NEW t \in Threads, Subscribe(t) PROVE TypeInv'
  BY <1>19 DEF Subscribe, Goto, At, TypeInv, TypeOK, CurInv
<1>20. ASSUME NEW t \in Threads, CallRefused(t) PROVE TypeInv'
  BY <1>20 DEF CallRefused, Calling, Leave, Goto, TypeInv, TypeOK, CurInv
<1>21. ASSUME NEW t \in Threads, CallBroken(t) PROVE TypeInv'
  BY <1>21 DEF CallBroken, Calling, Leave, Goto, TypeInv, TypeOK, CurInv
<1>22. ASSUME NEW t \in Threads, OnRegiste(t) PROVE TypeInv'
  BY <1>22 DEF OnRegiste, Goto, Leave, At, TypeInv, TypeOK, CurInv
<1>23. ASSUME NEW t \in Threads, OnSubscribe(t) PROVE TypeInv'
  BY <1>23 DEF OnSubscribe, Leave, Goto, At, TypeInv, TypeOK, CurInv
<1>24. ASSUME NEW t \in Threads, ClearAlive(t) PROVE TypeInv'
  BY <1>24 DEF ClearAlive, TypeInv, TypeOK, CurInv
<1>25. ASSUME NEW t \in Threads, ReadConfig(t) PROVE TypeInv'
  BY <1>25 DEF ReadConfig, TypeInv, TypeOK, CurInv
<1>26. ASSUME NEW t \in Threads, OnLeave(t) PROVE TypeInv'
  BY <1>26 DEF OnLeave, FirstOf, TypeInv, TypeOK, CurInv
<1>27. ASSUME NEW t \in Threads, ArmReconn(t) PROVE TypeInv'
  BY <1>27 DEF ArmReconn, TypeInv, TypeOK, CurInv
<1>28. ASSUME NEW t \in Apps, CopyConfig(t) PROVE TypeInv'
  BY <1>28 DEF CopyConfig, Goto, At, TypeInv, TypeOK, CurInv
<1>29. ASSUME NEW t \in Apps, StoreConfig(t) PROVE TypeInv'
  BY <1>29 DEF StoreConfig, Leave, Goto, At, TypeInv, TypeOK, CurInv
<1>30. ASSUME NEW s \in Subscribers, RemoveCb(s) PROVE TypeInv'
  BY <1>30 DEF RemoveCb, TypeInv, TypeOK, CurInv
<1>31. ASSUME NEW s \in Subscribers, TargetMoves(s) PROVE TypeInv'
  BY <1>31 DEF TargetMoves, TypeInv, TypeOK, CurInv
<1>32. CASE Drop
  BY <1>32 DEF Drop, TypeInv, TypeOK, CurInv
<1>33. CASE UNCHANGED vars
  BY <1>33 DEF vars, TypeInv, TypeOK, CurInv
<1>34. ASSUME NEW t \in Senders, SendEvent(t) PROVE TypeInv'
  BY <1>34 DEF SendEvent, Goto, At, TypeInv, TypeOK, CurInv
<1>35. ASSUME NEW t \in Senders, Notify(t) PROVE TypeInv'
  BY <1>35 DEF Notify, Goto, At, TypeInv, TypeOK, CurInv
<1>36. ASSUME NEW t \in Senders, FindProvider(t) PROVE TypeInv'
  BY <1>36 DEF FindProvider, Goto, At, TypeInv, TypeOK, CurInv
<1>37. ASSUME NEW t \in Senders, Send(t) PROVE TypeInv'
  BY <1>37 DEF Send, Goto, TypeInv, TypeOK, CurInv
<1>38. CASE ReAdd
  BY <1>38 DEF ReAdd, Added, Goto, At, TypeInv, TypeOK, CurInv
<1>39. CASE Refreshed
  BY <1>39 DEF Refreshed, Goto, At, TypeInv, TypeOK, CurInv
<1>40. ASSUME NEW t \in Threads, SkipAdd(t) PROVE TypeInv'
  BY <1>40 DEF SkipAdd, Goto, At, TypeInv, TypeOK, CurInv
<1>41. ASSUME NEW t \in Threads, RegisterPattern(t) PROVE TypeInv'
  BY <1>41 DEF RegisterPattern, Goto, At, TypeInv, TypeOK, CurInv
<1> QED
  BY <1>1, <1>2, <1>3, <1>4, <1>5, <1>6, <1>7, <1>8, <1>9, <1>10, <1>11,
     <1>12, <1>13, <1>14, <1>15, <1>16, <1>17, <1>18, <1>19, <1>20, <1>21,
     <1>22, <1>23, <1>24, <1>25, <1>26, <1>27, <1>28, <1>29, <1>30, <1>31,
     <1>32, <1>33, <1>34, <1>35, <1>36, <1>37, <1>38, <1>39, <1>40, <1>41
  DEF Next, WorkerSteps, LoopSteps, RegisterSteps, LostSteps, SendSteps

\* Every variable of Registration keeps its type: in particular the Config, the
\* registered flags and the objects on the bus always speak of objects the
\* application has made (Config.kt, Subscriber.kt, Ubus.kt).
THEOREM TypeCorrect == Spec => []TypeOK
<1>1. TypeInv => TypeOK
  BY DEF TypeInv
<1> QED BY <1>1, TypeInit, TypeNext, PTL DEF Spec

-----------------------------------------------------------------------------
(* ContextReady. Until start() has installed its callback the context is   *)
(* not alive, not in the loop, and no thread is past a guard that leads to *)
(* a call of libubus; the reconnect timer cannot run before a loss.        *)

Beyond == LibCalls \cup SendCalls \cup
  {"registered", "onRegiste", "onSubscribe", "find", "add_uloop", "setAlive",
   "reconnect", "refresh", "setReconnTimer"}

ReadyInv ==
  /\ pc[Worker] \in {"setRegisteTimer", "connect", "install"} => handler # "app"
  /\ handler # "app" =>
       /\ alive = 0 /\ ~watched /\ reconnTimers = {} /\ tree = {} /\ added = {}
       /\ \A o \in Objects : reg[o] = "left"
       /\ \A t \in Threads : pc[t] \notin Beyond /\ lost[t] = "no"
       /\ removing = {} /\ subscribed = {} /\ patterns = {}
       /\ \A o \in Objects : bus[o] = 0
  /\ link = "none" <=> pc[Worker] \in {"setRegisteTimer", "connect"}

LEMMA ReadyInit == Init => ReadyInv
  BY ThreadsAssumption DEF Init, ReadyInv, Beyond, LibCalls, SendCalls, Threads

\* A step of any action keeps ReadyInv.
LEMMA ReadyNext == TypeInv /\ ReadyInv /\ [Next]_vars => ReadyInv'
<1> SUFFICES ASSUME TypeInv, ReadyInv, [Next]_vars PROVE ReadyInv'
  OBVIOUS
<1> USE DEF appVars, confVars, callVars, lostVars, timerVars, linkVars, busVars, envVars,
           LibCalls, SendCalls, Beyond, Threads
<1> USE ThreadsAssumption
<1>1. CASE SetRegisteTimer
  BY <1>1 DEF SetRegisteTimer, Goto, At, ReadyInv, TypeInv, TypeOK, CurInv
<1>2. CASE Connect
  BY <1>2 DEF Connect, Goto, At, ReadyInv, TypeInv, TypeOK, CurInv
<1>3. CASE InstallHandler
  BY <1>3 DEF InstallHandler, Goto, At, ReadyInv, TypeInv, TypeOK, CurInv
<1>4. CASE SetAlive
  BY <1>4 DEF SetAlive, Goto, At, ReadyInv, TypeInv, TypeOK, CurInv
<1>5. CASE FireRegiste
  BY <1>5 DEF FireRegiste, Goto, At, ReadyInv, TypeInv, TypeOK, CurInv
<1>6. CASE RearmRegiste
  BY <1>6 DEF RearmRegiste, Goto, At, ReadyInv, TypeInv, TypeOK, CurInv
<1>7. CASE FireReconn
  BY <1>7 DEF FireReconn, Goto, At, ReadyInv, TypeInv, TypeOK, CurInv
<1>8. CASE Reconnect
  BY <1>8 DEF Reconnect, Goto, At, ReadyInv, TypeInv, TypeOK, CurInv
<1>9. CASE SetReconnTimer
  BY <1>9 DEF SetReconnTimer, Goto, At, ReadyInv, TypeInv, TypeOK, CurInv
<1>10. CASE LoopSeesLoss
  BY <1>10 DEF LoopSeesLoss, At, ReadyInv, TypeInv, TypeOK, CurInv
<1>11. ASSUME NEW t \in Threads, AddUloop(t) PROVE ReadyInv'
  BY <1>11 DEF AddUloop, Goto, At, ReadyInv, TypeInv, TypeOK, CurInv
<1>12. ASSUME NEW t \in Threads, Registe(t) PROVE ReadyInv'
  BY <1>12 DEF Registe, Goto, At, ReadyInv, TypeInv, TypeOK, CurInv
<1>13. ASSUME NEW t \in Threads, TakeNext(t) PROVE ReadyInv'
  BY <1>13
  DEF TakeNext, Goto, At, FirstOf, IsDone, ReadyInv, TypeInv, TypeOK, CurInv
<1>14. ASSUME NEW t \in Threads, AllTaken(t) PROVE ReadyInv'
  BY <1>14 DEF AllTaken, Goto, At, ReadyInv, TypeInv, TypeOK, CurInv
<1>15. ASSUME NEW t \in Threads, CheckAlive(t) PROVE ReadyInv'
  BY <1>15 DEF CheckAlive, Goto, Leave, At, ReadyInv, TypeInv, TypeOK, CurInv
<1>16. ASSUME NEW t \in Threads, CheckRegistered(t) PROVE ReadyInv'
  BY <1>16 DEF CheckRegistered, Goto, At, ReadyInv, TypeInv, TypeOK, CurInv
<1>17. ASSUME NEW t \in Threads, AddObject(t) PROVE ReadyInv'
  BY <1>17 DEF AddObject, Calling, Added, Goto, At, ReadyInv, TypeInv, TypeOK, CurInv
<1>18. ASSUME NEW t \in Threads, LookupId(t) PROVE ReadyInv'
  BY <1>18 DEF LookupId, Goto, At, ReadyInv, TypeInv, TypeOK, CurInv
<1>19. ASSUME NEW t \in Threads, Subscribe(t) PROVE ReadyInv'
  BY <1>19 DEF Subscribe, Goto, At, ReadyInv, TypeInv, TypeOK, CurInv
<1>20. ASSUME NEW t \in Threads, CallRefused(t) PROVE ReadyInv'
  BY <1>20 DEF CallRefused, Calling, Leave, Goto, ReadyInv, TypeInv, TypeOK, CurInv
<1>21. ASSUME NEW t \in Threads, CallBroken(t) PROVE ReadyInv'
  BY <1>21 DEF CallBroken, Calling, Leave, Goto, ReadyInv, TypeInv, TypeOK, CurInv
<1>22. ASSUME NEW t \in Threads, OnRegiste(t) PROVE ReadyInv'
  BY <1>22 DEF OnRegiste, Goto, Leave, At, ReadyInv, TypeInv, TypeOK, CurInv
<1>23. ASSUME NEW t \in Threads, OnSubscribe(t) PROVE ReadyInv'
  BY <1>23 DEF OnSubscribe, Leave, Goto, At, ReadyInv, TypeInv, TypeOK, CurInv
<1>24. ASSUME NEW t \in Threads, ClearAlive(t) PROVE ReadyInv'
  BY <1>24 DEF ClearAlive, ReadyInv, TypeInv, TypeOK, CurInv
<1>25. ASSUME NEW t \in Threads, ReadConfig(t) PROVE ReadyInv'
  BY <1>25 DEF ReadConfig, ReadyInv, TypeInv, TypeOK, CurInv
<1>26. ASSUME NEW t \in Threads, OnLeave(t) PROVE ReadyInv'
  BY <1>26 DEF OnLeave, FirstOf, ReadyInv, TypeInv, TypeOK, CurInv
<1>27. ASSUME NEW t \in Threads, ArmReconn(t) PROVE ReadyInv'
  BY <1>27 DEF ArmReconn, ReadyInv, TypeInv, TypeOK, CurInv
<1>28. ASSUME NEW t \in Apps, CopyConfig(t) PROVE ReadyInv'
  BY <1>28 DEF CopyConfig, Goto, At, ReadyInv, TypeInv, TypeOK, CurInv
<1>29. ASSUME NEW t \in Apps, StoreConfig(t) PROVE ReadyInv'
  BY <1>29 DEF StoreConfig, Leave, Goto, At, ReadyInv, TypeInv, TypeOK, CurInv
<1>30. ASSUME NEW s \in Subscribers, RemoveCb(s) PROVE ReadyInv'
  BY <1>30 DEF RemoveCb, ReadyInv, TypeInv, TypeOK, CurInv
<1>31. ASSUME NEW s \in Subscribers, TargetMoves(s) PROVE ReadyInv'
  BY <1>31 DEF TargetMoves, ReadyInv, TypeInv, TypeOK, CurInv
<1>32. CASE Drop
  BY <1>32 DEF Drop, ReadyInv, TypeInv, TypeOK, CurInv
<1>33. CASE UNCHANGED vars
  BY <1>33 DEF vars, ReadyInv, TypeInv, TypeOK, CurInv
<1>34. ASSUME NEW t \in Senders, SendEvent(t) PROVE ReadyInv'
  BY <1>34 DEF SendEvent, Goto, At, ReadyInv, TypeInv, TypeOK, CurInv
<1>35. ASSUME NEW t \in Senders, Notify(t) PROVE ReadyInv'
  BY <1>35 DEF Notify, Goto, At, ReadyInv, TypeInv, TypeOK, CurInv
<1>36. ASSUME NEW t \in Senders, FindProvider(t) PROVE ReadyInv'
  BY <1>36 DEF FindProvider, Goto, At, ReadyInv, TypeInv, TypeOK, CurInv
<1>37. ASSUME NEW t \in Senders, Send(t) PROVE ReadyInv'
  BY <1>37 DEF Send, Goto, ReadyInv, TypeInv, TypeOK, CurInv
<1>38. CASE ReAdd
  BY <1>38 DEF ReAdd, Added, Goto, At, ReadyInv, TypeInv, TypeOK, CurInv
<1>39. CASE Refreshed
  BY <1>39 DEF Refreshed, Goto, At, ReadyInv, TypeInv, TypeOK, CurInv
<1>40. ASSUME NEW t \in Threads, SkipAdd(t) PROVE ReadyInv'
  BY <1>40 DEF SkipAdd, Goto, At, ReadyInv, TypeInv, TypeOK, CurInv
<1>41. ASSUME NEW t \in Threads, RegisterPattern(t) PROVE ReadyInv'
  BY <1>41 DEF RegisterPattern, Goto, At, ReadyInv, TypeInv, TypeOK, CurInv
<1> QED
  BY <1>1, <1>2, <1>3, <1>4, <1>5, <1>6, <1>7, <1>8, <1>9, <1>10, <1>11,
     <1>12, <1>13, <1>14, <1>15, <1>16, <1>17, <1>18, <1>19, <1>20, <1>21,
     <1>22, <1>23, <1>24, <1>25, <1>26, <1>27, <1>28, <1>29, <1>30, <1>31,
     <1>32, <1>33, <1>34, <1>35, <1>36, <1>37, <1>38, <1>39, <1>40, <1>41
  DEF Next, WorkerSteps, LoopSteps, RegisterSteps, LostSteps, SendSteps

\* Nobody uses the context before start() has connected it and replaced the
\* default callback: see ContextReady.
THEOREM ContextIsReady == Spec => []ContextReady
<1>1. ReadyInv => ContextReady
  BY DEF ReadyInv, ContextReady, Beyond
<1> QED BY <1>1, TypeInit, TypeNext, ReadyInit, ReadyNext, PTL DEF Spec

-----------------------------------------------------------------------------
(* LossIsPending. The same must hold while the link is up, so that a loss  *)
(* at any moment finds something that will see it.                         *)

Attended ==
  \/ watched
  \/ \E t \in Threads : lost[t] # "no"
  \/ reconnTimers # {}
  \/ pc[Worker] \in {"install", "add_uloop"}
  \/ pc[Loop] \in {"reconnect", "refresh", "add_uloop", "setReconnTimer"}

PendInv == link # "none" => Attended

LEMMA PendInit == Init => PendInv
  BY DEF Init, PendInv

\* A step of any action keeps PendInv.
LEMMA PendNext == TypeInv /\ ReadyInv /\ PendInv /\ [Next]_vars => PendInv'
<1> SUFFICES ASSUME TypeInv, ReadyInv, PendInv, [Next]_vars PROVE PendInv'
  OBVIOUS
<1> USE DEF appVars, confVars, callVars, lostVars, timerVars, linkVars, busVars, envVars,
           LibCalls, SendCalls, Threads
<1> USE ThreadsAssumption
<1>1. CASE SetRegisteTimer
  BY <1>1
  DEF SetRegisteTimer, Goto, At, PendInv, Attended, ReadyInv, TypeInv, TypeOK
<1>2. CASE Connect
  BY <1>2 DEF Connect, Goto, At, PendInv, Attended, ReadyInv, TypeInv, TypeOK
<1>3. CASE InstallHandler
  BY <1>3
  DEF InstallHandler, Goto, At, PendInv, Attended, ReadyInv, TypeInv, TypeOK
<1>4. CASE SetAlive
  BY <1>4 DEF SetAlive, Goto, At, PendInv, Attended, ReadyInv, TypeInv, TypeOK
<1>5. CASE FireRegiste
  BY <1>5
  DEF FireRegiste, Goto, At, PendInv, Attended, ReadyInv, TypeInv, TypeOK
<1>6. CASE RearmRegiste
  BY <1>6
  DEF RearmRegiste, Goto, At, PendInv, Attended, ReadyInv, TypeInv, TypeOK
<1>7. CASE FireReconn
  BY <1>7 DEF FireReconn, Goto, At, PendInv, Attended, ReadyInv, TypeInv, TypeOK
<1>8. CASE Reconnect
  BY <1>8 DEF Reconnect, Goto, At, PendInv, Attended, ReadyInv, TypeInv, TypeOK
<1>9. CASE SetReconnTimer
  BY <1>9
  DEF SetReconnTimer, Goto, At, PendInv, Attended, ReadyInv, TypeInv, TypeOK
<1>10. CASE LoopSeesLoss
  BY <1>10 DEF LoopSeesLoss, At, PendInv, Attended, ReadyInv, TypeInv, TypeOK
<1>11. ASSUME NEW t \in Threads, AddUloop(t) PROVE PendInv'
  BY <1>11 DEF AddUloop, Goto, At, PendInv, Attended, ReadyInv, TypeInv, TypeOK
<1>12. ASSUME NEW t \in Threads, Registe(t) PROVE PendInv'
  BY <1>12 DEF Registe, Goto, At, PendInv, Attended, ReadyInv, TypeInv, TypeOK
<1>13. ASSUME NEW t \in Threads, TakeNext(t) PROVE PendInv'
  BY <1>13
  DEF TakeNext, Goto, At, FirstOf, IsDone, PendInv, Attended, ReadyInv,
      TypeInv, TypeOK
<1>14. ASSUME NEW t \in Threads, AllTaken(t) PROVE PendInv'
  BY <1>14 DEF AllTaken, Goto, At, PendInv, Attended, ReadyInv, TypeInv, TypeOK
<1>15. ASSUME NEW t \in Threads, CheckAlive(t) PROVE PendInv'
  BY <1>15
  DEF CheckAlive, Goto, Leave, At, PendInv, Attended, ReadyInv, TypeInv,
      TypeOK
<1>16. ASSUME NEW t \in Threads, CheckRegistered(t) PROVE PendInv'
  BY <1>16
  DEF CheckRegistered, Goto, At, PendInv, Attended, ReadyInv, TypeInv, TypeOK
<1>17. ASSUME NEW t \in Threads, AddObject(t) PROVE PendInv'
  BY <1>17 DEF AddObject, Calling, Added, Goto, At, PendInv, Attended, ReadyInv, TypeInv, TypeOK
<1>18. ASSUME NEW t \in Threads, LookupId(t) PROVE PendInv'
  BY <1>18 DEF LookupId, Goto, At, PendInv, Attended, ReadyInv, TypeInv, TypeOK
<1>19. ASSUME NEW t \in Threads, Subscribe(t) PROVE PendInv'
  BY <1>19 DEF Subscribe, Goto, At, PendInv, Attended, ReadyInv, TypeInv, TypeOK
<1>20. ASSUME NEW t \in Threads, CallRefused(t) PROVE PendInv'
  BY <1>20
  DEF CallRefused, Calling, Leave, Goto, PendInv, Attended, ReadyInv, TypeInv, TypeOK
<1>21. ASSUME NEW t \in Threads, CallBroken(t) PROVE PendInv'
  BY <1>21
  DEF CallBroken, Calling, Leave, Goto, PendInv, Attended, ReadyInv, TypeInv, TypeOK
<1>22. ASSUME NEW t \in Threads, OnRegiste(t) PROVE PendInv'
  BY <1>22
  DEF OnRegiste, Goto, Leave, At, PendInv, Attended, ReadyInv, TypeInv, TypeOK
<1>23. ASSUME NEW t \in Threads, OnSubscribe(t) PROVE PendInv'
  BY <1>23
  DEF OnSubscribe, Leave, Goto, At, PendInv, Attended, ReadyInv, TypeInv,
      TypeOK
<1>24. ASSUME NEW t \in Threads, ClearAlive(t) PROVE PendInv'
  BY <1>24 DEF ClearAlive, PendInv, Attended, ReadyInv, TypeInv, TypeOK
<1>25. ASSUME NEW t \in Threads, ReadConfig(t) PROVE PendInv'
  BY <1>25 DEF ReadConfig, PendInv, Attended, ReadyInv, TypeInv, TypeOK
<1>26. ASSUME NEW t \in Threads, OnLeave(t) PROVE PendInv'
  BY <1>26 DEF OnLeave, FirstOf, PendInv, Attended, ReadyInv, TypeInv, TypeOK
<1>27. ASSUME NEW t \in Threads, ArmReconn(t) PROVE PendInv'
  BY <1>27 DEF ArmReconn, PendInv, Attended, ReadyInv, TypeInv, TypeOK
<1>28. ASSUME NEW t \in Apps, CopyConfig(t) PROVE PendInv'
  BY <1>28
  DEF CopyConfig, Goto, At, PendInv, Attended, ReadyInv, TypeInv, TypeOK
<1>29. ASSUME NEW t \in Apps, StoreConfig(t) PROVE PendInv'
  BY <1>29
  DEF StoreConfig, Leave, Goto, At, PendInv, Attended, ReadyInv, TypeInv,
      TypeOK
<1>30. ASSUME NEW s \in Subscribers, RemoveCb(s) PROVE PendInv'
  BY <1>30 DEF RemoveCb, PendInv, Attended, ReadyInv, TypeInv, TypeOK
<1>31. ASSUME NEW s \in Subscribers, TargetMoves(s) PROVE PendInv'
  BY <1>31 DEF TargetMoves, PendInv, Attended, ReadyInv, TypeInv, TypeOK
<1>32. CASE Drop
  BY <1>32 DEF Drop, PendInv, Attended, ReadyInv, TypeInv, TypeOK
<1>33. CASE UNCHANGED vars
  BY <1>33 DEF vars, PendInv, Attended, ReadyInv, TypeInv, TypeOK
<1>34. ASSUME NEW t \in Senders, SendEvent(t) PROVE PendInv'
  BY <1>34 DEF SendEvent, Goto, At, PendInv, Attended, ReadyInv, TypeInv, TypeOK
<1>35. ASSUME NEW t \in Senders, Notify(t) PROVE PendInv'
  BY <1>35 DEF Notify, Goto, At, PendInv, Attended, ReadyInv, TypeInv, TypeOK
<1>36. ASSUME NEW t \in Senders, FindProvider(t) PROVE PendInv'
  BY <1>36 DEF FindProvider, Goto, At, PendInv, Attended, ReadyInv, TypeInv, TypeOK
<1>37. ASSUME NEW t \in Senders, Send(t) PROVE PendInv'
  BY <1>37 DEF Send, Goto, PendInv, Attended, ReadyInv, TypeInv, TypeOK
<1>38. CASE ReAdd
  BY <1>38 DEF ReAdd, Added, Goto, At, PendInv, Attended, ReadyInv, TypeInv, TypeOK
<1>39. CASE Refreshed
  BY <1>39 DEF Refreshed, Goto, At, PendInv, Attended, ReadyInv, TypeInv, TypeOK
<1>40. ASSUME NEW t \in Threads, SkipAdd(t) PROVE PendInv'
  BY <1>40 DEF SkipAdd, Goto, At, PendInv, Attended, ReadyInv, TypeInv, TypeOK
<1>41. ASSUME NEW t \in Threads, RegisterPattern(t) PROVE PendInv'
  BY <1>41 DEF RegisterPattern, Goto, At, PendInv, Attended, ReadyInv, TypeInv, TypeOK
<1> QED
  BY <1>1, <1>2, <1>3, <1>4, <1>5, <1>6, <1>7, <1>8, <1>9, <1>10, <1>11,
     <1>12, <1>13, <1>14, <1>15, <1>16, <1>17, <1>18, <1>19, <1>20, <1>21,
     <1>22, <1>23, <1>24, <1>25, <1>26, <1>27, <1>28, <1>29, <1>30, <1>31,
     <1>32, <1>33, <1>34, <1>35, <1>36, <1>37, <1>38, <1>39, <1>40, <1>41
  DEF Next, WorkerSteps, LoopSteps, RegisterSteps, LostSteps, SendSteps

\* A broken connection is never forgotten: see LossIsPending.
THEOREM LossStaysPending == Spec => []LossIsPending
<1>1. PendInv => LossIsPending
  BY DEF PendInv, Attended, LossIsPending
<1> QED BY <1>1, TypeInit, TypeNext, ReadyInit, ReadyNext, PendInit, PendNext,
           PTL DEF Spec

\* The places of the loop at which the registe timer has to be armed.
Between == {"idle", "reconnect", "refresh", "add_uloop", "setReconnTimer"}

\* A step of any action keeps RetryIsPending.
LEMMA RetryNext == TypeInv /\ RetryIsPending /\ [Next]_vars => RetryIsPending'
<1> SUFFICES ASSUME TypeInv, RetryIsPending, [Next]_vars PROVE RetryIsPending'
  OBVIOUS
<1> USE ThreadsAssumption
    DEF appVars, confVars, callVars, lostVars, timerVars, linkVars, busVars, envVars
<1>1. ASSUME UNCHANGED registeTimer,
             pc'[Loop] \in Between => pc[Loop] \in Between,
             pc[Worker] = "setRegisteTimer" => pc'[Worker] = "setRegisteTimer"
      PROVE  RetryIsPending'
  BY <1>1 DEF RetryIsPending, Between
<1>2. ASSUME registeTimer' = TRUE \/ pc'[Loop] = "registe" PROVE RetryIsPending'
  BY <1>2 DEF RetryIsPending
<1>3. CASE SetRegisteTimer \/ RearmRegiste \/ FireRegiste
  BY <1>2, <1>3
  DEF SetRegisteTimer, RearmRegiste, FireRegiste, Goto, Threads, TypeInv, TypeOK
<1>4. CASE Connect \/ InstallHandler \/ SetAlive
  BY <1>1, <1>4
  DEF Connect, InstallHandler, SetAlive, At, Goto, Threads, TypeInv, TypeOK
<1>5. CASE FireReconn \/ Reconnect \/ ReAdd \/ Refreshed \/ SetReconnTimer \/ LoopSeesLoss
  BY <1>1, <1>5
  DEF FireReconn, Reconnect, ReAdd, Refreshed, SetReconnTimer, LoopSeesLoss, At, Goto, Between, Threads,
      TypeInv, TypeOK
<1>6. ASSUME NEW t \in Threads, AddUloop(t) PROVE RetryIsPending'
  BY <1>1, <1>6 DEF AddUloop, At, Goto, Between, TypeInv, TypeOK
<1>7. ASSUME NEW t \in Threads, RegisterSteps(t) PROVE RetryIsPending'
  <2>1. UNCHANGED registeTimer /\ pc[t] # "setRegisteTimer"
        /\ \A u \in Threads : u # t => pc'[u] = pc[u]
    BY <1>7
    DEF RegisterSteps, Registe, TakeNext, AllTaken, CheckAlive, CheckRegistered, AddObject,
        SkipAdd, RegisterPattern, LookupId, Subscribe, CallRefused, CallBroken, OnRegiste,
        OnSubscribe, Calling, At, Goto,
        Leave, LibCalls, TypeInv, TypeOK
  <2>2. t = Loop => pc'[t] \notin Between
    BY <1>7
    DEF RegisterSteps, Registe, TakeNext, AllTaken, CheckAlive, CheckRegistered, AddObject,
        SkipAdd, RegisterPattern, LookupId, Subscribe, CallRefused, CallBroken, OnRegiste,
        OnSubscribe, Calling, At, Goto,
        Leave, Between, LibCalls, TypeInv, TypeOK
  <2> QED BY <1>1, <2>1, <2>2 DEF Threads
<1>8. ASSUME NEW t \in Threads, LostSteps(t) PROVE RetryIsPending'
  BY <1>1, <1>8 DEF LostSteps, ClearAlive, ReadConfig, OnLeave, ArmReconn
<1>9. ASSUME NEW t \in Apps,
             CopyConfig(t) \/ StoreConfig(t) \/ (t \in Senders /\ SendSteps(t))
      PROVE  RetryIsPending'
  <2>1. UNCHANGED registeTimer /\ t \notin {Loop, Worker}
        /\ \A u \in Threads : u # t => pc'[u] = pc[u]
    BY <1>9
    DEF CopyConfig, StoreConfig, SendSteps, SendEvent, Notify, FindProvider, Send, Goto,
        Leave, Threads, TypeInv, TypeOK
  <2> QED BY <1>1, <2>1 DEF Threads
<1>10. ASSUME NEW s \in Subscribers, RemoveCb(s) \/ TargetMoves(s) PROVE RetryIsPending'
  BY <1>1, <1>10 DEF RemoveCb, TargetMoves
<1>11. CASE Drop \/ UNCHANGED vars
  BY <1>1, <1>11 DEF Drop, vars
<1> QED BY <1>3, <1>4, <1>5, <1>6, <1>7, <1>8, <1>9, <1>10, <1>11
        DEF Next, WorkerSteps, LoopSteps

\* Whatever a round of the registe timer meets, the next one follows
\* (Ubus.kt setRegisteTimer): see RetryIsPending.
THEOREM RetriesStayPending == Spec => []RetryIsPending
<1>1. Init => RetryIsPending
  BY DEF Init, RetryIsPending, Threads
<1> QED BY <1>1, TypeInit, TypeNext, RetryNext, PTL DEF Spec

-----------------------------------------------------------------------------
(* What has been added. libubus, ubusd and the flags speak of objects that *)
(* have been added to some connection, and so do the threads that are past *)
(* the adding; without a connection ubusd has nothing.                     *)

\* Places behind a successful add.
Knowing == {"register_pattern", "onRegiste", "lookup_id", "subscribe", "onSubscribe"}

KnownInv ==
  /\ tree \subseteq added
  /\ pc[Loop] = "refresh" => todo[Loop] \subseteq added
  /\ \A o \in Objects : bus[o] > 0 \/ reg[o] # "left" => o \in added
  /\ \A t \in Threads : pc[t] \in Knowing => cur[t] \in added

DownInv ==
  link # "up" =>
    (\A o \in Objects : bus[o] = 0) /\ patterns = {} /\ subscribed = {}

LEMMA KnownInit == Init => KnownInv /\ DownInv
  BY ThreadsAssumption DEF Init, KnownInv, DownInv, Knowing, Threads

\* A step of any action keeps KnownInv.
LEMMA KnownNext == TypeInv /\ KnownInv /\ [Next]_vars => KnownInv'
<1> SUFFICES ASSUME TypeInv, KnownInv, [Next]_vars PROVE KnownInv'
  OBVIOUS
<1> USE ThreadsAssumption
    DEF appVars, confVars, callVars, lostVars, timerVars, linkVars, busVars, envVars
\* A step that adds nothing, of a thread that knows what it knew before.
<1>1. ASSUME UNCHANGED <<tree, added, bus>>,
             \A o \in Objects : reg'[o] # "left" => reg[o] # "left" \/ o \in added,
             \A u \in Threads : pc'[u] \in Knowing => cur'[u] \in added,
             pc'[Loop] = "refresh" => todo'[Loop] \subseteq added
      PROVE  KnownInv'
  BY <1>1 DEF KnownInv
<1>2. ASSUME UNCHANGED <<reg, tree, added, bus, cur>>,
             \A u \in Threads : pc'[u] \in Knowing => pc[u] \in Knowing,
             pc'[Loop] = "refresh" => pc[Loop] = "refresh" /\ todo'[Loop] \subseteq todo[Loop]
      PROVE  KnownInv'
  BY <1>1, <1>2 DEF KnownInv
<1>3. CASE WorkerSteps
  BY <1>2, <1>3 DEF WorkerSteps, SetRegisteTimer, Connect, InstallHandler, SetAlive, Goto,
                    Knowing, Threads, TypeInv, TypeOK
<1>4. CASE FireRegiste \/ RearmRegiste \/ FireReconn \/ SetReconnTimer \/ LoopSeesLoss
           \/ Refreshed
  BY <1>2, <1>4 DEF FireRegiste, RearmRegiste, FireReconn, SetReconnTimer, LoopSeesLoss,
                    Refreshed, Goto, Knowing, Threads, TypeInv, TypeOK
<1>5. CASE Reconnect
  <2>1. /\ UNCHANGED <<reg, added, cur>> /\ tree' \subseteq tree
        /\ \A o \in Objects : bus'[o] = 0
        /\ \A u \in Threads : pc'[u] \in Knowing => pc[u] \in Knowing
        /\ pc'[Loop] = "refresh" => todo'[Loop] = tree
    BY <1>5 DEF Reconnect, Goto, Knowing, Threads, TypeInv, TypeOK
  <2> QED BY <2>1 DEF KnownInv
<1>6. CASE ReAdd
  <2>1. PICK o \in todo[Loop] :
          /\ todo' = [todo EXCEPT ![Loop] = @ \ {o}]
          /\ Added(o) \/ UNCHANGED <<tree, added, bus>>
    BY <1>6 DEF ReAdd
  <2>2. /\ pc[Loop] = "refresh" /\ UNCHANGED <<reg, pc, cur>> /\ o \in added
        /\ todo'[Loop] \subseteq added
    BY <1>6, <2>1 DEF ReAdd, At, KnownInv, Threads, TypeInv, TypeOK
  <2>3. CASE Added(o)
    <3>1. added' = added /\ tree' \subseteq added
          /\ \A x \in Objects : x # o => bus'[x] = bus[x]
      BY <2>2, <2>3 DEF Added, KnownInv, TypeInv, TypeOK
    <3> QED BY <2>2, <3>1 DEF KnownInv
  <2>4. CASE UNCHANGED <<tree, added, bus>>
    BY <2>2, <2>4 DEF KnownInv
  <2> QED BY <2>1, <2>3, <2>4
<1>7. ASSUME NEW t \in Threads, RegisterSteps(t) PROVE KnownInv'
  <2>1. CASE Registe(t) \/ TakeNext(t) \/ AllTaken(t) \/ CheckAlive(t)
    <3>1. /\ UNCHANGED <<reg, tree, added, bus>>
          /\ \A u \in Threads : pc'[u] \in Knowing => pc[u] \in Knowing /\ cur'[u] = cur[u]
      BY <2>1 DEF Registe, TakeNext, AllTaken, CheckAlive, At, Goto, Leave, Knowing,
                  TypeInv, TypeOK
    <3>2. pc'[Loop] = "refresh" => pc[Loop] = "refresh" /\ todo'[Loop] = todo[Loop]
      BY <2>1 DEF Registe, TakeNext, AllTaken, CheckAlive, At, Goto, Leave, Threads,
                  TypeInv, TypeOK
    <3> QED BY <1>1, <3>1, <3>2 DEF KnownInv
  <2>2. CASE CheckRegistered(t)
    <3>1. /\ pc[t] = "registered" /\ UNCHANGED <<reg, tree, added, bus, cur, todo>>
          /\ pc'[t] = "lookup_id" => reg[cur[t]] = "registered"
          /\ pc'[t] \in {"lookup_id", "register_subscriber"}
          /\ \A u \in Threads : u # t => pc'[u] = pc[u]
      BY <2>2 DEF CheckRegistered, At, Goto, TypeInv, TypeOK
    <3>2. cur[t] \in Objects
      BY <3>1 DEF TypeInv, CurInv, Busy
    <3> QED BY <1>1, <3>1, <3>2 DEF KnownInv, Knowing, Threads
  <2>3. CASE AddObject(t)
    <3>1. /\ Added(cur[t]) /\ UNCHANGED <<reg, cur, todo>>
          /\ pc' = [pc EXCEPT ![t] = pc'[t]] /\ pc'[t] # "refresh"
      BY <2>3 DEF AddObject, Goto, TypeInv, TypeOK
    <3>2. /\ tree' = tree \cup {cur[t]} /\ added' = added \cup {cur[t]}
          /\ \A o \in Objects : o # cur[t] => bus'[o] = bus[o]
      BY <3>1 DEF Added, TypeInv, TypeOK
    <3>3. /\ \A u \in Threads : u # t => pc'[u] = pc[u]
          /\ pc'[Loop] = "refresh" => pc[Loop] = "refresh"
      BY <3>1 DEF TypeInv, TypeOK, Threads
    <3> QED BY <3>1, <3>2, <3>3 DEF KnownInv
  <2>4. CASE SkipAdd(t)
    <3>1. /\ cur[t] \in added /\ UNCHANGED <<reg, tree, added, bus, cur, todo>>
          /\ pc' = [pc EXCEPT ![t] = "register_pattern"]
      BY <2>4 DEF SkipAdd, Goto, KnownInv
    <3> QED BY <1>1, <3>1 DEF KnownInv, TypeInv, TypeOK, Threads
  <2>5. CASE RegisterPattern(t) \/ LookupId(t) \/ Subscribe(t)
    <3>1. /\ pc[t] \in Knowing /\ UNCHANGED <<reg, tree, added, bus, cur, todo>>
          /\ pc'[t] # "refresh" /\ \A u \in Threads : u # t => pc'[u] = pc[u]
      BY <2>5 DEF RegisterPattern, LookupId, Subscribe, At, Goto, Knowing, TypeInv, TypeOK
    <3> QED BY <1>2, <3>1 DEF Threads
  <2>6. CASE CallRefused(t) \/ CallBroken(t)
    <3>1. /\ UNCHANGED <<reg, tree, added, bus, todo>>
          /\ pc'[t] = "next" /\ \A u \in Threads : u # t => pc'[u] = pc[u] /\ cur'[u] = cur[u]
      BY <2>6 DEF CallRefused, CallBroken, Goto, Leave, TypeInv, TypeOK
    <3> QED BY <1>1, <3>1 DEF KnownInv, Knowing, Threads
  <2>7. CASE OnRegiste(t) \/ OnSubscribe(t)
    <3>1. /\ pc[t] \in Knowing /\ UNCHANGED <<tree, added, bus, todo>>
          /\ \A o \in Objects : o # cur[t] => reg'[o] = reg[o]
          /\ pc'[t] \in {"lookup_id", "next"} /\ (pc'[t] = "lookup_id" => cur'[t] = cur[t])
          /\ \A u \in Threads : u # t => pc'[u] = pc[u] /\ cur'[u] = cur[u]
      BY <2>7 DEF OnRegiste, OnSubscribe, At, Goto, Leave, Knowing, TypeInv, TypeOK
    <3> QED BY <1>1, <3>1 DEF KnownInv, Knowing, Threads
  <2> QED BY <1>7, <2>1, <2>2, <2>3, <2>4, <2>5, <2>6, <2>7 DEF RegisterSteps
<1>8. ASSUME NEW t \in Threads, AddUloop(t) \/ LostSteps(t) PROVE KnownInv'
  <2>1. CASE AddUloop(t)
    BY <1>2, <2>1 DEF AddUloop, Goto, Knowing, Threads, TypeInv, TypeOK
  <2>2. CASE LostSteps(t)
    <3>1. /\ UNCHANGED <<pc, cur, todo, tree, added, bus>>
          /\ \A o \in Objects : reg'[o] # "left" => reg[o] # "left"
      BY <2>2 DEF LostSteps, ClearAlive, ReadConfig, OnLeave, ArmReconn, TypeInv, TypeOK
    <3> QED BY <1>1, <3>1 DEF KnownInv
  <2> QED BY <1>8, <2>1, <2>2
<1>9. ASSUME NEW t \in Apps, CopyConfig(t) \/ StoreConfig(t) PROVE KnownInv'
  <2>1. /\ UNCHANGED <<reg, tree, added, bus>> /\ t # Loop
        /\ \A u \in Threads : pc'[u] \in Knowing => pc[u] \in Knowing /\ cur'[u] = cur[u]
        /\ pc'[Loop] = pc[Loop] /\ todo'[Loop] = todo[Loop]
    BY <1>9 DEF CopyConfig, StoreConfig, Goto, Leave, Knowing, Threads, TypeInv, TypeOK
  <2> QED BY <1>1, <2>1 DEF KnownInv
<1>10. ASSUME NEW t \in Senders, SendSteps(t) PROVE KnownInv'
  BY <1>2, <1>10 DEF SendSteps, SendEvent, Notify, FindProvider, Send, Goto, Knowing,
                     Threads, TypeInv, TypeOK
<1>11. ASSUME NEW s \in Subscribers, RemoveCb(s) \/ TargetMoves(s) PROVE KnownInv'
  <2>1. /\ UNCHANGED <<pc, cur, todo, tree, added, bus>>
        /\ \A o \in Objects : reg'[o] # "left" => reg[o] # "left"
    BY <1>11 DEF RemoveCb, TargetMoves, TypeInv, TypeOK
  <2> QED BY <1>1, <2>1 DEF KnownInv
<1>12. CASE Drop
  BY <1>12 DEF Drop, KnownInv
<1>13. CASE UNCHANGED vars
  BY <1>13 DEF vars, KnownInv
<1> QED BY <1>3, <1>4, <1>5, <1>6, <1>7, <1>8, <1>9, <1>10, <1>11, <1>12, <1>13
        DEF Next, LoopSteps

\* A step of any action keeps DownInv: what reaches ubusd needs a link that is up.
LEMMA DownNext == TypeInv /\ DownInv /\ [Next]_vars => DownInv'
<1> SUFFICES ASSUME TypeInv, DownInv, [Next]_vars PROVE DownInv'
  OBVIOUS
<1> USE DEF appVars, confVars, callVars, lostVars, timerVars, linkVars, busVars, envVars
<1>1. ASSUME link' = link, link = "up" \/ UNCHANGED <<bus, patterns, subscribed>>
      PROVE  DownInv'
  BY <1>1 DEF DownInv
<1>2. CASE WorkerSteps
  BY <1>1, <1>2 DEF WorkerSteps, SetRegisteTimer, Connect, InstallHandler, SetAlive, DownInv
<1>3. CASE Reconnect \/ Drop
  BY <1>3 DEF Reconnect, Drop, DownInv
<1>4. CASE FireRegiste \/ RearmRegiste \/ FireReconn \/ SetReconnTimer \/ LoopSeesLoss
           \/ Refreshed \/ ReAdd
  BY <1>1, <1>4 DEF FireRegiste, RearmRegiste, FireReconn, SetReconnTimer, LoopSeesLoss,
                    Refreshed, ReAdd
<1>5. ASSUME NEW t \in Threads, RegisterSteps(t) PROVE DownInv'
  BY <1>1, <1>5 DEF RegisterSteps, Registe, TakeNext, AllTaken, CheckAlive,
       CheckRegistered, AddObject, SkipAdd, RegisterPattern, LookupId, Subscribe,
       CallRefused, CallBroken, OnRegiste, OnSubscribe
<1>6. ASSUME NEW t \in Threads, AddUloop(t) \/ LostSteps(t) PROVE DownInv'
  BY <1>1, <1>6 DEF AddUloop, LostSteps, ClearAlive, ReadConfig, OnLeave, ArmReconn
<1>7. ASSUME NEW t \in Apps, CopyConfig(t) \/ StoreConfig(t) PROVE DownInv'
  BY <1>1, <1>7 DEF CopyConfig, StoreConfig
<1>8. ASSUME NEW t \in Senders, SendSteps(t) PROVE DownInv'
  BY <1>1, <1>8 DEF SendSteps, SendEvent, Notify, FindProvider, Send
<1>9. ASSUME NEW s \in Subscribers, RemoveCb(s) \/ TargetMoves(s) PROVE DownInv'
  BY <1>9 DEF RemoveCb, TargetMoves, DownInv
<1>10. CASE UNCHANGED vars
  BY <1>1, <1>10 DEF vars
<1> QED BY <1>2, <1>3, <1>4, <1>5, <1>6, <1>7, <1>8, <1>9, <1>10 DEF Next, LoopSteps

-----------------------------------------------------------------------------
(* The life of the context. Until start() has set ctxAlive nothing of ours *)
(* has been added; while it is set, what is left to do about a loss dates  *)
(* from before it was, and nothing can have been added since.              *)

Early ==
  pc[Worker] \in {"setRegisteTimer", "connect", "install", "add_uloop", "setAlive"}

\* A loss that connection_lost has cleared ctxAlive for is still to be made good.
Pending ==
  \/ reconnTimers # {}
  \/ pc[Loop] \in {"reconnect", "setReconnTimer"}
  \/ \E t \in Threads : lost[t] \in {"config", "leave"}

\* Places that only a thread that has seen ctxAlive gets to.
Guarded == LibCalls \cup SendCalls \cup {"find", "registered", "onRegiste", "onSubscribe"}

EarlyInv ==
  Early =>
    /\ alive = 0 /\ added = {}
    /\ \A t \in Threads : pc[t] \notin Guarded
    /\ \A t \in Threads : lost[t] # "no" => t = Loop /\ link = "down"

QuietInv ==
  Early \/ alive = 1 =>
    /\ reconnTimers \subseteq {Loop}
    /\ \A t \in Threads : t # Loop => lost[t] \notin {"config", "leave"}
    /\ pc[Loop] \in {"reconnect", "setReconnTimer"} =>
         reconnTimers = {} /\ lost[Loop] = "no"
    /\ Pending => link = "down" /\ added = {}

LossInv == EarlyInv /\ QuietInv

LEMMA LossInit == Init => LossInv
  BY ThreadsAssumption
  DEF Init, LossInv, EarlyInv, QuietInv, Early, Pending, Guarded, LibCalls, SendCalls,
      Threads

\* Only start() sets ctxAlive, and a loss that is pending with ctxAlive set was so
\* before.
StepFacts ==
  /\ Early' => Early
  /\ alive' = 1 => alive = 1 \/ Early
  /\ alive' = 1 /\ Pending' => Pending

\* A step of any action keeps LossInv.
LEMMA LossNext ==
  TypeInv /\ ReadyInv /\ KnownInv /\ LossInv /\ [Next]_vars => LossInv' /\ StepFacts
<1> SUFFICES ASSUME TypeInv, ReadyInv, KnownInv, LossInv, [Next]_vars
             PROVE  LossInv' /\ StepFacts
  OBVIOUS
<1> USE ThreadsAssumption
    DEF appVars, confVars, callVars, lostVars, timerVars, linkVars, busVars, envVars
\* The steps inside the registration of objects and the sends.
<1>1. ASSUME UNCHANGED <<alive, reconnTimers, link>>,
             added' = added \/ (~Early /\ link = "up"),
             NEW t \in Threads,
             \A u \in Threads : u # t => pc'[u] = pc[u] /\ lost'[u] = lost[u],
             lost'[t] # lost[t] => ~Early /\ lost'[t] = "clear",
             t = Worker /\ Early' => Early,
             t = Loop => pc[t] \notin {"reconnect", "setReconnTimer"}
                         /\ pc'[t] \notin {"reconnect", "setReconnTimer"},
             pc'[t] \in Guarded => pc[t] \in Guarded \/ alive = 1
      PROVE  LossInv' /\ StepFacts
  <2>1. Early' => Early
    BY <1>1 DEF Early, Threads
  <2>2. EarlyInv'
    BY <1>1, <2>1 DEF LossInv, EarlyInv
  <2>3. Pending' => Pending
    BY <1>1 DEF Pending, Threads
  <2>4. QuietInv'
    BY <1>1, <2>1, <2>3 DEF LossInv, QuietInv, Threads
  <2> QED BY <1>1, <2>1, <2>2, <2>3, <2>4 DEF LossInv, StepFacts
<1>2. ASSUME NEW t \in Threads,
             \/ AddUloop(t) \/ Registe(t) \/ TakeNext(t) \/ AllTaken(t) \/ CheckAlive(t)
             \/ CheckRegistered(t) \/ AddObject(t) \/ SkipAdd(t) \/ RegisterPattern(t)
             \/ LookupId(t) \/ Subscribe(t)
             \/ CallRefused(t) \/ CallBroken(t) \/ OnRegiste(t) \/ OnSubscribe(t)
      PROVE  LossInv' /\ StepFacts
  <2>1. CASE AddUloop(t)
    BY <1>1, <2>1 DEF AddUloop, At, Goto, Early, Guarded, LibCalls, SendCalls, TypeInv, TypeOK
  <2>2. CASE Registe(t) \/ TakeNext(t) \/ AllTaken(t)
    BY <1>1, <2>2 DEF Registe, TakeNext, AllTaken, At, Goto, Early, Guarded, LibCalls,
                      SendCalls, TypeInv, TypeOK
  <2>3. CASE CheckAlive(t)
    BY <1>1, <2>3 DEF CheckAlive, At, Goto, Leave, Early, Guarded, LibCalls, SendCalls,
                      TypeInv, TypeOK
  <2>4. CASE CheckRegistered(t) \/ SkipAdd(t) \/ RegisterPattern(t) \/ LookupId(t)
             \/ Subscribe(t) \/ OnRegiste(t) \/ OnSubscribe(t)
    BY <1>1, <2>4 DEF CheckRegistered, SkipAdd, RegisterPattern, LookupId, Subscribe, OnRegiste, OnSubscribe, At,
                      Goto, Leave, Early, Guarded, LibCalls, SendCalls, TypeInv, TypeOK
  <2>5. CASE AddObject(t) \/ CallRefused(t) \/ CallBroken(t)
    <3>1. ~Early
      BY <2>5 DEF AddObject, CallRefused, CallBroken, Calling, LossInv, EarlyInv, Guarded, LibCalls
    <3>2. CASE AddObject(t)
      BY <1>1, <3>1, <3>2 DEF AddObject, Added, Goto, Early, Guarded, LibCalls, SendCalls, TypeInv, TypeOK
    <3>3. CASE CallRefused(t)
      BY <1>1, <3>1, <3>3 DEF CallRefused, Calling, Goto, Leave, Early, Guarded, LibCalls, SendCalls,
                              TypeInv, TypeOK
    <3>4. CASE CallBroken(t)
      BY <1>1, <3>1, <3>4 DEF CallBroken, Calling, Goto, Leave, Early, Guarded, LibCalls, SendCalls,
                              TypeInv, TypeOK
    <3> QED BY <2>5, <3>2, <3>3, <3>4
  <2> QED BY <1>2, <2>1, <2>2, <2>3, <2>4, <2>5
<1>3. ASSUME NEW t \in Apps,
             CopyConfig(t) \/ StoreConfig(t) \/ (t \in Senders /\ SendSteps(t))
      PROVE  LossInv' /\ StepFacts
  <2>1. t \in Threads /\ t # Loop /\ t # Worker
    BY DEF Threads
  <2>2. CASE CopyConfig(t) \/ StoreConfig(t)
    BY <1>1, <2>1, <2>2 DEF CopyConfig, StoreConfig, At, Goto, Leave, Guarded, LibCalls,
                            SendCalls, TypeInv, TypeOK
  <2>3. CASE SendEvent(t) \/ Notify(t) \/ FindProvider(t)
    BY <1>1, <2>1, <2>3 DEF SendEvent, Notify, FindProvider, At, Goto, Guarded, LibCalls,
                            SendCalls, TypeInv, TypeOK
  <2>4. CASE Send(t)
    <3>1. ~Early
      BY <2>1, <2>4 DEF Send, LossInv, EarlyInv, Guarded
    <3> QED BY <1>1, <2>1, <2>4, <3>1
            DEF Send, Goto, Guarded, LibCalls, SendCalls, TypeInv, TypeOK
  <2> QED BY <1>3, <2>2, <2>3, <2>4 DEF SendSteps
\* start().
<1>4. CASE WorkerSteps
  <2>1. CASE SetRegisteTimer \/ InstallHandler
    BY <1>1, <2>1 DEF SetRegisteTimer, InstallHandler, At, Goto, Early, Guarded, LibCalls,
                      SendCalls, Threads, TypeInv, TypeOK
  <2>2. CASE Connect
    <3>1. link = "none" /\ Early /\ UNCHANGED <<alive, reconnTimers, lost, added>>
      BY <2>2 DEF Connect, At, ReadyInv, Early
    <3>2. ~Pending /\ \A t \in Threads : lost[t] = "no"
      BY <3>1 DEF LossInv, EarlyInv, QuietInv
    <3>3. pc'[Loop] = pc[Loop] /\ \A t \in Threads : pc'[t] \in Guarded => pc[t] \in Guarded
      BY <2>2 DEF Connect, Goto, Guarded, LibCalls, SendCalls, Threads, TypeInv, TypeOK
    <3>4. ~Pending'
      BY <3>1, <3>2, <3>3 DEF Pending
    <3> QED BY <3>1, <3>2, <3>3, <3>4 DEF LossInv, EarlyInv, QuietInv, StepFacts
  <2>3. CASE SetAlive
    <3>1. Early /\ ~Early' /\ UNCHANGED <<reconnTimers, lost, link, added>> /\ pc'[Loop] = pc[Loop]
      BY <2>3 DEF SetAlive, At, Goto, Early, Threads, TypeInv, TypeOK
    <3>2. Pending' => Pending
      BY <3>1 DEF Pending
    <3> QED BY <3>1, <3>2 DEF LossInv, EarlyInv, QuietInv, StepFacts
  <2> QED BY <1>4, <2>1, <2>2, <2>3 DEF WorkerSteps
\* The loop.
<1>5. CASE FireRegiste \/ RearmRegiste
  BY <1>1, <1>5 DEF FireRegiste, RearmRegiste, At, Goto, Early, Guarded, LibCalls,
                    SendCalls, Threads, TypeInv, TypeOK
<1>6. CASE FireReconn
  <2>1. /\ At(Loop, "idle") /\ reconnTimers # {} /\ UNCHANGED <<alive, lost, link, added>>
        /\ reconnTimers' \subseteq reconnTimers
        /\ reconnTimers \subseteq {Loop} => reconnTimers' = {}
    BY <1>6 DEF FireReconn
  <2>2. pc' = [pc EXCEPT ![Loop] = "reconnect"]
    BY <1>6 DEF FireReconn, Goto
  <2>3. Pending /\ (Early' <=> Early)
    BY <2>1, <2>2 DEF Pending, Early, Threads, TypeInv, TypeOK
  <2>4. EarlyInv'
    BY <2>1, <2>2, <2>3 DEF LossInv, EarlyInv, Guarded, LibCalls, SendCalls, Threads,
                            TypeInv, TypeOK
  <2>5. QuietInv'
    BY <2>1, <2>2, <2>3 DEF LossInv, QuietInv, At, TypeInv, TypeOK
  <2> QED BY <2>1, <2>3, <2>4, <2>5 DEF LossInv, StepFacts
<1>7. CASE Reconnect
  <2>1. /\ At(Loop, "reconnect") /\ UNCHANGED <<alive, reconnTimers, added, lost>>
        /\ \/ pc' = [pc EXCEPT ![Loop] = "refresh"]
           \/ pc' = [pc EXCEPT ![Loop] = "setReconnTimer"] /\ link' = "down"
    BY <1>7 DEF Reconnect, Goto
  <2>2. Pending /\ (Early' <=> Early)
    BY <2>1 DEF Pending, Early, At, Threads, TypeInv, TypeOK
  <2>3. EarlyInv'
    BY <2>1, <2>2 DEF LossInv, EarlyInv, At, Guarded, LibCalls, SendCalls, Threads,
                      TypeInv, TypeOK
  <2>4. QuietInv'
    BY <2>1, <2>2 DEF LossInv, QuietInv, Pending, At, Threads, TypeInv, TypeOK
  <2> QED BY <2>1, <2>2, <2>3, <2>4 DEF LossInv, StepFacts
<1>14. CASE Refreshed
  BY <1>1, <1>14 DEF Refreshed, At, Goto, Early, Guarded, LibCalls, SendCalls, Threads,
                     TypeInv, TypeOK
\* Before start() has set ctxAlive there is nothing to add again.
<1>15. CASE ReAdd
  <2>1. /\ pc[Loop] = "refresh" /\ UNCHANGED <<alive, reconnTimers, link, pc>>
        /\ todo[Loop] # {}
        /\ added' = added \/ link = "up"
        /\ lost' = lost \/ lost' = [lost EXCEPT ![Loop] = "clear"]
        /\ lost[Loop] = "no"
    BY <1>15 DEF ReAdd, Added, At
  <2>2. ~Early
    <3>1. PICK o \in todo[Loop] : TRUE
      BY <1>15 DEF ReAdd
    <3>2. todo[Loop] \subseteq added
      BY <2>1 DEF KnownInv
    <3> QED BY <3>1, <3>2 DEF LossInv, EarlyInv
  <2> QED BY <1>1, <2>1, <2>2 DEF Early, Threads, TypeInv, TypeOK
<1>8. CASE SetReconnTimer
  <2>1. /\ At(Loop, "setReconnTimer") /\ pc' = [pc EXCEPT ![Loop] = "idle"]
        /\ reconnTimers' = reconnTimers \cup {Loop}
        /\ UNCHANGED <<alive, lost, link, added>>
    BY <1>8 DEF SetReconnTimer, Goto
  <2>2. Pending /\ (Early' <=> Early)
    BY <2>1 DEF Pending, Early, At, Threads, TypeInv, TypeOK
  <2>3. EarlyInv'
    BY <2>1, <2>2 DEF LossInv, EarlyInv, Guarded, LibCalls, SendCalls, Threads,
                      TypeInv, TypeOK
  <2>4. QuietInv'
    BY <2>1, <2>2 DEF LossInv, QuietInv, Threads, TypeInv, TypeOK
  <2> QED BY <2>1, <2>2, <2>3, <2>4 DEF LossInv, StepFacts
<1>9. CASE LoopSeesLoss
  <2>1. /\ At(Loop, "idle") /\ link = "down" /\ lost' = [lost EXCEPT ![Loop] = "clear"]
        /\ UNCHANGED <<alive, pc, reconnTimers, link, added>>
    BY <1>9 DEF LoopSeesLoss
  <2>2. Pending' => Pending
    BY <2>1 DEF Pending, At, Threads, TypeInv, TypeOK
  <2> QED BY <2>1, <2>2 DEF LossInv, EarlyInv, QuietInv, StepFacts, Early, At, Threads,
                            TypeInv, TypeOK
\* connection_lost.
<1>10. ASSUME NEW t \in Threads, LostSteps(t) PROVE LossInv' /\ StepFacts
  <2>1. /\ lost[t] # "no" /\ UNCHANGED <<pc, link, added>>
        /\ alive' = IF lost[t] = "clear" THEN 0 ELSE alive
        /\ \A u \in Threads : u # t => lost'[u] = lost[u]
        /\ \/ reconnTimers' = reconnTimers
           \/ reconnTimers' = reconnTimers \cup {t} /\ lost[t] = "leave"
    BY <1>10 DEF LostSteps, ClearAlive, ReadConfig, OnLeave, ArmReconn, TypeInv, TypeOK
  <2>2. Early' <=> Early
    BY <2>1 DEF Early
  <2>3. EarlyInv'
    BY <2>1, <2>2 DEF LossInv, EarlyInv
  <2>4. CASE Early
    BY <2>1, <2>2, <2>3, <2>4 DEF LossInv, EarlyInv, QuietInv, StepFacts, TypeInv, TypeOK
  <2>5. CASE ~Early /\ lost[t] = "clear"
    BY <2>1, <2>2, <2>3, <2>5 DEF LossInv, QuietInv, StepFacts
  <2>6. CASE lost[t] # "clear"
    <3>1. Pending
      BY <2>1, <2>6 DEF Pending, TypeInv, TypeOK, LostPlaces
    <3> QED BY <2>1, <2>2, <2>3, <2>6, <3>1
            DEF LossInv, QuietInv, StepFacts, TypeInv, TypeOK, LostPlaces
  <2> QED BY <2>4, <2>5, <2>6
\* The bus.
<1>11. ASSUME NEW s \in Subscribers, RemoveCb(s) \/ TargetMoves(s)
       PROVE  LossInv' /\ StepFacts
  <2>1. UNCHANGED <<alive, pc, lost, reconnTimers, link, added>>
    BY <1>11 DEF RemoveCb, TargetMoves
  <2> QED BY <2>1 DEF LossInv, EarlyInv, QuietInv, StepFacts, Early, Pending
<1>12. CASE Drop
  <2>1. /\ UNCHANGED <<alive, pc, lost, reconnTimers, added>>
        /\ link' = "down"
    BY <1>12 DEF Drop
  <2> QED BY <2>1 DEF LossInv, EarlyInv, QuietInv, StepFacts, Early, Pending
<1>13. CASE UNCHANGED vars
  BY <1>13 DEF vars, LossInv, EarlyInv, QuietInv, StepFacts, Early, Pending
<1> QED BY <1>2, <1>3, <1>4, <1>5, <1>6, <1>7, <1>8, <1>9, <1>10, <1>11, <1>12, <1>13,
           <1>14, <1>15
        DEF Next, LoopSteps, RegisterSteps

-----------------------------------------------------------------------------
(* RegisteredIsOnBus. While ctxAlive is set and the link is up, what counts *)
(* as registered or is about to is usable; a connection that is replaced   *)
(* while ctxAlive is set has had no objects.                               *)

Usable(o) == bus[o] > 0 /\ (o \in Listeners => o \in patterns)

UsableInv ==
  link = "up" /\ alive = 1 =>
    /\ \A o \in Objects : reg[o] # "left" => Usable(o)
    /\ \A t \in Threads : pc[t] \in {"onRegiste", "onSubscribe"} => Usable(cur[t])

LifeInv == TypeInv /\ ReadyInv /\ KnownInv /\ DownInv /\ LossInv

LEMMA UsableInit == Init => UsableInv
  BY DEF Init, UsableInv

\* A step of any action keeps UsableInv.
LEMMA UsableNext == LifeInv /\ LifeInv' /\ UsableInv /\ [Next]_vars => UsableInv'
<1> SUFFICES ASSUME LifeInv, LifeInv', UsableInv, [Next]_vars, link' = "up", alive' = 1
             PROVE  UsableInv'
  BY DEF UsableInv
<1> USE ThreadsAssumption
    DEF LifeInv, appVars, confVars, callVars, lostVars, timerVars, linkVars, busVars, envVars
\* Nothing has been added when ctxAlive is set or the link made in this step.
<1>1. CASE added' = {}
  <2>1. /\ \A o \in Objects : reg'[o] = "left"
        /\ \A t \in Threads : pc'[t] \notin Knowing
    BY <1>1 DEF KnownInv
  <2> QED BY <2>1 DEF UsableInv, Knowing
<1>2. CASE SetAlive
  BY <1>1, <1>2 DEF SetAlive, At, LossInv, EarlyInv, Early
<1>3. CASE Connect
  BY <1>3 DEF Connect, At, LossInv, EarlyInv, Early
<1>4. CASE Reconnect
  BY <1>1, <1>4 DEF Reconnect, At, LossInv, QuietInv, Pending
\* Else both were so before.
<1>5. ASSUME alive = 1, link = "up", \A o \in Objects : Usable(o) => Usable(o)',
             \A o \in Objects : reg'[o] # "left" => reg[o] # "left",
             \A t \in Threads : pc'[t] \in {"onRegiste", "onSubscribe"} =>
               (pc[t] = pc'[t] /\ cur[t] = cur'[t]) \/ (cur'[t] \in Objects /\ Usable(cur[t])')
      PROVE  UsableInv'
  BY <1>5 DEF UsableInv, TypeInv, CurInv, Busy
<1>6. CASE SetRegisteTimer \/ InstallHandler
  BY <1>5, <1>6 DEF SetRegisteTimer, InstallHandler, Goto, Usable, Threads, TypeInv, TypeOK
<1>7. CASE FireRegiste \/ RearmRegiste \/ FireReconn \/ SetReconnTimer \/ LoopSeesLoss
           \/ Refreshed
  BY <1>5, <1>7 DEF FireRegiste, RearmRegiste, FireReconn, SetReconnTimer, LoopSeesLoss,
                    Refreshed, Goto, Usable, Threads, TypeInv, TypeOK
<1>8. ASSUME NEW o \in Objects, Added(o), UNCHANGED patterns
      PROVE  /\ bus'[o] > 0
             /\ \A x \in Objects : Usable(x) => Usable(x)'
  BY <1>8 DEF Added, Usable, TypeInv, TypeOK
<1>9. CASE ReAdd
  <2>1. PICK o \in todo[Loop] : Added(o) \/ UNCHANGED <<tree, added, bus>>
    BY <1>9 DEF ReAdd
  <2>2. /\ UNCHANGED <<alive, link, reg, pc, cur, patterns>> /\ o \in Objects
    BY <1>9 DEF ReAdd, Threads, TypeInv, TypeOK
  <2>3. \A x \in Objects : Usable(x) => Usable(x)'
    BY <1>8, <2>1, <2>2 DEF Usable
  <2> QED BY <1>5, <2>2, <2>3
<1>10. ASSUME NEW t \in Threads, RegisterSteps(t) PROVE UsableInv'
  <2>0. UNCHANGED <<alive, link>>
    BY <1>10 DEF RegisterSteps, Registe, TakeNext, AllTaken, CheckAlive, CheckRegistered,
         AddObject, SkipAdd, RegisterPattern, LookupId, Subscribe, CallRefused, CallBroken,
         OnRegiste, OnSubscribe
  <2>1. CASE Registe(t) \/ TakeNext(t) \/ AllTaken(t) \/ CheckAlive(t) \/ CheckRegistered(t)
             \/ SkipAdd(t) \/ LookupId(t) \/ CallRefused(t) \/ CallBroken(t)
    <3>1. /\ UNCHANGED <<reg, bus, patterns>>
          /\ \A u \in Threads : pc'[u] \in {"onRegiste", "onSubscribe"} =>
               pc[u] = pc'[u] /\ cur[u] = cur'[u]
      BY <2>1 DEF Registe, TakeNext, AllTaken, CheckAlive, CheckRegistered, SkipAdd,
                  LookupId, CallRefused, CallBroken, At, Goto, Leave, TypeInv, TypeOK
    <3> QED BY <1>5, <2>0, <3>1 DEF Usable
  <2>2. CASE AddObject(t)
    <3>1. /\ Added(cur[t]) /\ UNCHANGED <<reg, cur, patterns>>
          /\ pc' = [pc EXCEPT ![t] = IF cur[t] \in Listeners THEN "register_pattern"
                                     ELSE "onRegiste"]
      BY <2>2 DEF AddObject, Goto
    <3>2. cur[t] \in Objects
      BY <2>2 DEF AddObject, TypeInv, CurInv, Busy, LibCalls
    <3>3. bus'[cur[t]] > 0 /\ \A x \in Objects : Usable(x) => Usable(x)'
      BY <1>8, <3>1, <3>2
    <3>4. pc'[t] = "onRegiste" => Usable(cur[t])'
      BY <3>1, <3>3 DEF Usable, TypeInv, TypeOK
    <3>5. \A u \in Threads : u # t => pc'[u] = pc[u] /\ cur'[u] = cur[u]
      BY <3>1 DEF TypeInv, TypeOK
    <3>6. pc'[t] # "onSubscribe"
      BY <3>1 DEF TypeInv, TypeOK
    <3>7. ASSUME NEW u \in Threads, pc'[u] \in {"onRegiste", "onSubscribe"}
          PROVE  (pc[u] = pc'[u] /\ cur[u] = cur'[u])
                 \/ (cur'[u] \in Objects /\ Usable(cur[u])')
      <4>1. CASE u = t
        BY <3>1, <3>2, <3>4, <3>6, <3>7, <4>1 DEF Usable
      <4> QED BY <3>5, <4>1
    <3> QED BY <1>5, <2>0, <3>1, <3>3, <3>7
  <2>3. CASE RegisterPattern(t) \/ Subscribe(t)
    <3>1. /\ bus[cur[t]] > 0 /\ patterns \subseteq patterns' /\ UNCHANGED <<reg, cur, bus>>
          /\ \A u \in Threads : u # t => pc'[u] = pc[u]
      BY <2>3 DEF RegisterPattern, Subscribe, Goto, TypeInv, TypeOK
    <3>2. cur[t] \in Objects /\ (cur[t] \in Listeners => cur[t] \in patterns')
      BY <2>3, ObjectsAssumption
      DEF RegisterPattern, Subscribe, At, TypeInv, CurInv, Busy, LibCalls
    <3>3. \A x \in Objects : Usable(x) => Usable(x)'
      BY <3>1 DEF Usable
    <3>4. Usable(cur[t])'
      BY <3>1, <3>2 DEF Usable
    <3>5. ASSUME NEW u \in Threads, pc'[u] \in {"onRegiste", "onSubscribe"}
          PROVE  (pc[u] = pc'[u] /\ cur[u] = cur'[u])
                 \/ (cur'[u] \in Objects /\ Usable(cur[u])')
      BY <3>1, <3>2, <3>4
    <3> QED BY <1>5, <2>0, <3>1, <3>3, <3>5
  <2>4. CASE OnRegiste(t) \/ OnSubscribe(t)
    <3>1. /\ pc[t] \in {"onRegiste", "onSubscribe"} /\ UNCHANGED <<bus, patterns>>
          /\ \A o \in Objects : o # cur[t] => reg'[o] = reg[o]
          /\ \A u \in Threads : pc'[u] \in {"onRegiste", "onSubscribe"} =>
               pc[u] = pc'[u] /\ cur[u] = cur'[u]
      BY <2>4 DEF OnRegiste, OnSubscribe, At, Goto, Leave, TypeInv, TypeOK
    <3>2. Usable(cur[t]) /\ \A o \in Objects : Usable(o)' <=> Usable(o)
      BY <2>0, <3>1 DEF UsableInv, Usable
    <3> QED BY <2>0, <3>1, <3>2 DEF UsableInv, Usable
  <2> QED BY <1>10, <2>1, <2>2, <2>3, <2>4 DEF RegisterSteps
<1>11. ASSUME NEW t \in Threads, AddUloop(t) \/ LostSteps(t) PROVE UsableInv'
  <2>1. CASE AddUloop(t)
    BY <1>5, <2>1 DEF AddUloop, Goto, Usable, TypeInv, TypeOK
  <2>2. CASE LostSteps(t)
    <3>1. /\ UNCHANGED <<pc, cur, bus, patterns, link>> /\ alive = 1
          /\ \A o \in Objects : reg'[o] # "left" => reg[o] # "left"
      BY <2>2 DEF LostSteps, ClearAlive, ReadConfig, OnLeave, ArmReconn, TypeInv, TypeOK
    <3> QED BY <1>5, <3>1 DEF Usable
  <2> QED BY <1>11, <2>1, <2>2
<1>12. ASSUME NEW t \in Apps, CopyConfig(t) \/ StoreConfig(t) PROVE UsableInv'
  <2>1. /\ UNCHANGED <<alive, link, reg, bus, patterns>>
        /\ \A u \in Threads : pc'[u] \in {"onRegiste", "onSubscribe"} =>
             pc[u] = pc'[u] /\ cur[u] = cur'[u]
    BY <1>12 DEF CopyConfig, StoreConfig, Goto, Leave, Threads, TypeInv, TypeOK
  <2> QED BY <1>5, <2>1 DEF Usable
<1>13. ASSUME NEW t \in Senders, SendSteps(t) PROVE UsableInv'
  BY <1>5, <1>13 DEF SendSteps, SendEvent, Notify, FindProvider, Send, Goto, Usable,
                     Threads, TypeInv, TypeOK
<1>14. ASSUME NEW s \in Subscribers, RemoveCb(s) \/ TargetMoves(s) PROVE UsableInv'
  <2>1. /\ UNCHANGED <<alive, link, pc, cur, bus, patterns>>
        /\ \A o \in Objects : reg'[o] # "left" => reg[o] # "left"
    BY <1>14 DEF RemoveCb, TargetMoves, TypeInv, TypeOK
  <2> QED BY <1>5, <2>1 DEF Usable
<1>15. CASE Drop
  BY <1>15 DEF Drop
<1>16. CASE UNCHANGED vars
  BY <1>5, <1>16 DEF vars, Usable
<1> QED BY <1>2, <1>3, <1>4, <1>6, <1>7, <1>9, <1>10, <1>11, <1>12, <1>13, <1>14, <1>15,
           <1>16 DEF Next, WorkerSteps, LoopSteps

LEMMA LifeHolds == Spec => []LifeInv
<1>1. LifeInv /\ [Next]_vars => LifeInv'
  BY TypeNext, ReadyNext, KnownNext, DownNext, LossNext DEF LifeInv
<1>2. Init => LifeInv
  BY TypeInit, ReadyInit, KnownInit, LossInit DEF LifeInv
<1> QED BY <1>1, <1>2, PTL DEF Spec

\* As long as ctxAlive is set and the link is up, what Kotlin takes for registered is
\* on the bus, a listener with its pattern, for any number of threads, losses and
\* refusals (Ubus.kt register*Inner, onRegiste, connection_lost): see
\* RegisteredIsOnBus.
THEOREM RegisteredStaysOnBus == Spec => []RegisteredIsOnBus
<1>1. UsableInv => RegisteredIsOnBus
  BY DEF UsableInv, Usable, RegisteredIsOnBus
<1> QED BY <1>1, LifeHolds, UsableInit, UsableNext, PTL DEF Spec

-----------------------------------------------------------------------------
(* What reaches the bus comes from the Config: OnBusIsListed speaks of the *)
(* bus alone and is not inductive. ListedInv follows an object from the    *)
(* forEach over the thread's current object to libubus. An object leaves   *)
(* the Config only when a copy that is older than the Config is stored.    *)

StaleInv == \A t \in Apps : pc[t] = "store" /\ t \notin stale => draft[t] = config

\* Every object that has ever been in the Config, but for the ones stored by the way.
Known == config \cup overwritten

\* Places at which a thread has an object of the Config in hand.
InHand == LibCalls \cup {"alive", "registered", "onRegiste", "onSubscribe"}

ListedInv ==
  /\ StaleInv
  /\ \A t \in Threads : todo[t] \subseteq Known
  /\ \A t \in Threads : pc[t] \in InHand => cur[t] \in Known
  /\ tree \subseteq Known
  /\ \A o \in Objects : bus[o] > 0 => o \in Known

\* Nothing is listed, in hand or on the bus in the beginning.
LEMMA ListedInit == Init => ListedInv
  BY ThreadsAssumption DEF Init, ListedInv, StaleInv, InHand, LibCalls, Threads

\* A step of any action keeps ListedInv.
LEMMA ListedNext == TypeInv /\ ListedInv /\ [Next]_vars => ListedInv'
<1> SUFFICES ASSUME TypeInv, ListedInv, [Next]_vars PROVE ListedInv'
  OBVIOUS
<1> USE ThreadsAssumption
    DEF appVars, confVars, callVars, lostVars, timerVars, linkVars, busVars, envVars,
        InHand, LibCalls, SendCalls
\* Steps that leave the Config alone, and come to "store" only by copying it.
<1>1. ASSUME UNCHANGED <<confVars, todo, cur, draft, tree, bus>>,
             \A t \in Threads : pc'[t] \in InHand => pc[t] \in InHand,
             \A t \in Apps : pc'[t] = "store" => pc[t] = "store"
      PROVE  ListedInv'
  BY <1>1 DEF ListedInv, StaleInv, Known
<1>2. CASE WorkerSteps
  BY <1>1, <1>2 DEF WorkerSteps, SetRegisteTimer, Connect, InstallHandler, SetAlive, Goto,
                    TypeInv, TypeOK, Threads
<1>3. CASE FireRegiste \/ RearmRegiste \/ FireReconn \/ SetReconnTimer \/ LoopSeesLoss
           \/ Refreshed
  BY <1>1, <1>3 DEF FireRegiste, RearmRegiste, FireReconn, SetReconnTimer, LoopSeesLoss,
                    Refreshed, Goto, TypeInv, TypeOK, Threads
<1>4. CASE Reconnect
  <2>1. /\ UNCHANGED <<confVars, cur, draft>> /\ tree' \subseteq tree
        /\ \A t \in Threads : todo'[t] = todo[t] \/ todo'[t] = tree
        /\ \A t \in Threads : pc'[t] \in InHand => pc[t] \in InHand
        /\ \A t \in Apps : pc'[t] = pc[t]
        /\ \A o \in Objects : ~(bus'[o] > 0)
    BY <1>4 DEF Reconnect, Goto, TypeInv, TypeOK, Threads
  <2> QED BY <2>1 DEF ListedInv, StaleInv, Known
<1>5. CASE ReAdd
  <2>1. PICK o \in todo[Loop] :
          /\ todo' = [todo EXCEPT ![Loop] = @ \ {o}]
          /\ Added(o) \/ UNCHANGED <<tree, added, bus>>
    BY <1>5 DEF ReAdd
  <2>2. /\ UNCHANGED <<confVars, pc, cur, draft>> /\ o \in Known
        /\ \A t \in Threads : todo'[t] \subseteq todo[t]
    BY <1>5, <2>1 DEF ReAdd, ListedInv, Threads, TypeInv, TypeOK
  <2>3. tree' \subseteq tree \cup {o} /\ \A x \in Objects : x # o => bus'[x] = bus[x]
    BY <2>1 DEF Added, TypeInv, TypeOK
  <2> QED BY <2>2, <2>3 DEF ListedInv, StaleInv, Known
\* Steps of a thread that registers objects of the Config.
<1>6. ASSUME NEW t \in Threads, UNCHANGED <<confVars, draft>>,
             \A u \in Threads : todo'[u] \subseteq todo[u] \cup config,
             \A u \in Threads : pc'[u] \in InHand => cur'[u] \in Known,
             \A u \in Apps : pc'[u] = "store" => pc[u] = "store",
             \A x \in tree' \ tree : x \in Known,
             \A x \in Objects : bus'[x] > 0 => bus[x] > 0 \/ x \in Known
      PROVE  ListedInv'
  BY <1>6 DEF ListedInv, StaleInv, Known
<1>7. ASSUME NEW t \in Threads, RegisterSteps(t) PROVE ListedInv'
  <2>1. /\ UNCHANGED <<confVars, draft>>
        /\ \A u \in Threads : todo'[u] \subseteq todo[u] \cup config
        /\ \A u \in Apps : pc'[u] = "store" => pc[u] = "store"
    BY <1>7 DEF RegisterSteps, Registe, TakeNext, AllTaken, CheckAlive, CheckRegistered,
         AddObject, SkipAdd, RegisterPattern, LookupId, Subscribe, CallRefused, CallBroken,
         OnRegiste, OnSubscribe, Goto, Leave, Threads, TypeInv, TypeOK
  <2>2. CASE TakeNext(t)
    <3>1. PICK o \in FirstOf(todo[t]) :
            \/ UNCHANGED <<pc, cur>>
            \/ cur' = [cur EXCEPT ![t] = o] /\ pc' = [pc EXCEPT ![t] = "alive"]
      BY <2>2 DEF TakeNext, Goto
    <3>2. o \in Known /\ UNCHANGED <<tree, bus>>
      BY <2>2 DEF TakeNext, FirstOf, ListedInv
    <3>3. \A u \in Threads : pc'[u] \in InHand => cur'[u] \in Known
      BY <3>1, <3>2 DEF ListedInv, TypeInv, TypeOK
    <3> QED BY <1>6, <2>1, <3>2, <3>3
  <2>3. CASE AddObject(t)
    <3>1. /\ Added(cur[t]) /\ cur[t] \in Known /\ UNCHANGED cur
          /\ \A u \in Threads : pc'[u] \in InHand => pc[u] \in InHand
      BY <2>3 DEF AddObject, Goto, ListedInv, TypeInv, TypeOK
    <3>2. /\ tree' = tree \cup {cur[t]}
          /\ \A x \in Objects : x # cur[t] => bus'[x] = bus[x]
      BY <3>1 DEF Added, TypeInv, TypeOK
    <3>3. \A u \in Threads : pc'[u] \in InHand => cur'[u] \in Known
      BY <3>1 DEF ListedInv
    <3> QED BY <1>6, <2>1, <3>1, <3>2, <3>3
  <2>4. CASE ~TakeNext(t) /\ ~AddObject(t)
    <3>1. /\ UNCHANGED <<tree, bus>>
          /\ \A u \in Threads : pc'[u] \in InHand => pc[u] \in InHand /\ cur'[u] = cur[u]
      BY <1>7, <2>4
      DEF RegisterSteps, Registe, AllTaken, CheckAlive, CheckRegistered, SkipAdd,
          RegisterPattern, LookupId, Subscribe, CallRefused, CallBroken, OnRegiste,
          OnSubscribe, At, Goto, Leave, TypeInv, TypeOK
    <3>2. \A u \in Threads : pc'[u] \in InHand => cur'[u] \in Known
      BY <3>1 DEF ListedInv
    <3> QED BY <1>6, <2>1, <3>1, <3>2
  <2> QED BY <2>2, <2>3, <2>4
<1>8. ASSUME NEW t \in Threads, AddUloop(t) \/ LostSteps(t) PROVE ListedInv'
  BY <1>1, <1>8 DEF AddUloop, LostSteps, ClearAlive, ReadConfig, OnLeave, ArmReconn, Goto,
                    Threads, TypeInv, TypeOK
<1>9. ASSUME NEW t \in Apps, CopyConfig(t) PROVE ListedInv'
  <2>1. /\ UNCHANGED <<config, stale, overwritten, todo, tree, bus>>
        /\ draft' = [draft EXCEPT ![t] = config] /\ pc' = [pc EXCEPT ![t] = "store"]
        /\ \A u \in Threads : u # t => cur'[u] = cur[u]
    BY <1>9 DEF CopyConfig, Goto, TypeInv, TypeOK
  <2> QED BY <2>1 DEF ListedInv, StaleInv, Known, TypeInv, TypeOK, Threads
<1>10. ASSUME NEW t \in Apps, StoreConfig(t) PROVE ListedInv'
  <2>1. /\ config' = draft[t] \cup {cur[t]} /\ pc[t] = "store"
        /\ overwritten' = IF t \in stale THEN overwritten \cup (config \ config')
                          ELSE overwritten
        /\ stale' = (stale \cup {u \in Apps : pc[u] = "store"}) \ {t}
        /\ todo' = [todo EXCEPT ![t] = {cur[t]}]
        /\ cur' = [cur EXCEPT ![t] = NoObject] /\ pc' = [pc EXCEPT ![t] = "next"]
        /\ draft' = [draft EXCEPT ![t] = {}] /\ UNCHANGED <<tree, bus>>
    BY <1>10 DEF StoreConfig, At, Leave, Goto
  <2>2. Known \subseteq Known' /\ cur[t] \in Known'
    <3>1. t \notin stale => draft[t] = config
      BY <2>1 DEF ListedInv, StaleInv
    <3> QED BY <2>1, <3>1 DEF Known
  <2>3. StaleInv'
    <3>1. ASSUME NEW u \in Apps, pc'[u] = "store" PROVE u \in stale'
      BY <2>1, <3>1 DEF TypeInv, TypeOK, Threads
    <3> QED BY <3>1 DEF StaleInv
  <2>4. \A u \in Threads : todo'[u] \subseteq Known'
    BY <2>1, <2>2 DEF ListedInv, TypeInv, TypeOK
  <2>5. \A u \in Threads : pc'[u] \in InHand => cur'[u] \in Known'
    BY <2>1, <2>2 DEF ListedInv, TypeInv, TypeOK
  <2> QED BY <2>1, <2>2, <2>3, <2>4, <2>5 DEF ListedInv
<1>11. ASSUME NEW t \in Senders, SendSteps(t) PROVE ListedInv'
  BY <1>1, <1>11 DEF SendSteps, SendEvent, Notify, FindProvider, Send, Goto, TypeInv,
                     TypeOK, Threads
<1>12. ASSUME NEW s \in Subscribers, RemoveCb(s) \/ TargetMoves(s) PROVE ListedInv'
  BY <1>1, <1>12 DEF RemoveCb, TargetMoves
<1>13. CASE Drop
  BY <1>13 DEF Drop, ListedInv, StaleInv, Known
<1>14. CASE UNCHANGED vars
  BY <1>1, <1>14 DEF vars
<1> QED BY <1>2, <1>3, <1>4, <1>5, <1>7, <1>8, <1>9, <1>10, <1>11, <1>12, <1>13, <1>14
        DEF Next, LoopSteps

\* Every object on the bus is in the Config, where the callbacks look for it (Ubus.kt
\* findProviderById and the other two), whatever the losses and reconnects, unless
\* an overlapping registration has taken it out: for any number of application
\* threads. See OnBusIsListed.
THEOREM BusIsListed == Spec => []OnBusIsListed
<1>1. ListedInv => OnBusIsListed
  BY DEF ListedInv, Known, OnBusIsListed
<1> QED BY <1>1, TypeInit, TypeNext, ListedInit, ListedNext, PTL DEF Spec
=============================================================================

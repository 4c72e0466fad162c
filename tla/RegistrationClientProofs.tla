---------------------- MODULE RegistrationClientProofs ----------------------
(***************************************************************************)
(* Registration implements BusClient, for any sets of objects and          *)
(* application threads and any bounds.                                     *)
(***************************************************************************)
EXTENDS RegistrationClient, RegistrationProofs

\* What a loss finds (LossInv) and what is usable (UsableInv) decide whether a step
\* is one of the client.
MapInv == LifeInv /\ UsableInv

mapped == <<link, alive, added, bus, subscribed, patterns>>

-----------------------------------------------------------------------------
(* Which steps change what the mapping looks at.                           *)

LEMMA OtherSteps ==
  ASSUME [Next]_vars
  PROVE  \/ UNCHANGED mapped
         \/ SetAlive \/ Connect \/ Reconnect \/ ReAdd \/ Drop
         \/ \E t \in Threads : \/ AddObject(t) \/ RegisterPattern(t) \/ Subscribe(t)
                               \/ ClearAlive(t)
         \/ \E s \in Subscribers : TargetMoves(s)
<1> USE DEF mapped, appVars, confVars, callVars, lostVars, timerVars, linkVars, busVars,
            envVars
<1>1. CASE WorkerSteps
  BY <1>1 DEF WorkerSteps, SetRegisteTimer, InstallHandler
<1>2. CASE LoopSteps
  BY <1>2 DEF LoopSteps, FireRegiste, RearmRegiste, FireReconn, Refreshed, SetReconnTimer,
              LoopSeesLoss
<1>3. ASSUME NEW t \in Threads, AddUloop(t) \/ RegisterSteps(t) \/ LostSteps(t)
      PROVE  \/ UNCHANGED mapped
             \/ AddObject(t) \/ RegisterPattern(t) \/ Subscribe(t) \/ ClearAlive(t)
  BY <1>3 DEF AddUloop, RegisterSteps, Registe, TakeNext, AllTaken, CheckAlive,
              CheckRegistered, SkipAdd, LookupId, CallRefused, CallBroken, OnRegiste,
              OnSubscribe, LostSteps, ReadConfig, OnLeave, ArmReconn
<1>4. ASSUME NEW t \in Apps, CopyConfig(t) \/ StoreConfig(t) PROVE UNCHANGED mapped
  BY <1>4 DEF CopyConfig, StoreConfig
<1>5. ASSUME NEW t \in Senders, SendSteps(t) PROVE UNCHANGED mapped
  BY <1>5 DEF SendSteps, SendEvent, Notify, FindProvider, Send
<1>6. ASSUME NEW s \in Subscribers, RemoveCb(s) PROVE UNCHANGED mapped
  BY <1>6 DEF RemoveCb
<1>7. CASE UNCHANGED vars
  BY <1>7 DEF vars
<1> QED BY <1>1, <1>2, <1>3, <1>4, <1>5, <1>6, <1>7 DEF Next

\* The flags are changed by four actions only, each for one object. The ones that
\* set a flag have added the object, and while the context lives it is usable.
LEMMA FlagSteps ==
  ASSUME MapInv, [Next]_vars, reg' # reg
  PROVE  /\ UNCHANGED mapped
         /\ \E o \in Objects : \/ reg' = [reg EXCEPT ![o] = "left"]
                               \/ /\ o \in added
                                  /\ link = "up" /\ alive = 1 => Usable(o)
                                  /\ \/ reg' = [reg EXCEPT ![o] = "registered"]
                                     \/ reg' = [reg EXCEPT ![o] = "subscribed"]
<1> USE DEF mapped, appVars, confVars, callVars, lostVars, timerVars, linkVars, busVars,
            envVars
<1>1. ~WorkerSteps
  BY DEF WorkerSteps, SetRegisteTimer, Connect, InstallHandler, SetAlive
<1>2. ~LoopSteps
  BY DEF LoopSteps, FireRegiste, RearmRegiste, FireReconn, Reconnect, ReAdd, Refreshed,
              SetReconnTimer, LoopSeesLoss
<1>3. ASSUME NEW t \in Threads, AddUloop(t) \/ RegisterSteps(t) \/ LostSteps(t)
      PROVE  OnRegiste(t) \/ OnSubscribe(t) \/ OnLeave(t)
  BY <1>3 DEF AddUloop, RegisterSteps, Registe, TakeNext, AllTaken, CheckAlive,
              CheckRegistered, AddObject, SkipAdd, RegisterPattern, LookupId, Subscribe,
              CallRefused, CallBroken, LostSteps, ClearAlive, ReadConfig, ArmReconn
<1>4. ASSUME NEW t \in Apps, CopyConfig(t) \/ StoreConfig(t) PROVE FALSE
  BY <1>4 DEF CopyConfig, StoreConfig
<1>5. ASSUME NEW t \in Senders, SendSteps(t) PROVE FALSE
  BY <1>5 DEF SendSteps, SendEvent, Notify, FindProvider, Send
<1>6. ASSUME NEW s \in Subscribers, RemoveCb(s) \/ TargetMoves(s)
      PROVE  UNCHANGED mapped /\ reg' = [reg EXCEPT ![s] = "left"] /\ s \in Objects
  BY <1>6 DEF RemoveCb, TargetMoves, Objects
<1>7. ~Drop /\ ~UNCHANGED vars
  BY DEF Drop, vars
<1>8. ASSUME NEW t \in Threads, pc[t] \in {"onRegiste", "onSubscribe"}
      PROVE  /\ cur[t] \in Objects /\ cur[t] \in added
             /\ link = "up" /\ alive = 1 => Usable(cur[t])
  BY <1>8 DEF MapInv, LifeInv, KnownInv, Knowing, UsableInv, TypeInv, CurInv, Busy
<1>9. ASSUME NEW t \in Threads, OnRegiste(t)
      PROVE  /\ UNCHANGED mapped /\ pc[t] = "onRegiste"
             /\ reg' = [reg EXCEPT ![cur[t]] = "registered"]
  BY <1>9 DEF OnRegiste, At
<1>10. ASSUME NEW t \in Threads, OnSubscribe(t)
       PROVE  /\ UNCHANGED mapped /\ pc[t] = "onSubscribe"
              /\ reg' = [reg EXCEPT ![cur[t]] = "subscribed"]
  BY <1>10 DEF OnSubscribe, At
<1>11. ASSUME NEW t \in Threads, OnLeave(t)
       PROVE  UNCHANGED mapped /\ \E o \in Objects : reg' = [reg EXCEPT ![o] = "left"]
  BY <1>11 DEF OnLeave, FirstOf, MapInv, LifeInv, TypeInv, TypeOK
<1>12. \/ \E t \in Threads : OnRegiste(t) \/ OnSubscribe(t) \/ OnLeave(t)
       \/ \E s \in Subscribers : RemoveCb(s) \/ TargetMoves(s)
  BY <1>1, <1>2, <1>3, <1>4, <1>5, <1>7 DEF Next
<1>13. ASSUME NEW t \in Threads, OnRegiste(t) \/ OnSubscribe(t)
       PROVE  /\ UNCHANGED mapped
              /\ cur[t] \in Objects /\ cur[t] \in added
              /\ link = "up" /\ alive = 1 => Usable(cur[t])
              /\ \/ reg' = [reg EXCEPT ![cur[t]] = "registered"]
                 \/ reg' = [reg EXCEPT ![cur[t]] = "subscribed"]
  <2>1. pc[t] \in {"onRegiste", "onSubscribe"}
    BY <1>9, <1>10, <1>13
  <2> QED BY <1>8, <1>9, <1>10, <1>13, <2>1
<1> QED BY <1>6, <1>11, <1>12, <1>13

-----------------------------------------------------------------------------
(* The refinement, action by action.                                       *)

LEMMA ClientInit == Init => Client!Init
  BY DEF Init, Client!Init, IsUp, IsLive, OnBus, Registered, Attached

\* A step of any action maps to a step of the client or to none.
LEMMA ClientNext == MapInv /\ MapInv' /\ [Next]_vars => [Client!Next]_(Client!vars)
<1> SUFFICES ASSUME MapInv, MapInv', [Next]_vars
             PROVE  \/ Client!Next
                    \/ UNCHANGED <<IsUp, IsLive, added, OnBus, Registered, Attached>>
  BY DEF Client!vars
<1> USE DEF MapInv, LifeInv
<1>1. UNCHANGED mapped => UNCHANGED <<IsUp, IsLive, added, OnBus, Attached>>
  BY DEF mapped, IsUp, IsLive, OnBus, Attached
<1>2. CASE reg' # reg
  <2>1. UNCHANGED <<IsUp, IsLive, added, OnBus, Attached>>
    BY <1>1, <1>2, FlagSteps
  <2>2. PICK o \in Objects : \/ reg' = [reg EXCEPT ![o] = "left"]
                             \/ /\ o \in added
                                /\ link = "up" /\ alive = 1 => Usable(o)
                                /\ \/ reg' = [reg EXCEPT ![o] = "registered"]
                                   \/ reg' = [reg EXCEPT ![o] = "subscribed"]
    BY <1>2, FlagSteps
  <2>3. reg \in [Objects -> {"left", "registered", "subscribed"}]
    BY DEF TypeInv, TypeOK
  <2>4. CASE reg' = [reg EXCEPT ![o] = "left"]
    <3>1. Registered' = Registered \ {o}
      BY <2>3, <2>4 DEF Registered
    <3> QED BY <2>1, <3>1 DEF Client!Next, Client!Leave
  <2>5. CASE /\ o \in added
             /\ link = "up" /\ alive = 1 => Usable(o)
             /\ reg' \in {[reg EXCEPT ![o] = "registered"], [reg EXCEPT ![o] = "subscribed"]}
    <3>1. Registered' = Registered \cup {o}
      BY <2>3, <2>5 DEF Registered
    <3>2. IsUp /\ IsLive => Client!Usable(o)
      BY <2>5 DEF IsUp, IsLive, Usable, Client!Usable, OnBus, Attached
    <3> QED BY <2>1, <2>5, <3>1, <3>2 DEF Client!Next, Client!Confirm
  <2> QED BY <2>2, <2>4, <2>5
<1>3. CASE reg' = reg
  <2>1. Registered' = Registered
    BY <1>3 DEF Registered
  <2>2. CASE UNCHANGED mapped
    BY <1>1, <2>1, <2>2
  <2>3. CASE SetAlive
    <3>1. UNCHANGED <<IsUp, added, OnBus, Attached>> /\ IsLive'
      BY <2>3 DEF SetAlive, linkVars, busVars, IsUp, IsLive, OnBus, Attached
    <3>2. added = {}
      BY <2>3 DEF SetAlive, At, LossInv, EarlyInv, Early
    <3> QED BY <2>1, <3>1, <3>2 DEF Client!Next, Client!Start
  <2>4. ASSUME UNCHANGED <<alive, added>>, link' = "up" \/ link' = "down",
               \A o \in Objects : bus'[o] = 0, patterns' = {}, subscribed' = {},
               link' = "up" /\ alive = 1 => added = {}
        PROVE  Client!Next
    <3>1. OnBus' = {} /\ Attached' = {} /\ UNCHANGED <<IsLive, added>>
      BY <2>4 DEF OnBus, Attached, IsLive
    <3>2. CASE link' = "up"
      <4>1. IsUp' = TRUE /\ (IsLive => added = {})
        BY <2>4, <3>2 DEF IsUp, IsLive
      <4> QED BY <2>1, <3>1, <4>1 DEF Client!Next, Client!Connect
    <3>3. CASE link' = "down"
      <4>1. IsUp' = FALSE
        BY <3>3 DEF IsUp
      <4> QED BY <2>1, <3>1, <4>1 DEF Client!Next, Client!Lose
    <3> QED BY <2>4, <3>2, <3>3
  <2>5. CASE Connect
    <3>1. /\ UNCHANGED <<alive, added, bus, patterns, subscribed>>
          /\ link = "none" /\ alive = 0
      BY <2>5 DEF Connect, At, appVars, busVars, ReadyInv, LossInv, EarlyInv, Early
    <3>2. CASE link' = link
      BY <1>1, <2>1, <3>1, <3>2 DEF mapped
    <3>3. CASE link' = "up"
      BY <2>4, <3>1, <3>3 DEF DownInv
    <3> QED BY <2>5, <3>2, <3>3 DEF Connect
  <2>6. CASE Reconnect
    <3>1. /\ UNCHANGED <<alive, added>>
          /\ link' = "up" \/ link' = "down"
          /\ \A o \in Objects : bus'[o] = 0
          /\ patterns' = {} /\ subscribed' = {}
      BY <2>6 DEF Reconnect, appVars
    <3>2. alive = 1 => added = {}
      BY <2>6 DEF Reconnect, At, LossInv, QuietInv, Pending
    <3> QED BY <2>4, <3>1, <3>2
  <2>7. CASE Drop
    <3>1. /\ UNCHANGED <<alive, added>> /\ link' = "down"
          /\ \A o \in Objects : bus'[o] = 0
          /\ patterns' = {} /\ subscribed' = {}
      BY <2>7 DEF Drop, appVars
    <3> QED BY <2>4, <3>1
  <2>8. ASSUME NEW o \in Objects, Added(o), link = "up",
               UNCHANGED <<link, alive, patterns, subscribed>>
        PROVE  Client!Next
    <3>1. OnBus' = OnBus \cup {o} /\ added' = added \cup {o}
      BY <2>8 DEF Added, OnBus, TypeInv, TypeOK
    <3>2. UNCHANGED <<IsUp, IsLive, Attached>> /\ IsUp
      BY <2>8 DEF IsUp, IsLive, Attached
    <3> QED BY <2>1, <3>1, <3>2 DEF Client!Next, Client!Add
  <2>9. CASE ReAdd
    <3>1. PICK o \in todo[Loop] : \/ Added(o) /\ link = "up"
                                  \/ UNCHANGED <<added, bus>>
      BY <2>9 DEF ReAdd
    <3>2. UNCHANGED <<link, alive, patterns, subscribed>> /\ o \in Objects
      BY <2>9 DEF ReAdd, appVars, linkVars, TypeInv, TypeOK, Threads
    <3> QED BY <1>1, <2>1, <2>8, <3>1, <3>2 DEF mapped
  <2>10. ASSUME NEW t \in Threads, AddObject(t) PROVE Client!Next
    <3>1. /\ Added(cur[t]) /\ link = "up"
          /\ UNCHANGED <<link, alive, patterns, subscribed>>
      BY <2>10 DEF AddObject, appVars, linkVars
    <3>2. cur[t] \in Objects
      BY <2>10 DEF AddObject, TypeInv, CurInv, Busy, LibCalls
    <3> QED BY <2>8, <3>1, <3>2
  <2>11. ASSUME NEW t \in Threads, RegisterPattern(t) \/ Subscribe(t) PROVE Client!Next
    <3>1. /\ bus[cur[t]] > 0 /\ UNCHANGED <<link, alive, added, bus>>
          /\ \/ patterns' = patterns \cup {cur[t]} /\ UNCHANGED subscribed
             \/ subscribed' = subscribed \cup {cur[t]} /\ UNCHANGED patterns
      BY <2>11 DEF RegisterPattern, Subscribe, appVars, linkVars
    <3>2. cur[t] \in Subscribers \cup Listeners /\ cur[t] \in Objects
      BY <2>11 DEF RegisterPattern, Subscribe, At, TypeInv, CurInv, Busy, LibCalls
    <3>3. /\ cur[t] \in OnBus /\ Attached' = Attached \cup {cur[t]}
          /\ UNCHANGED <<IsUp, IsLive, added, OnBus>>
      BY <3>1, <3>2 DEF IsUp, IsLive, OnBus, Attached
    <3> QED BY <2>1, <3>2, <3>3 DEF Client!Next, Client!Attach
  <2>12. ASSUME NEW t \in Threads, ClearAlive(t) PROVE Client!Next
    <3>1. UNCHANGED <<IsUp, added, OnBus, Attached>> /\ IsLive' = FALSE
      BY <2>12 DEF ClearAlive, linkVars, busVars, IsUp, IsLive, OnBus, Attached
    <3> QED BY <2>1, <3>1 DEF Client!Next, Client!Stop
  <2>13. ASSUME NEW s \in Subscribers, TargetMoves(s)
         PROVE  \/ Client!Next
                \/ UNCHANGED <<IsUp, IsLive, added, OnBus, Registered, Attached>>
    <3>1. /\ UNCHANGED <<link, alive, added, bus, patterns>>
          /\ UNCHANGED subscribed \/ subscribed' = subscribed \ {s}
      BY <2>13 DEF TargetMoves, appVars, linkVars
    <3>2. s \notin patterns
      BY ObjectsAssumption DEF TypeInv, TypeOK
    <3>3. UNCHANGED Attached \/ Attached' = Attached \ {s}
      BY <3>1, <3>2 DEF Attached
    <3>4. UNCHANGED <<IsUp, IsLive, added, OnBus>>
      BY <3>1 DEF IsUp, IsLive, OnBus
    <3> QED BY <2>1, <3>3, <3>4 DEF Client!Next, Client!Detach
  <2> QED BY <2>2, <2>3, <2>5, <2>6, <2>7, <2>9, <2>10, <2>11, <2>12, <2>13, OtherSteps
<1> QED BY <1>2, <1>3

\* For any number of objects, threads, losses and refusals, registration comes to a
\* client that in the life of its context counts as registered only what is usable,
\* and replaces no connection it had objects on (Ubus.kt): see ImplementsClient.
THEOREM Implements == Spec => ImplementsClient
<1>1. Init => UsableInv
  BY UsableInit
<1>2. LifeInv /\ LifeInv' /\ UsableInv /\ [Next]_vars => UsableInv'
  BY UsableNext
<1>3. LifeInv /\ LifeInv' /\ UsableInv /\ UsableInv' /\ [Next]_vars
        => [Client!Next]_(Client!vars)
  BY ClientNext DEF MapInv
<1> QED BY <1>1, <1>2, <1>3, LifeHolds, ClientInit,
           PTL DEF Spec, ImplementsClient, Client!Spec
=============================================================================

# A TLA+ development of ubus-bridge-kotlin

The bridge lets a Kotlin/Native program (a macOS executable, or an Android
application through JNI) put objects on the OpenWrt message bus *ubus*, answer
calls to them, call the objects of others, subscribe to notifications and
listen to events. It is about 1300 lines of Kotlin over libubus. There are no
tests. Most of what can go wrong here is concurrency: several threads share one
`ubus_context`, callbacks run on whichever thread is inside libubus, and the
connection to ubusd comes and goes.

Paths below are relative to `src/bridgeMain/kotlin/` of the repository unless
they say otherwise; `Ubus.kt:24` is line 24 of `ubus/Ubus.kt`.

## 1. Inventory

### Threads

| Thread | Runs | In the models |
|---|---|---|
| the worker of `Ubus.run` | `uloop_init`, `setRegisteTimer`, `start` once | `Worker` |
| the caller of `uloop_run` (`UbusJni.kt` `loop`, `Main.kt:49`) | timers, socket events, all callbacks found there | `Loop`, `Handlers` |
| the callers of `Bridge` | `register*`, `invoke`, `rsp`, `notify`, `sendEvent` | `Apps`, `Invokers`, `Responders` |
| `providerWorker` | the jobs given to it, in order | the queue `jobs` |

The blocking functions of libubus (`ubus_add_object`, `ubus_lookup_id`,
`ubus_subscribe`, ...) poll the socket themselves. A callback may therefore run
on any thread that is inside one of them.

### Components

| Component | State | Operations | What makes it correct |
|---|---|---|---|
| Connection and registration: `Ubus.kt`, `Config.kt`, `Subscriber.kt`, `EventListener.kt`, the flag of `Provider.kt` | `ctx`, `ctxAlive`, the `Config`, one registered flag or `subState` per object, two timers | `run`, `start`, `registe`, `register*`, `connection_lost`, the reconnect timer, `remove_cb` | the context is not used before it is ready; a loss is always followed up; what counts as registered is on the bus as long as the context lives; what cannot be registered now is registered later |
| Incoming calls: `Provider.kt` | `provideCounter`, `reqList` (thread local to `providerWorker`), one arena per request | the method handler, `onInvoke`, `rsp` | every request is answered once, from live memory; an answer finds its request |
| Outgoing calls: `Invoker.kt` | `idCache`, `reqCounter`, one arena and one `StableRef` per request | `invoke` (with a second round), `lookup`, `data_cb`, `complete_cb` | the cache loses nothing; every request is reported once and its memory given back; a stale id is not used twice |
| Facade: `Bridge.kt`, `Listener.kt` | none | forwards | |
| Notifications and events out: `Ubus.notify`, `sendEvent`, `Provider.notify` | none | a guard on `ctxAlive`, a search in the `Config` (`notify`), one libubus call that may meet a loss | the context is ready; a loss met here is followed up too |
| Calls, notifications and events in: the callbacks of `Provider.kt`, `Subscriber.kt`, `EventListener.kt` | none | look the object up by id in the current `Config` and call the application | whatever is on the bus is found |
| JNI binding: `src/androidMain` | the `JNIEnv` and class of `load` | one function per operation; callbacks into Java | the thread of an env |
| `Method.kt`, signatures as JSON; `Log`; `Main.kt` | none | data, output, a demonstration | |
| libubus, libubox, ubusd | vendored headers and binaries | | external |

### Interactions

- `Bridge` calls `Ubus`, which guards every operation with `ctxAlive` and calls
  `Invoker.invoke` or `Provider.rsp`.
- `connection_lost` clears `ctxAlive`, marks every object of the `Config` as left
  and arms the reconnect timer. On reconnect libubus takes all objects off its list
  and adds them again one by one, whatever comes of it: one that ubusd refuses, or
  that a new loss cuts off, is gone, and no event pattern and no subscription is
  made again. `ubus_reconnect` returns 0 all the same; the flags are not told, and
  neither is `ctxAlive`.
- The registe timer tries every object of the `Config` that is not registered
  every two seconds.
- The method handler gives `providerWorker` the job that adds the request and
  then calls `onRequestArrive`. `rsp` gives it a job that finds and removes the
  request and waits for the result.
- Handlers, `remove_cb` and the event callback find their object in the `Config`
  by id.

### The hard parts

The hazards, each with its line and the properties that watch it, are in
`PROJECT.json`. In short: the unsynchronised use of `ctxAlive` and of the flags
by callbacks that may overtake the calls they interrupt; the two timers that
have to be armed again; partial failure of a registration; the order of jobs on
`providerWorker`; two answers to one request; a lock-free cache; answers that
arrive before the request is known to libubus; objects that leave the bus; calls
of a connection that is gone, answered over the next one.

## 2. Modules

| Module | What it is |
|---|---|
| `Registration` | the worker, the loop, the application's registrations, notifications and events, losses and reconnects |
| `ProviderRequests` | a call from the bus, from the handler to the last step of `rsp` |
| `CallService` | abstract: what is promised of such a call |
| `ProviderService` | `ProviderRequests` as an implementation of `CallService` |
| `BusClient` | abstract: what is promised of our objects on the bus |
| `RegistrationClient` | `Registration` as an implementation of `BusClient` |
| `Invoker` | a call to the bus, from `Ubus.invoke` to both callbacks |
| `CallerService` | abstract: what is promised of such a call, and of the cache of ids |
| `InvokerService` | `Invoker` as an implementation of `CallerService` |
| `Bridge` | `Registration` and `ProviderRequests` composed |
| `MCRegistration`, `MCProviderRequests`, `MCBridge`, `MCInvoker` | instances for TLC; the bounds are in the `.cfg` files |
| `RegistrationProofs` | theorems about `Registration` |
| `RegistrationClientProofs` | `Registration` implements `BusClient` |
| `ProviderRequestsProofs` | theorems about `ProviderRequests`: who holds a request |
| `ProviderOrderProofs` | theorem about `ProviderRequests`: the order of the jobs |
| `ProviderServiceProofs` | `ProviderRequests` implements `CallService` |
| `InvokerProofs` | theorems about `Invoker` |
| `InvokerServiceProofs` | `Invoker` implements `CallerService` |
| `BridgeProofs` | theorems about `Bridge`, on top of those about its parts |

`PROJECT.json` maps every definition to its lines.

### Registration

One action is one access to a shared variable or one call of libubus, so that
the threads interleave between any two lines that matter. `pc[t]` is the place
of a thread, `todo[t]` what is left of a `forEach`, `cur[t]` the object being
registered, `draft[t]` the private copy of the `Config`; `lost[t]` is the place
inside `connection_lost`, which may run on a thread in the middle of something
else (`CallBroken`, `Reconnect`, `LoopSeesLoss`): `At(t, p)` says that `t` is at
`p` and not inside it. `reg` joins the two `registered` integers and `subState`,
`"left"` being both -1 and `LEAVED`.

- `SetRegisteTimer`, `Connect`, `InstallHandler`, `AddUloop`, `SetAlive` are
  `run` and `start` line by line. `Connect` may fail and is then repeated.
- `Registe`, `TakeNext`, `CheckAlive`, `CheckRegistered`, the libubus calls
  `AddObject`, `RegisterPattern`, `LookupId`, `Subscribe` with their failures `CallRefused` and
  `CallBroken`, then `OnRegiste` and `OnSubscribe`, are `registe` and the three
  `register*Inner`. The three lists are taken in the order of the code; the order
  inside one list is left open. `ubus_register_event_handler` is two requests: the
  object is added, unless libubus has it already (`SkipAdd`), then its pattern is
  registered, and each may be refused or cut off. A provider whose name ubusd has
  is refused (`Accepts`); the others have no name.
- `CopyConfig` and `StoreConfig` are the beginning of `registerProvider`,
  `registerSubscriber` and `registerEventListener`. `stale` and `overwritten` are
  history: the threads whose copy is by now older than the `Config`, and the objects
  that storing such a copy has taken out of it.
- `ClearAlive`, `ReadConfig`, `OnLeave`, `ArmReconn` are `connection_lost`;
  `FireReconn`, `Reconnect`, `SetReconnTimer` the reconnect timer. The timer is
  thread local in the code (`@ThreadLocal object Ubus`), hence a set of threads.
- `Reconnect` is a `ubus_reconnect` that has connected, or has not; `ReAdd` adds one
  of the objects libubus had (`tree`, those with an id) again, or finds it refused
  or the link broken, and then the object is gone from `tree`; `Refreshed` is the
  return. `bus` counts the objects ubusd has for each of ours, so that an object
  added twice is seen; `patterns` has the listeners whose pattern ubusd knows;
  `added` is history: what has ever been added.
- `SendEvent`, `Notify`, `FindProvider` and `Send` are `sendEvent` and `notify`: the
  guard on `ctxAlive`, the search of the provider in the `Config`, and the libubus
  call, which may be the one that meets a loss. What is sent is not kept. `Senders`
  are the application threads that do this too.
- A subscription target that is not on the bus is refused by `lookup_id` and by
  `subscribe`; `TargetMoves` lets targets come and go, with the notice that leads
  to `remove_cb`.

The model leaves out the data race itself: two threads inside one libubus call
at a time are interleaved call by call, and the list of timers of uloop, which
`setRegisteTimer` and `setReconnTimer` change from other threads than the loop,
is a set.

`BusClient` says what all of this comes to, with none of the places of threads and
the timers. Its context lives from the end of `start` to the first loss that is
noticed (`Start`, `Stop`). While it lives and the link is up, an object is confirmed
(counts as registered) only when it is usable: ubusd has it, and its pattern if it
is a listener. A connection that has had objects is replaced (`Connect`) only once
the context no longer lives, and begins with nothing; the context never lives again
with objects of an earlier connection. Afterwards an object that is confirmed has
been added once, and no more is said. `RegistrationClient` computes this state from
the detailed one (live is `ctxAlive`, on the bus is what ubusd counts at least once,
registered is a flag other than `"left"`, attached is a subscription or a pattern)
and states `ImplementsClient`.

### ProviderRequests

The handler is split at each shared effect: number and arena, `ubus_defer_request`,
the job for `providerWorker`, `onRequestArrive`, and the status libubus sends on
its return unless the request is deferred. `providerWorker` is the queue `jobs`;
`RunAdd` and `RunTake` are its two kinds of job and each is one step, since only
this worker has the list. `rsp` is the job, the wait for the future (`"future"`
is left by `RunTake` alone), the parse, the reply, the completion and the
clearing of the arena. Any thread may answer any request it was told of, at any
time and any number of times; the payload may be bad JSON. `alive` changes
freely here.

`error(...)` at `Provider.kt:47` and `Invoker.kt:59` is `kotlin.error`, which
throws: these files import `Log.debug` and not `Log.error`, as `Ubus.kt` does.

`CallService` says what this comes to: a call is refused or opened; one responder,
with no other call in hand, takes it; it is replied to at most once and then
closed, or dropped by the thread that has it. `ProviderService` computes this state
from the detailed one (open is "numbered and not taken off `reqList`", closed is
"its status is out") and states `ImplementsService`.

### Bridge

`Bridge` extends `Registration` and takes `ProviderRequests` as an instance over the
same `ctxAlive` (`alive`), the same threads and the same `Config`. What neither
part has alone is the connection: `conn` counts those made, `callConn` is the one a
call came over, `callee` the provider it is for, `begun` the connection at which
the `rsp` of a thread passed its guard.

- `CallArrives(t)` lets a thread at which libubus hands out messages (`Serving`: the
  loop, or a thread that waits inside a libubus call) enter the method handler,
  while the link is up, for a provider ubusd has on the bus. That is before
  `ubus_add_object` has returned, too.
- A thread in a handler does nothing else: every step of the connection asks for
  the handler to be idle on that thread (`ConnectionStep`). The other threads go on,
  so a loss, a `connection_lost` and a reconnect may come between any two steps.
- `Handle` joins `findProviderById` to the `Config`: a provider is found if and only
  if it is listed.
- `AnswerBegins` and `AnswerGoesOn` are `rsp`, with the guard on the shared
  `ctxAlive`; a reply goes out only while the link is up.

### Invoker

`idCache` maps each name to an id, to 0 for a lookup that failed, or has no entry
(`Uncached`). The map is immutable; `old` and `same` give the reference equality
of `compareAndSet`. `mem` is the arena of an `InvokeReq` with the `StableRef` that
is disposed together with it. `linked` is libubus's list of pending requests: an
answer that comes before `ubus_complete_request_async` finds nobody (`missed`).
`busId`, `Join` and `Part` are the objects of other processes, `present` and
`deadAtRetry` record what properties need.

Two constants describe the surroundings. `ProperCallees` says that every call is
answered by exactly one message or by an error status; otherwise any sequence of
data messages and any status may come. `ClearsRequest` is the set of what
`ubus_invoke_async` may do to the `ubus_request` it is given, chosen at each send:
`TRUE`, initialise it, as the bundled libubus does, so that `priv` and the callbacks
set before the call are lost, or `FALSE`, leave it as it is. The passing run has
both, the run `invoker_cleared` only `TRUE`. After a failed send `priv!!` finds the
request (`InvokeFailed`) or throws (`InvokeThrows`): the memory is then not given
back and there is no second round.

`CallerService` says what this comes to: each call has one thread that has it in
hand, from its number on; the thread leaves it to the callbacks, gives its memory
back (it could not be sent) or loses it (it throws); callbacks report only calls
that were left to them, or lose them; and the cache is stored to one name at a time.
`Repeats` allows a callee to send more than its one answer, and the reports of the
later ones. `InvokerService` computes the state of a call from `mem`, `callbacks`,
`linked` and the places of the threads, and states `ImplementsService`. What this
adds to `OneCallback` is the thread: it and the callbacks never have the memory of a
request at the same time, nor one after the other has given it back.

## 3. Properties and runs

| Run | Instance | Properties | Result |
|---|---|---|---|
| `registration_loss` | a provider, a listener, two application threads, one loss | `TypeOK`, `RegisteredIsOnBus`, `RetryIsPending`, `OnBusIsListed`, `ImplementsClient` | hold, 3 335 098 states |
| `registration_recovers` | a provider, a thread that also sends, two losses, one error | `ContextReady`, `LossIsPending`, `LinkRecovers` | hold, 155 103 states |
| `registration_retries` | a subscriber, its target moves twice, one error | `RegisteredIsOnBus`, `EventuallyRegistered` | hold, 165 156 states |
| `registration_refused` | a provider, one loss | `RefusedOnlyWhenNotReady` | violated |
| `registration_left` | a subscriber, its target moves twice | `EventuallySubscribed` | violated |
| `provider_requests` | two requests, two handlers, two answering threads, bad payloads | `TypeOK`, `AtMostOneAnswer`, `NoUseAfterClear`, `NullMeansTaken`, `NoReplyAfterStatus`, `ImplementsService`, `AnswerEnds` | hold, 237 384 states |
| `provider_bad_payload` | two requests, one handler, two answering threads, bad payloads | `AnswerCompletes` | violated |
| `bridge_answers` | a provider, one call, one answering thread, one loss | `BridgeTypeOK`, `CallsFindProvider`, `AnswersOwnConnection` | hold, 463 821 states |
| `invoker_callbacks` | two names, one of which joins and parts, two threads, two requests, one loss, proper callees, either libubus | `TypeOK`, `OneCallback`, `RetryIsFresh`, `CacheKeepsNames`, `ImplementsService` | hold, 1 625 570 states |
| `invoker_lookup`, `invoker_early`, `invoker_cleared` | one thread, one request | `LookupFailedIsTrue`, `AnswerReachesApp`, `PrivIsSet` | violated |

Why these bounds: a race in this code is between two threads over one object or
one request, so two of each let every pair meet; a second loss is needed to lose
the reconnect of the first, and one error to take each error path at any moment
of the run. `registration_loss` has two application threads, so that two
registrations overlap, and no errors of ubusd's own: a registration that finds the
name of its provider taken is refused, and a loss cuts any call off;
`registration_retries` and `registration_recovers` have an error at any call. The
number of objects matters only to the `forEach` loops, which two
objects exercise. In `bridge_answers` one call is enough, since the question is
whether it and its own answer stay on one connection, and one loss, since a
second connection is all that is needed to answer over the wrong one. In
`invoker_callbacks` ubusd gives out one id, so that an object that parts does not
join again under another; a cached id may be stale, as `RetryIsFresh` needs, and the
theorems speak of any number of ids. Every
safety property of a passing run is also a theorem without bounds (section 5),
so that the bounds matter to liveness and to the violations only; a violation
found in a small instance is one of every larger instance.

`registerProvider` reads the `Config`, copies it, adds to the copy and stores it. The
copy of a second thread may lack the first one's object, and storing it takes that
object out of the `Config` for good. `OnBusIsListed` and `CallsFindProvider` say that
nothing else does, for any number of threads: an object on the bus is listed, or it is
one of those that a copy older than the `Config` has taken out (`overwritten`).

`RegisteredIsOnBus` and the confirmations of `BusClient` speak of the life of the
context. After a loss the flags say nothing: `onRegiste` may come after
`connection_lost` has cleared the flag, the object may not have been added again, a
listener has lost its pattern and a subscriber its subscription. That no operation
relies on them is due to `ctxAlive`, which stays 0; a reconnect timer that set it
would break the property (this is the mutant `AddUloopAlive`).

`AnswersOwnConnection` compares the connection at the guard of `rsp` with the
call's: an answer that begins after the reconnect does not go to a call of the
connection before. One that begins before `connection_lost` has cleared `ctxAlive`,
even after the loss itself, passes the guard, and a reconnect may come before its
`ubus_send_reply`: it then goes out over the next connection. The model has that
behaviour, the code does not exclude it, and the property does not claim it.

Deadlock is checked for `Registration` and `Bridge`, where the registe timer keeps
the loop going, and for `ProviderRequests`, where `ctxAlive` may always change; it is
off for `Invoker`, which stops when its counters are used up.

### What the violations show

- `RefusedOnlyWhenNotReady`: the reconnect timer never sets `ctxAlive` again. After
  the first loss every operation is refused for the rest of the process, though
  the connection is back: registrations, `notify`, `sendEvent`, and the answers to the
  calls that arrive over the new connection. Subscriptions are not made again
  either. (The same defect is what makes `AnswersOwnConnection` hold: a repair of
  one has to see to the other.)
- `EventuallySubscribed`: `ubus_subscribe` returns on one thread; the target leaves
  and comes back, and `remove_cb` stores `LEAVED` on the loop; then `onSubscribe`
  of the first thread overwrites it. The subscriber counts as subscribed, `registe`
  skips it for ever, and no notification comes.
- `AnswerCompletes` with bad payloads: `rsp` takes the request off the list, then
  throws. The request is never completed and a good answer does not find it.
- `LookupFailedIsTrue`: a lookup that failed once is cached. The name is refused
  for ever, although the object has joined the bus.
- `AnswerReachesApp`: the loop may receive the answer before the application's
  thread has linked the request, and libubus drops it.
- `PrivIsSet`: with a libubus that initialises the request, `priv!!` on the way out
  after a failed send throws; a call that is sent has no callbacks. The headers and
  libraries in the repository belong to such a libubus: with it no call is ever
  reported, and what the theorems say of `OneCallback` is only that nothing is
  reported or given back twice.

### Known behaviours no property speaks of

The models have these and nothing in the repository says otherwise: the object of
a subscriber that left is added a second time, because `LEAVED` is also "not
registered"; a new subscriber is in the `Config` before its own thread registers it,
so that the registe timer may add it at the same time; two overlapping registrations
may lose one of two objects from the `Config`; after a loss an object may be gone
from libubus and still count as registered, and a listener is on the bus without its
pattern; an answer under way during a loss may go out over the next connection;
`notify` may find a provider
that is listed and not on the bus, and then uses an old id or 0; two threads that
met the same loss arm two reconnect timers and the second reconnect tears the first
connection down; a call answered by status 0 without data, or cut
off by a loss, is never reported; `data_cb` frees a request libubus still has in
its list; a call for an object the `Config` does not list gets two statuses.

## 4. Fairness

Only liveness runs use it.

- `Registration`: weak fairness of every thread that is in the middle of
  something, since the scheduler runs them all. `FireRegiste`, `FireReconn`,
  `LoopSeesLoss` and `RemoveCb` are strongly fair: each can be disabled for a
  while because the loop is busy with another of them, and uloop serves the
  expired timers in the order of their deadlines and polls the socket in every
  round, so that none starves. Nothing is assumed of ubusd, of the targets or of
  what the application starts. ubusd's refusals are bounded by `MaxRefusals`:
  `LinkRecovers` and `EventuallyRegistered` say what happens once it is well.
- `ProviderRequests`: weak fairness of the handler threads, of `providerWorker` and
  of a thread inside `rsp`. No call has to arrive and nobody has to answer.
  `AnswerEnds` follows a call from the moment an answer has it; the case of a bad
  payload, in which the code gives up, is excepted in the property, and
  `provider_bad_payload` shows what comes of it.

`RetryIsPending` holds with losses: the timer goes on. `EventuallyRegistered` and
`EventuallySubscribed` are checked without losses: after one, `ctxAlive` is 0 for
good and they do not hold.

## 5. Theorems

All are checked by TLAPS for any sets of objects, names, requests and threads and
any bounds. They use the named assumptions of the modules: the three kinds of
objects are disjoint, the worker and the loop are different threads and no
application threads, `NoRequest` is no request, bounds are naturals.

| Module | Theorem | States |
|---|---|---|
| `RegistrationProofs` | `TypeCorrect` | `[]TypeOK` |
| | `ContextIsReady` | `[]ContextReady` |
| | `LossStaysPending` | `[]LossIsPending` |
| | `RetriesStayPending` | `[]RetryIsPending` |
| | `RegisteredStaysOnBus` | `[]RegisteredIsOnBus` |
| | `BusIsListed` | `[]OnBusIsListed` |
| `RegistrationClientProofs` | `Implements` | `ImplementsClient` |
| `ProviderRequestsProofs` | `TypeCorrect` | `[]TypeOK` |
| | `AnswersOnce` | `[]AtMostOneAnswer` |
| | `UsesLiveMemory` | `[]NoUseAfterClear` |
| | `RepliesBeforeStatus` | `NoReplyAfterStatus` |
| `ProviderOrderProofs` | `NullIsTaken` | `[]NullMeansTaken` |
| `ProviderServiceProofs` | `Implements` | `ImplementsService` |
| `InvokerProofs` | `TypeCorrect` | `[]TypeOK` |
| | `NamesStay` | `CacheKeepsNames` |
| | `RetryAsksAgain` | `[]RetryIsFresh` |
| | `CallsBackOnce` | `[]OneCallback`, assuming proper callees |
| `InvokerServiceProofs` | `Implements` | `ImplementsService` |
| | `ReportsOnce` | no call is reported twice, assuming nothing of `priv` |
| `BridgeProofs` | `BridgeIsRegistration` | `BridgeSpec` implements `Registration` |
| | `BridgeIsProvider` | `BridgeSpec` implements `ProviderRequests` |
| | `BridgeIsClient` | `BridgeSpec` implements `BusClient` |
| | `BridgeIsService` | `BridgeSpec` implements `CallService` |
| | `BridgeTypes` | `[]BridgeTypeOK` |
| | `BridgeAnswersOnce` | `[]AtMostOneAnswer` of `ProviderRequests`, in `Bridge` |
| | `AnswersStay` | `AnswersOwnConnection` |
| | `CallsAreKnown` | `[]CallsFindProvider` |

**Registration.** `TypeInv` adds to the types that a thread inside a registration
has an object, and a subscriber where the code is a subscriber's. `ReadyInv` says
that before `connection_lost` is installed nothing past the guards has begun: no
thread is at a libubus call, `ctxAlive` is 0, no timer for a reconnect is armed,
libubus knows no object; `ContextReady` alone is not inductive because it says
nothing of a thread that has passed the guard. `PendInv` is `LossIsPending` without
its premise that the link is down: a loss may come at any moment, so the same must
hold while it is up. `RetryIsPending` is inductive with the types: it is to
`EventuallyRegistered` what `LossIsPending` is to `LinkRecovers`, the safety part that
has a proof. `KnownInv` says that `tree`, ubusd and the flags speak of objects that
have been added to some connection, and so do the threads past the adding; `DownInv` that ubusd
has nothing while there is no link. `LossInv` follows `ctxAlive`: until `start` has set
it nothing of ours has been added (`EarlyInv`), and while it is set, what is left to
do about a loss dates from before it was, and nothing has been added (`QuietInv`).
So a reconnect with `ctxAlive` set replaces a connection without objects. `UsableInv`
then is `RegisteredIsOnBus` for the threads at `onRegiste` and `onSubscribe` too: in
the life of the context, what counts as registered or is about to is usable.
`StaleInv` says that a copy of the `Config` in a thread that is not in `stale` is the
`Config`; with it nothing but a stale copy takes an object out, and `ListedInv` says
that what is on the bus, in `tree` or in a thread's hands is in the `Config` or in
`overwritten`.

**The abstract client.** Any number of threads register, lose and reconnect; each step
must be one of `BusClient`, or none. `FlagSteps` singles out the steps that change a
flag: there are four, and the two that set it are of an object that has been added
and is usable if the context lives, by `KnownInv` and `UsableInv`; that is where a late
`onRegiste`, or one after a refused call, would show. `OtherSteps` lists the ten
actions that change anything else the client sees; `SetAlive` needs `EarlyInv` and
`Reconnect` needs `QuietInv`, since the client starts without objects and replaces a
connection it has objects on only when it no longer lives.

**Answering.** `AtMostOneAnswer` is not inductive: nothing in it keeps a request
that is being answered from being found again. `OwnInv` says where a request is:
with its handler, in the queue, in `reqList`, or with one responder, never in two
of these, and unanswered with live memory until the responder's last steps. The
base `BaseInv` relates places and requests and says that a responder with a job in
the queue waits for it and has only one. `NumberInv` says that no two requests have
one number and that a responder has the request of the number it was given.

**Order.** `OrderInv` follows the queue: `Ahead(r, i)` says that `r` has been added,
or that its job comes before job `i`. A request the application knows of has
entered; the job of an answer has its request ahead; when it becomes the first,
the request has been added, so not finding it means that another answer has.
`AppendPlaces` and `TailPlaces` say what the two queue operations do to places.

**The abstract service.** `Implements` shows, action by action, that a step of
`ProviderRequests` is a step of `CallService` on the mapped state or leaves it
alone. Besides `BaseInv` and `OwnInv` it needs `TakenInv`: a request that has been
taken has a number and never waits in the queue or in `reqList` again, what a
responder has was taken, and its status is out when its memory is to be cleared.
From these follow `UnnumberedIsUnheld` and `HeldByOne`, which the cases cite.

**Calling.** `PlaceInv` gives a thread its name and its request. For the cache,
`SameInv`: the map a thread's `compareAndSet` would replace is the one it has
copied. For the second round, `BusInv`: ids of ubusd are not given out twice, and
`RetryInv`: what a thread sends to in its second round comes from a lookup made after
the first failed. For the callbacks, `CallbackInv` divides the life of a request:
unnumbered ones are untouched (`NumberInv`), one that is with its thread is live and
unreported and belongs to that thread alone (`OwnerInv`), one that is linked has,
if its `priv` is still set, been reported if and only if its data has come
(`LinkedInv`).

**The abstract caller.** `LifeInv` follows the memory of a request: untouched until it
is made (`MadeInv`); live, unreported, unlinked and in one hand only while a thread
has it (`HandInv`); live until it is reported while it is linked, and, with proper
callees, not reported before its data has come (`ReportInv`). It is inductive for
every callee and every libubus, unlike `CallbackInv`, which needs proper callees:
the proof of `Implements` has no such assumption. `StepEffects` says what the actions
do to requests and hands in four ways (nothing, a call opened, a hand emptied, a
message received), from which both `LifeNext` and the refinement follow; the cache
changes in `CompareAndSet` alone, at one name because of `SameInv`. `ReportsOnce` is
proved from the steps of the abstract service, not from those of `Invoker`.

**The composition.** `BridgeIsRegistration` and `BridgeIsProvider` show that each
step of `Bridge` is one of each part, or none, so that what is proved of the parts
holds in `Bridge`; the invariants of `ProviderRequests` are used through an instance
of its proof module. With `Implements` of each part, `BridgeIsClient` and
`BridgeIsService` follow: the calls do not disturb the registration, and each call
call gets one answer also when its connection is lost. `AnswersStay` rests on three
facts. `LossInv`, as above, with `KnownInv`: no call comes before
`start` has set `ctxAlive`, nor, while it is set, when a loss from before is
pending; `StepFacts` says that neither can begin later. `CallInv`: while
`ctxAlive` is set, every call there is came over the connection of now. `BegunInv`:
a `rsp` began at the connection of the call with its number; it needs `NumberInv`.
`CallsAreKnown` takes `ListedInv` to the thread in the handler: `KnownGrows` says that
what has been listed stays in the `Config` or goes to `overwritten`.

Only model-checked: liveness (`LinkRecovers`, `EventuallyRegistered`, `AnswerEnds`),
which needs fairness and ENABLED and is out of this prover's reach.

## 6. Not modelled

- The Kotlin files without state: `Bridge.kt` and `Listener.kt` forward; `Method`,
  the JSON of signatures and payloads, `Log` and `Main.kt` are data and output.
- The JNI binding. Each of its functions converts its arguments and makes one call
  of `Bridge` between `PushLocalFrame` and `PopLocalFrame`, paired by `try` and
  `finally`. Its callbacks use the `JNIEnv` of `load` on other threads, which the
  JNI leaves undefined: there is no set of outcomes to choose from.
- The callbacks of notifications and events change no state of the bridge and are
  no actions. That their object is found is `OnBusIsListed`.
- libubus, libubox and ubusd come as headers and binaries, and are modelled only as
  far as the bridge uses them. Two threads inside libubus on one context are
  interleaved call by call; the race inside is left out.
- Counters wrap after 2^32 requests; native memory has no layout; `data_cb` frees a
  request libubus still has in its list, and what libubus then reads is not followed.
- `invoke` over numbered connections: `Invoker` has losses and reconnects of its own
  and is not part of `Bridge`.

## 7. Plan

Done: the three components, their composition for incoming calls, the abstract
specification of each component with the proof that the component implements it, and
theorems for every safety property of the passing runs.

Left, in this order:

1. `Invoker` in `Bridge`: a pending request of a connection that is lost, and an
   answer of the next connection with the same sequence number.
2. An abstract specification of the composition: calls that belong to a connection,
   of which `CallService` and `BusClient` are the two halves.
3. If `ctxAlive` is set again by the reconnect timer: `AnswersOwnConnection` no longer
   holds and `reqList` has to be told of losses; `Bridge` is the place to try it.

# A TLA+ verification of workerd

This directory specifies parts of workerd (the C++ runtime under `src/workerd`) in TLA+, model-checks the specifications with TLC and proves the most important of their properties with TLAPS.
Paths below are relative to `src/workerd`.

## The system

workerd runs JavaScript workers.
A request enters through a service of the server, gets a `WorkerInterface`, and runs in an `IoContext` under the lock of a V8 isolate.
Each thread runs one KJ event loop: code runs undisturbed from one suspension point (`co_await`, a `then()` continuation, a JavaScript turn) to the next, and everything that can happen in between may happen in any order.
Dropping a promise cancels what it stands for at its suspension point.
Threads share isolates (under the asynchronous isolate lock) and in-memory caches.

The hard part of the runtime is the Durable Object (an *actor*): one object in one thread, with durable storage, that promises its JavaScript code the following.

* Events are delivered one after the other where it matters. The **input gate** holds events back while storage operations or critical sections (`blockConcurrencyWhile()`, transactions) are in progress.
* Nothing leaves the actor before the writes it depends on are durable. The **output gate** holds messages back, and breaks the actor when a write fails.
* Writes made without an `await` in between are atomic. **Storage** (`ActorSqlite`, or `ActorCache` in front of a remote store) schedules implicit transactions and runs explicit ones.
* **Alarms** wake the actor at least once at or after the time it has set, with retries.
* Idle actors are **evicted**, while their WebSockets **hibernate**.

### Parts and modules

| Part | Source | Model |
|---|---|---|
| Input gate, locks, critical sections | `io/io-gate.{h,c++}` | `InputGate` |
| Output gate | `io/io-gate.{h,c++}` | `OutputGate` |
| Storage on SQLite, transaction calls of the API | `io/actor-sqlite.{h,c++}`, `api/actor-state.c++` | `ActorSqlite` (extends `OutputGate`) |
| Actor cache: map, reads, flushes | `io/actor-cache.{h,c++}` | `ActorCache`, `ActorCacheMap` |
| Actor cache: counting what `delete()` deletes | `io/actor-cache.{h,c++}` | `CountedDeletes` |
| Alarm invocation, the alarm in the actor cache | `io/worker.c++`, `io/worker-entrypoint.c++`, `api/global-scope.c++`, `io/actor-cache.c++` | `ActorAlarm` |
| Alarm scheduler | `server/alarm-scheduler.{h,c++}` | `AlarmScheduler` |
| Actor namespaces, eviction, request tracker | `server/server.c++`, `io/request-tracker.*` | `ActorNamespace` |
| WebSocket hibernation | `io/hibernation-manager.*`, `api/hibernatable-web-socket.*` | `Hibernation` (extends `ActorNamespace`) |
| Sending on a WebSocket, automatic responses | `api/web-socket.*`, `io/hibernation-manager.*` | `WebSocketSend` |
| Readable byte streams | `api/streams/queue.*`, `api/streams/standard.*` | `ByteQueue` |
| Writable streams and pipes into them | `api/streams/standard.*` | `WritableStream` |
| Memory cache | `api/memory-cache.*` | `MemoryCache` |
| Timeouts and intervals | `io/io-timers.*`, `io/io-context.c++` | `Timeouts` |
| Isolate lock | `io/worker.{h,c++}` | `AsyncLock`, and `IsolateLock` for what it promises |

`MCStorage`, `MCRuntime` and `MCActorCache` are the instances for TLC.
`InputGateLocks`, `InputGateSections`, `InputGateProofs`, `StorageProofs`, `SqliteProofs`, `AlarmProofs`, `RuntimeProofs` and `HibernationProofs` hold the proofs.
`PROJECT.json` lists every part of the system with its files, modelled or not, the lines that each definition stands for, and the hazards of the code with the properties that would show them going wrong.

## Modules

### InputGate

A *gate* is the root gate of the actor or a critical section (a `CriticalSection` is an `InputGate`).
`state`, `lockCount`, `waiters`, `waitingChildren` and `broken` are the fields of the class.
`path[c]` is the chain of parent pointers of section `c`, which never changes once the section is constructed.
`lock[o]` is the gate of the `Lock` that owner `o` holds: a task, or a section (its `parentLock`, and after `succeeded()` the same Lock in the hands of the caller).
`pc` and `entering` are the positions of the coroutines.
A waiter of the kind used by `CriticalSection::wait()` that has been fulfilled or rejected resumes later, which is why `childGranted` and `childRejected` are states: cancellation and failures may come in between.

| Action | Code |
|---|---|
| `Wait` | `InputGate::wait()`, and `CriticalSection::wait()` when running or reparented |
| `AddRef`, `Release` | `Lock::addRef()`, `~Lock()` with `releaseLock()` |
| `StartCriticalSection` | `Lock::startCriticalSection()` |
| `FirstWait`, `ResumeGranted`, `ResumeRejected` | the first `CriticalSection::wait()` and its continuation |
| `Cancel` | a dropped `wait()` promise, `~Waiter()` |
| `Succeeded`, `Failed`, `DestroySection` | `succeeded()`, `failed()`, `~CriticalSection()` |

`blockConcurrencyWhile()` (`io/io-context.h`) is the client: it starts a section, waits, runs the callback under the lock and calls `succeeded()` or `failed()`.

### OutputGate

`locks[k]` is the fulfiller made by the `k`-th `lockWhile()`, and `joined[k]` the value of `pastLocksPromise` after it: the join of `joined[k-1]` and lock `k`, which settles in an event of its own (`Join`).
A message branches the present value (`wait`) and settles with it (`Settle`).
`BreakLock` is a rejected promise, the timeout of the hooks, or a canceled `lockWhile()`; all three call `setBroken()` and reject the fulfiller.

### ActorSqlite

The module composes the storage with the output gate: commit task `k` runs under lock `k`.
JavaScript runs in turns (`BeginTurn`, `EndTurn`), and makes any number of calls in one; commit tasks and gate events run between turns.
Writes are numbered, so a set of writes stands for contents.
SQLite (`db`, `working`, `opened`, `saves`) is modelled from how the code uses it, by the documented meaning of `BEGIN`, `COMMIT`, `SAVEPOINT`, `RELEASE` and `ROLLBACK TO`; these definitions are marked external.
`Write(sql)` distinguishes the key-value calls, which refuse when broken, from SQL statements, which do not ask.
`txns` are the `ExplicitTxn` objects; an element is TRUE once rolled back, while the object lives on until a `waitUntil` task drops it (`DropRolledBack`).
`run`, `current`, `seen` and `exposed` are history: which writes belong together, what a message depends on, and which writes were made under a transaction that was already rolled back.

### ActorCache and ActorCacheMap

`ActorCacheMap` has the functions on the cache's ordered map: a key is a number, and an entry has a value (or `ABSENT`, or `UNKNOWN`), a sync status and the flag `gapIsKnownEmpty`.
`findInCache`, `addReadResultToCache`, `markGapsEmpty`, `putImpl`, `evictEntries`, `markClean`, the scans of `list()` and `listReverse()` and `merge` are the functions of the same names or the loops at the start of those operations.
`ActorCache` has the state around the map: reads in flight, the scheduled and the running flush, `requestedDeleteAll`, and the remote storage.

| Actions | Code |
|---|---|
| `put`, `deleteAll` | `put()`, `delete_()`, `deleteAll()` with `putImpl()` and `ensureFlushScheduled()` |
| `get`, `list` | calls that the cache cannot answer by itself; the others change nothing |
| `StorageRead`, `StorageWrite` | external: storage performs a call some time between sending and answer |
| `getImpl`, `values`, `end`, `ReadFails` | the answers, in batches for lists; the first `DISCONNECTED` is retried |
| `StartFlush`, `SendFlush` | `flushImpl()` builds the batch, then waits for past reads |
| `FlushSucceeds`, `DeleteAllSucceeds`, `FlushDisconnected`, `DeleteAllDisconnected`, `FlushBreaks` | the continuations of `flushImpl()` and `flushImplDeleteAll()` |
| `evictEntry` | `evictIfNeeded()` or `evictStale()` of any cache on the shared list, so possible at any time |
| `requireNotTerminal`, `shutdown`, `Oom` | the terminal states |

The order of the dirty list is left out (all dirty entries are written together), and so are sizes: any clean entry may be evicted and the hard limit may be hit at any time, which includes the evictions at the end of an operation.
The kinds of flush (single put, single delete, transaction) all wait for past reads and take effect at once, and are one action.
`contents` records what the application wrote; `exposed` records that one of four situations has occurred in which the cache goes wrong (below).

### CountedDeletes

`delete()` of several keys answers how many of them existed. Keys that the cache knows are counted at once; for the others the entry keeps a `CountedDelete`, and storage is asked when the deletion is flushed, even if the key has been written again by then.
`putImpl` hands a waiting `CountedDelete` on to the entry that takes the place of another.
A flush asks in batches before its transaction commits (`BatchAnswered`, `Commit`), or with a single call when it has nothing else to write (`SingleCountedDelete`); a disconnection in between starts it again (`DeleteFlushDisconnected`).
`exists` and `existed` record what the application sees.

### ActorAlarm

This composes the de-duplication of requests (`runAlarmImpl()`, `Actor::getAlarm()`, `scheduleAlarm()` and `handleAlarm()`), the time of the alarm as the cache keeps it (`setAlarmTime`, `armAlarmHandler()`, cancellation of the deferred deletion) and the alarm part of the flushes.
The alarm manager outside this code pulls the alarm from storage (`Pull`); it may ask twice, and its request may arrive after the alarm has changed.
`DropRequest` cancels a request wherever it waits.
`outdated` is history: an alarm was armed that storage did not hold, or that was about to be set once more.
The handler's time limit is a failure, and the wait for the scheduled time a step that may happen at any time.
A run that succeeded waits for the output gate twice: in `runAlarm()` (stage `"locks"`) and in `runAlarmImpl()` (stage `"gate"`). The deletion is scheduled by the deleter's disposal, which KJ performs as it drops the handler's promise; the model leaves open whether the first wait already includes the deletion's lock, so that durability rests on the second.
`lax` is history: the application allowed a write of the alarm to be unconfirmed (`allowUnconfirmed`), so that the output gate does not wait for it.

### AlarmScheduler

`rows` is the table `_cf_ALARM`, `alarms` the map of entries, each with its status and retry counters.
Each entry owns one task: asleep (WAITING, or FINISHED between retries) or in `runAlarm()` (STARTED).
Timers are abstracted to "may fire at any time"; `checkTimestamp()` compares with the clock, so an early timer goes back to sleep.
`Outcomes` are what a run returns: done, a failure that counts against the limit, one that does not (also the exception for a namespace that is not registered).
`Restart` constructs a new scheduler on a table with rows, which is what the constructor's `loadAlarmsFromDb()` is for. The server of this version gives the scheduler an in-memory directory (`server/server.c++`, "TODO(someday): support persistent storage for alarms"); the class itself loads what it finds.
`ScheduledAlarm::retry` is never read, and the jitter only changes delays; both are left out.

### ActorNamespace and Hibernation

`ActorNamespace` is the life of one object: `container` is its `ActorContainer` in the map, with the number of active requests, the eviction task and the actor whose `onBroken()` it watches; `requests` is what each requester holds, and `ours` says whether that belongs to the container now in the map.
`Hibernation` adds the WebSockets: `acceptWebSocket` hands one to the manager, whose read loop (`receive`, `receiveDisconnected`) delivers events (`EventRuns`, `EventReturns`, `EventThrows`), each a new request to the namespace. When the event returns, its interface goes away, while `incomingRequest->drain()` may keep the actor for longer (`EventDrained`). `HibernateAndEvict` packs the WebSockets and evicts the actor; an event or `getWebSockets` unpacks them in its successor.
The ten seconds before an eviction and the seventy between clean-ups may pass whenever they are awaited.

### WebSocketSend

Three parties write to a `kj::WebSocket`, which takes one message at a time: the pump for what JavaScript sends, the read loop for the automatic responses of an awake WebSocket, and the read loop for those of a hibernating one.
Responses that arrive while the pump runs are queued, and each message remembers how many go out before it; the counter is unsigned, with `SizeT` in the place of 2^64.
`SlowSends` says whether a send may outlast the ten seconds to an eviction.

### ByteQueue

Bytes are numbered in the order in which the source provides them, so that what a reader has got can be compared with it.
`consumers[b]` is the `ConsumerImpl` of a branch of a `tee()`, with its buffer and its pending reads; `pendingByob` and `byobRequest` are the BYOB requests of the queue and the controller's current one.
Each call of JavaScript is a step, except `respond()`, which calls the source's `pull()` before it is done: `responding` is the state in between.
An assertion that fails ends the branch (`"Fault"`).
`respond()` on an invalidated request calls `pullIfNeeded()` twice, with the source's `pull()` in between; whether the second call asks again is left open.

### WritableStream

The state of `WritableImpl`, of its owner `WritableStreamJsController` and of the pipe into it is one record, `dst`. The operators named after functions of the code (`write`, `advanceQueueIfNeeded`, `startErroring`, `finishErroring`, `dealWithRejection`...) take such a record and give the one after the call; the actions are the calls of JavaScript and the settling of the sink's promises.
`Listens` says whether JavaScript reacts to the abort signal by closing the stream, and `Prevents` are the options of `pipeTo()`. The source of a pipe may be closed or errored from the start.
A writer that is released takes its promises along: its ready promise stays pending if it was, and is not followed further.

### MemoryCache

`data` is what the mutex guards: the limits suggested by each use, the total size and the entries. Each step takes the mutex at most once.
A reader is a request, in some thread, that calls `read()`; its fallback may produce a value, fail or be canceled, after which the next in line is told in a step of its own (`fulfillNext`).
A use outlives the fallback callbacks made through it: `prepareFallback()` captures `this` (`api/memory-cache.c++:281-290`), and the isolate keeps its bindings while its requests run.
A reader sees the time of its own I/O context, which may lag behind another's, so each step takes a time from `Instants`.

### Timeouts

`timeoutTimes` is the ordered map of that name, with one entry for each pending promise, and `timeouts` the map of `TimeoutState`.
A timer goes through three events: the timer task fulfills the first entry (`TimerFires`), a later event calls the callback (`CallbackBegins`, `CallbackEnds`), and one more completes the promise, which removes the entry (`PromiseCompletes`). JavaScript sets and clears timers in between.
Identifiers are a counter. Delays may be zero, for intervals too: these are set again for the same `now()`, which does not advance while one of them is first.

### AsyncLock and IsolateLock

A thread has at most one `AsyncWaiter`, shared by its tasks that want the same isolate; those that want another wait until it is gone. The waiters of an isolate form a list guarded by a mutex, and the first has the lock.
`IsolateLock` is the promise: a lock is a thread's ownership of one isolate, which any number of its tasks share. The mapping counts the tasks that hold an `AsyncLock`.
Each task takes one lock.

## Runs

`MCStorage` and `MCRuntime` put several components into one run: `subject` is chosen initially and says which component moves, while the variables of the others stand still.
The states of such a run are the union of the components' states, and a property of one component is checked in all of its own.

| Run | What it shows |
|---|---|
| `actor_sqlite` | Writes, nested transactions, commits and failures in every order: messages that went out depend on confirmed writes only (`DeliveredIsConfirmedUnlessExposed`); runs of writes are atomic, and transaction objects and SQLite agree (`TransactionsAreSound`) |
| `actor_cache` | Outside of four named situations the cache agrees with what was written (`CacheIsCurrent`), no write is lost or unscheduled, and the output gate is held for it or broken, also when the cache is shut down or runs out of memory (`WritesAreKept`), reads are consistent with the time of the call (`ReadsAreConsistent`), and storage moves through the written states in order (`CommitsInOrder`) |
| `storage` | Output gate: a message passes exactly if all earlier locks are released, and is refused only if one failed (`OutcomesAreDue`). Counted deletes: the answer is exact, and there is always somebody to give it (`DeletesAreCounted`). Alarms of the actor cache: memory is true to storage and flushes, one alarm runs at a time, joined requests are served (`AlarmStateIsTrue`), and an alarm reported done is gone from storage, one to be retried still there (`AnswersAreDurable`). Scheduler: table and tasks agree, alarms run on time, backoff is their own (`AlarmsOnSchedule`). Byte queue: every byte is read once and in order (`BytesInOrder`), reads get their minimum when it is there, and the source is asked when it is not (`ReadsAreAnswered`). Writable stream: the sink's algorithms are called in order on a queue that is accounted for (`SinkInOrder`), and nothing waits for a stream or pipe that has ended (`EndsAreSettled`) |
| `storage_live` | Messages settle (of the gate by itself, and with commits on SQLite), alarm requests are answered, stored alarms run and end, writes settle and pipes end |
| `runtime` | Input gate: locks are counted exactly, no wakeup is lost, failures reach the root, and a task gets a Lock of a scope, at once or from a release, only when no section runs there (`OutsidersExcluded`). Namespace: one actor at a time stands for the object (`OneActorAtATime`), and nothing leaves while it is wanted (`NothingLeavesEarly`). WebSocket: one send at a time, in the promised order, none after a close until a second hibernation (`WireInOrder`). Memory cache: the limits in force are kept (`CacheIsBounded`), whoever waits for a key waits for exactly one fallback (`FallbacksInLine`). Timers: they fire in order, at their time, and are counted (`TimersInOrder`); neither time nor `clearTimeout()` is taken back (`NothingIsTakenBack`). Isolate lock: it implements `IsolateLock` |
| `runtime_live` | Waiters of the input gate, readers of the memory cache, timers and takers of the isolate lock are served; idle actors are evicted, disconnected WebSockets dropped, messages sent |
| `input_gate_broken`, `actor_sqlite_gate`, `alarm_delete`, `actor_cache_stale`, `pipe_failure`, `memory_limits` | Violations, see below |

Every property has a mutant: a definition marked `Mutant` that changes the code's behaviour the way a bug would, and for which TLC finds the property violated.

### Bounds

* Input gate: three sections nest two deep with a sibling, or chain three deep, so that a section is adopted by an adopted parent; two tasks, and the sections' own Locks, make holders, waiters and child waiters.
* Output gate: three locks let the middle one end first or last.
* SQLite: three writes make two in one run and one in another, in nested transactions, and two commit tasks overlap.
* Actor cache: three calls are two writes and a read, or two reads and a write, on any initial contents; with two keys and the empty one there is an entry before, at and after every gap, and the lists begin and end on and between entries, in both directions, with and without a limit. States after an exposure are not explored further, and neither are those in which a cache on which more than two operations were called is shut down or out of memory.
* Counted deletes: two calls share a key; batches hold one key, so that an answer comes between two of them; one retry.
* Alarms: two times let a queued alarm be earlier or later than the running one; three requests are one that runs, one scheduled and one that joins (in `storage_live` two: one runs or is scheduled, and the other is scheduled or joins it); writes of the alarm are confirmed or not; one retry. In the scheduler one of two namespaces is not registered, and the retry limits are only compared with counters.
* Namespace: a call with its WebSocket and its events, another call, and two managers; both values of `isEvictable`.
* WebSocket: three messages and three responses, and two hibernations.
* Byte queue: two branches, four bytes, element sizes and minimums 1 and 2, so that a read is filled in part, exactly or beyond. Writable stream: two chunks, of sizes that do and do not reach the mark, with every subset of the optional algorithms.
* Memory cache: three readers on three uses with different limits; values of three sizes; two instants.
* Timers: three, of which two at a time, with equal and different delays, and intervals with a delay and without.
* Isolate lock: four tasks on three threads, with two isolates.

`CHECK_DEADLOCK FALSE` is used where the bounded system stops: tasks may all be idle, and all messages may have been sent.

### Fairness

The KJ event loop is first in, first out, so a continuation that is ready runs: weak fairness of resumptions, joins and timers.
In `ActorSqlite` an event is disabled while a JavaScript turn runs, and turns end, hence strong fairness there.

* Locks of the input gate end because every continuation under a Lock returns, and sections because `blockConcurrencyWhile()` fails its section after 30 seconds.
* Locks of the output gate end because `Worker::Actor`'s hooks add a timeout of 30 seconds.
* Runs of alarms end because the handler has 15 minutes.
* A fallback of the memory cache ends because it produces a value, fails, or is destroyed with its I/O context.
* A peer reads what is sent, or its disconnection is noticed.
* The drain of an event ends when the next event is delivered, which takes over what is left to do (`IoContext::IncomingRequest::delivered()`).
* The clock advances, whatever timers are run (`ClockTicks` has a fairness condition of its own).
* Nothing in the code makes a sink's promises settle or a source end: `WritesAndPipesEnd` is relative to that.

`WaitersServed` assumes that Locks are not duplicated for ever, `AlarmsEnd` that internal errors, restarts and new alarms cease, and `TimersRun` that the timer is not held up for good by an interval without a delay that is due before it (`HeldUp`); the assumptions are antecedents of the properties.
`EverythingGoesOut` excludes messages that came when the pump no longer looked (below), and `RequestsAnswered` requests behind a scheduled one that was dropped, which a TODO in `runAlarmImpl()` (`io/worker-entrypoint.c++:523`) leaves open.

## Where code and documentation disagree

With a run:

* `input_gate_broken`: an outer section fails while one nested in it runs with a waiter; the nested one then succeeds, `succeeded()` moves the waiter to the outer gate without looking whether that is broken, and `releaseLock()` serves it there, although "All future waiters will throw this exception" (`io/io-gate.h:139`).
* `actor_sqlite_gate`: between `rollback()` and the end of the `ExplicitTxn` object a write is committed by SQLite at once, outside of the output gate (`io/actor-sqlite.c++:135`). Two such writes with no `await` in between are not atomic either, which is why the properties of `actor_sqlite` exclude `exposed` writes.
* `alarm_delete`: `deleteAlarm()` between retries, with an alarm queued, schedules the alarm it should delete.
* `actor_cache_stale`: a `get()` that is in flight when `deleteAll()` is called inserts the deleted value as a clean entry (`io/actor-cache.c++:1470`), although "it *must* be consistent with any existing knowledge about the state of disk"; later reads return it.
* `pipe_failure`: a pipe whose destination fails while it waits for its source resolves its promise, and leaves the source locked (`api/streams/standard.c++:3599`).
* `memory_limits`: "If all uses have been destroyed, the effective limits will be reset to Limits::min(), effectively clearing the cache" (`api/memory-cache.h:249`). A binding's use suggests its limits when it is made and again when it is moved (`api/memory-cache.c++:233`), and withdraws them once, so the limits never shrink and nothing is cleared; the evictions at `:90-102` are not reached when a use goes away. `Limits::operator<` also compares `maxTotalValueSize` twice and never `maxValueSize`.

The properties of `actor_cache` hold until one of four situations occurs, which `Exposes` names; without any one of its clauses TLC finds `CacheIsCurrent` violated.

1. `deleteAll()` is called while a read is in flight: the finding above. The deletion itself does not wait for past reads either, so that the read may already see it.
2. A clean entry is evicted while a `deleteAll()` has not reached storage yet. The evicted entry is the dummy that makes every key absent, and a `get()` then reads the old value from storage.
3. An entry leaves the map that a running `list()` found dirty. The comment on `markGapsEmpty()` (`io/actor-cache.c++:1540`) argues that this cannot happen since flushes wait for past reads, but a flush that was built before the list began does not wait for it; the list then inserts the old value, or marks its place empty.
4. The entry that a forward `list()` has got to is evicted, and another list puts an `UNKNOWN` entry in its place. `markGapsEmpty()` erases it as redundant, and the key counts as absent.

A confirmed write of the same value as an unconfirmed one that is not flushed yet returns early and takes no output lock; `WritesAreKept` leaves writes that change nothing out.

Without a run of their own; the definitions named here state what the documentation says, and TLC refutes them:

* `BrokenIsRemoved` (`ActorNamespace`): the eviction task cancels the `onBroken` task before it waits for the isolate lock (`server/server.c++:1594`). When a request then calls the eviction off and the actor breaks, nobody removes it, although "If the actor becomes broken, remove it from the map" (`:1903`); later requests get the broken actor.
* `BrokenDisconnects` (`Hibernation`): "this drops the HibernationManager so any connected hibernatable websockets will be disconnected" (`server/server.c++:1946`), but every actor that shares the manager keeps it alive while a request refers to it, and its WebSockets deliver events to the next container.
* `NothingAfterClose` (`WebSocketSend`): "preventing calls to send() even after we wake from hibernation" (`api/web-socket.h:464`). A WebSocket that wakes up does not restore the flag from which a package learns of `close()` (`api/web-socket.c++:1086`), so a second hibernation forgets the close.
* The exception `late` of `EverythingGoesOut`: while the pump sends the last automatic responses it no longer looks at the messages, and then clears them, and the count of responses before each message is no longer exact (`PromisesAreKept` and `InOrder` leave that out too), with the comment "Either we were already through all our outgoing messages or we experienced failure/cancellation and cannot send these anyway" (`api/web-socket.c++:829`).
* `OneSendAtATime` with `SlowSends = TRUE`: the promise of a response moves to the WebSocket that wakes up "to prevent possible ws.send races" (`io/hibernation-manager.c++:66-68`), but a hibernation drops what the WebSocket knew of a response under way. If a send outlasts the ten seconds to an eviction, the next one overlaps it. The runs take `SlowSends = FALSE`.
* `CountSurvivesRetry` (`CountedDeletes`): "nothing else could be concurrently modifying our storage in a way that makes the count different on a retry" (`io/actor-cache.c++:2847-2850`). But a retry adds to the `countDeleted` that the interrupted attempt has left, and a deletion that was sent alone may have been made before the connection was lost. `CountIsExact` leaves such calls out (`interrupted`).
* `NoCommitWhenBroken` (`ActorSqlite`): "Don't commit if shutdown() has been called" (`io/actor-sqlite.c++:140`) is what the implicit commit does; `ExplicitTxn::commit()` (`:98`) does not ask.
* `ExpiredGoFirst` (`MemoryCache`): "If there is an entry that has expired already, evict that one" (`api/memory-cache.c++:191`), but values without an expiration are first in the index, not "at the very end" (`api/memory-cache.h:345`), and hide the expired ones.
* `DeliveredOnce` (`ByteQueue`): when one entry fills a read and is too short for the next, `handlePush()` buffers all of it (`api/streams/queue.c++:604`; the comment at 711-713 says that the offset is set for what was consumed). `BytesInOrder` leaves such a branch out from then on.

The other exposures that `BytesInOrder` and `ReadsAreAnswered` leave out, by reading `api/streams/queue.c++` and `standard.c++` with TLC's help:

* `respond()` for a read that is not the first, or while bytes are queued, overtakes those bytes.
* An answer that is not a whole number of elements loses the rest, and the excess that `respond()` puts aside is computed from `amount - unaligned` (`queue.c++:475`).
* `releaseLock()` drops what a partly filled read has got.
* `respond()` on an invalidated request pushes the whole view, and leaves a detached request behind on which `enqueue()` throws (`standard.c++:2081-2086`).
* A read shorter than the bytes of a partly consumed entry makes a size underflow, which an assertion catches.
* `respond()` calls `pull()` before it invalidates the request.

Observations about writable streams: `close()` while the sink's `abort()` runs, and a size algorithm that throws while the stream is erroring, fail assertions (`standard.c++:1289`, `1529`); backpressure begins above the mark (`getDesiredSize() < 0`), where `standard.h:319` says "equal to or above"; `releaseLock()` drops pending writes and keeps their size; a new writer, a successful `start()` and an error resolve the ready promise despite backpressure.

Observations about alarms: `getAlarm()` of the scheduler ignores an alarm queued between retries; an uncounted failure after the last counted retry gives the alarm up; an alarm that was overwritten without confirmation (`lax`) may still be in storage at the answer that the comment at `io/worker-entrypoint.c++:569` wants guaranteed; a run that is dropped after the handler succeeded leaves its deferred deletion ready, and the next run fails an assertion (`io/actor-cache.c++:147`); a failure while a closed WebSocket's last event is delivered leaves the WebSocket in the manager (`io/hibernation-manager.c++:269-275`).

## Not modelled

* In the modelled parts: gets of several keys, `ActorCache::Transaction`, backpressure, `noCache` and `neverFlush`; `transactionSync()`; `abortAll()`, ephemeral actors without ids, tags and the time limit of events; failures of the connection while sending, and a pump canceled by an eviction; `respondWithNewView()`, reader locks, `start()` of a readable stream, streams of values; a second pipe into a writable stream; the times of anything but timers and alarms, which may pass whenever they are awaited.
* The rest of `IoContext` (pending events, finalizers, the delete queue, the drain window), the inspector with its cross-thread notifier, `util/wait-list.*`, `util/batch-queue.h` and destruction across threads, the internal streams and `TransformStream`: protocols of their own that would need modules of their own.
* HTTP, RPC, SQL cursors, web APIs, codecs, crypto, Node and Python support, traces: data processing, remote services, V8.
* JSG, isolates and modules: glue over V8. Configuration, sockets and start-up: pure configuration and I/O.

## Proofs

Each theorem holds for every value of the constants that the named assumptions of its module allow: distinct values stand for distinct things, sets of tasks, sections and requesters are finite, times and bounds are natural numbers.
The bounds on counters (`MaxLocks`, `MaxWrites`, `MaxRequests`...) are constants too, so the theorems hold however large they are.
For each component there is an inductive invariant, checked by TLC on the instances of the runs before it was proved; the lemma that it is kept has one case per action.
`USE Zenon` at the head of a module makes Zenon the prover of leaves that name no other; leaves that need arithmetic name SMT.

| Module | Theorems |
|---|---|
| `InputGateProofs` (on `InputGateLocks`, `InputGateSections`) | `Invariance`, `TypeCorrect`, `Accounting`, `NoWakeupIsLost`, `MutualExclusion`, `ReparentingIsComplete`, `Exclusion`, `FailureIsFatal` |
| `StorageProofs` | `GateOutcomesAreDue` |
| `SqliteProofs` (on `StorageProofs`) | `MessagesAreConfirmed`, `TransactionsStaySound`, `SqliteTypeCorrect` |
| `AlarmProofs` | `AlarmsStayOnSchedule`, `SchedulerTypeCorrect`; `AlarmStateStaysTrue`, `ActorAlarmTypeCorrect`, `FailedAlarmsAreKept`, `AnswersStayDurable` |
| `RuntimeProofs` | `AsyncLockImplements`, `AsyncLockTypeCorrect`; `TimeoutsInvariance`, `TimersStayInOrder`, `NothingTakenBack`, `TimeoutsTypeCorrect` |
| `HibernationProofs` | `OneActorStands`, `NothingLeaves`, `HibernationTypeCorrect` |

### Input gate

Lock accounting alone is not inductive; `Inv` adds:

* `PathInv`: the parent chain of a section that exists reaches a gate that is not reparented, its members have started and are not destroyed, and it contains their chains. Therefore, when section `c` is reparented, exactly the scopes whose nearest live ancestor was `c` move to the nearest live ancestor of `c`, and no other scope moves (`Adoption`).
* `LockInv` and `TaskInv`: Locks are on gates that exist, a running section's parent Lock counts in the scope that the section blocks, and the state of a coroutine says whether it holds a Lock.
* `QueueInv`: a task is in at most one list, at one place, and only while it waits; a waiting child stands in the list of the scope it will block.
* `WakeupInv`: nobody waits at a gate without Locks.
* `BlockInv`: at most one section, running or granted, blocks a scope. A new one enters only at `lockCount = 0`, which by lock accounting means that no Lock counts in that scope.

`InputGateLocks` proves that taking, duplicating and releasing Locks and cancellation keep `Inv`, `InputGateSections` the same of the construction of a section, its first `wait()` and the continuation, and `InputGateProofs` the rest of `Next`.
A second invariant on top of it, `BrokenInv` (the ancestors of a broken section are broken up to the root), gives `FailureIsFatal`.
`Exclusion` follows from `Entrance`, which goes through the actions that give out Locks: a task that gets a Lock of a scope other than by `addRef()` holds the only one there, and a section that blocks the scope would hold another.

### Output gate and storage on SQLite

The chain of joins is what makes `OutcomesAreDue` inductive: `JoinsAreDue` says that a join that is ready has all locks up to its own released, and one that failed has a failed lock among them.

For SQLite there are three layers.

* `StoreShape`: a commit task's phase agrees with the state of its lock, explicit transactions nest as the savepoints do, and an implicit transaction is the open one.
* `OwedInv`, for `MessagesAreConfirmed`: every write that JavaScript sees outside of an explicit transaction is confirmed, exposed, or owed by a lock (one that failed, one whose callback covers the write, or one whose task has yet to commit it); every write that a message has seen is owed by a lock that the message waits for; what was written inside transactions that were rolled back is exposed.
* `RunsInv`, for `TransactionsStaySound`: the sets of writes that the database, the connection and every savepoint hold contain a run as a whole or not at all, but for the run under way and for exposed writes.

### Alarms

The properties of the scheduler are inductive together with the types (`SchedulerInv`).

The alarm of the actor cache has `AlarmInv`.

* `AlarmCacheInv` relates the alarm time in memory to storage: a clean time is the stored one unless the handler was armed on an outdated time, a change in progress belongs to the flush under way (`ChangeIsFlushed`, `FlushIsOfCurrent`).
* `AlarmRunsInv` is about the requests: one is active at a time and is the running one, a joined request has its time from the request it joined.
* `HandlerHolds` connects the two: while a handler runs, its deferred deletion waits.

`AnswersStayDurable` is an action property. Its invariant `DurableInv` follows a run whose time `T` the application has not set again, nor overwritten without confirmation (`lax`). Between the success of the handler and the second wait `T` is `Secured`: gone, or about to be overwritten by a flush that locks the output gate (`ChangeIsGated`). During the second wait `Goes(T, n)`, where `n` is the number of flushes the run still waits for: `T` is gone from storage and from everything on the way to it, or the flush under way overwrites it and `n >= 1`, or the next one will and `n` counts that one as well.
Nothing is assumed of the first wait, nor that writes are confirmed.
`FailedAlarmsAreKept` rests on less: from the failure of the handler to the answer the time in memory is clean and that of the request.

### Runtime

The refinement `AsyncLockImplements` maps the tasks that hold an `AsyncLock` to the ownership of `IsolateLock`. Its invariant says that a thread is on the list of the isolate its waiter is for, once, and on no other; the first of a list is ready and nobody else; the tasks that wait or hold refer to their thread's waiter, and every waiter is referred to.

`TimeoutsInv` has two halves. `TimesInv`: the entries are sorted by time and age, only the first can be past waiting, and the task waits for the first. `StatesInv`: each entry agrees with the state of its timer, a live timer has exactly one entry that waits or runs, and `timeoutCount` is the number of live timers.

### Hibernation

`NamespaceInv` says that a reference which belongs to the container is one to its actor, that all others are to actors that were shut down, that `active` is the number of tracked requesters, and that while an eviction is pending there are none and the container remembers the actor's manager; while the eviction awaits the isolate lock nobody watches the actor.
`SocketsInv` adds that every WebSocket of a call of the container has the object's manager, remembered or in use, and that one for which a close event was sent is not read any more.

### What is only model-checked

* All liveness properties, which are beyond the prover.
* `ByteQueue`, `WritableStream` and `MemoryCache`: their algorithms on queues and on the cache are recursive operators, about which nothing can be proved here.
* `ActorCache`, `CountedDeletes` and `WebSocketSend`.

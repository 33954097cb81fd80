# TomPIT.Connected: a verification project

TomPIT.Connected is a low-code application platform. A central server, *Sys*,
keeps the state of an installation (queues, workers, events, locks, print jobs,
mail, configuration); satellite servers (*Worker*, *Cdn*, *BigData*, *Search*,
*IoT*, ...) poll it over HTTP, pull work with a lease, run user code and report
back. This directory holds TLA+ models of the parts of that machinery in which
threads, leases, crashes and retries meet, the TLC runs that check them on small
instances, and TLAPS proofs for every value of the constants. Paths below are
relative to `src/`.

## 1. Inventory

### 1.1 The work dispatchers (`Core/TomPIT.Core/Distributed`)

Every satellite service turns what it pulled from Sys into work through one
generic class, so a flaw here is a flaw in queues, workers, events, mail,
printing and big data at once.

* **`Dispatcher<T>`**, the *parallel dispatcher*. State: a concurrent `Queue`, the
  list `Jobs` guarded by `lock(Jobs)`, a cancellation source. Operations:
  `Enqueue(item)`, `CreateWorker`, the completion handler `OnCompleted`,
  `DisposeJob`, `Dispose`. Hard: the queue is not guarded by the list's lock, so
  "is there work?" and "is there a worker?" are answered at different moments; a
  job runs itself again from its own completion callback. Correct if nothing
  enqueued is forgotten, no more than `WorkerSize` jobs work, an item goes to one
  job, and nothing starts after `Dispose`.
* **`DispatcherJob<T>`**: a `BackgroundWorker` that drains the owner's queue
  (`DoWork`), swallows handler exceptions through `OnError`, skips an item whose
  lease has lapsed, and raises `Completed`.
* **`QueuedDispatcher<T>`** and the keyed half of `Dispatcher<T>`
  (`Enqueue(key, item)`, `EnsureDispatcher`, `OnQueuedCompleted`): one serial
  dispatcher per key, created on demand in a `ConcurrentDictionary`, removed and
  disposed when idle. No lock anywhere. Hard: `Enqueue` crosses `OnCompleted` (who
  runs the worker?) and `OnQueuedCompleted` (is the dispatcher still alive?).
  Correct if an accepted item is handled, items of a key are handled one at a
  time in order, and idle dispatchers go away.
* **`TimeoutTask`**, the keepalive that pings a lease while a handler runs, and
  **`HostedService`**, the polling loop. Hard: start/stop/cancel races.

### 1.2 Sys: the message queue (`Sys/TomPIT.Sys/Model/Cdn/QueueingModel.cs`)

State: the messages in memory (`IdentityRepository` over the memory cache), an
identity counter, a dirty flag, a lock bit per message (`EditableRecord`); the
table `tompit.queue`, rewritten as a whole by `queue_upd`. Operations: `Enqueue`
(with de-duplication by buffer key), `Dequeue` (select visible messages, lease
each), `Ping`, `Complete`, `Select`, `Flush` (every 60 s and when stopping),
`OnInitializing` (load after a start). Callers: HTTP requests of the Worker server,
the scheduler, the flush loop. Hard: selection before locking, pop receipts that
change owner, a flush that overlaps requests, a crash between flushes. Correct if
no message is lost, leases are exclusive, record locks are released, and a clean
repository is in the table.

### 1.3 Sys: entity locks (`Sys/TomPIT.Sys/Model/Data/LockingModel.cs`)

State: two concurrent dictionaries, entity to lock and unlock key to lock, with
no lock over both. Operations: `Lock` (with eviction of a timed-out lock), `Ping`,
`Unlock`; called by every server through `LockingController`, on the client side
with a retry loop (`LockingService`) and a per-request cache
(`MiddlewareLockingService`). Hard: each call updates the two dictionaries one
after the other; time-outs race late unlocks. Correct if an entity has one holder
and a holder's ping extends the lock others see.

### 1.4 Queue workers (`Worker/TomPIT.Worker.App/Services`)

State: per server the static table `InFlight` of entries being processed; per delivery
the message as it was handed out (pop receipt, `NextVisible`, `DequeueCount`).
Operations: `QueueWorkerService.OnExecute` dequeues for 5 minutes;
`QueueWorkerJob.DoWork` gives up what has waited too long, pings for 120 seconds,
completes what has come more than 30 times, skips what is in flight, calls the handler
under a keepalive of 90 seconds, completes; `Invoke` hands a message over to the keyed
dispatcher if its handler asks for it; `OnError` asks for another try in 30 seconds.
Hard: the lease on Sys and what the job believes of it drift apart; a message comes
again while it is in flight, on the same server or another. Correct if no entry is
handled twice at once or again after success, and every entry leaves the queue.

### 1.5 Scheduled workers (`WorkersModel.cs`, `Scheduler.cs`, `WorkerJob.cs`)

State: a row per worker (status Enabled, Queued or Disabled, next run), a cached copy
of it, its messages in the queue. Operations: the scheduler enqueues what is due and
resets what is queued without a message; the management enqueues, resets, enables,
disables and configures; a job takes a message, runs the worker and completes it
or reports an error. Hard: every update writes the whole row from a copy read before, and
refreshes the cache from the row, with nothing around the two. Correct if a worker is run
by one job at a time and never stays queued for nothing.

### 1.6 Big data storage (`BigData/BigData/Transactions`, `Sys/.../Model/BigData`)

State: the buffer of a partition, transaction blocks and their blobs, the queue messages
of the blocks, per server a `StoragePool` with one `StorageWorker` per partition.
Operations: `Prepare` (into the buffer, or into a transaction); `BufferingJob` turns
the buffer into transactions and clears it; `StorageService` dequeues block messages,
`StorageJob` puts them into the pool; the worker pings, loads, merges table by table,
completes, and prepares again what was locked. Hard: a lost wake-up of the worker, an
exception that ends it with blocks left, rows that arrive between the query and the
clear of the buffer, leases that end while a block waits, partly merged blocks. Correct
if no row is lost, none is merged twice, and all are stored in the end.

### 1.7 The rest of the platform

| Part | State and operations | Hard about it | Model |
|---|---|---|---|
| Keepalive, hosted services (`TimeoutTask`, `HostedService`) | running flag, cancellation | start and stop race | by effect, in `QueueWorker` |
| Cache (`Core/.../Caching`) | entries per key, lazily initialized repositories, invalidation events | swallowed initialization failures, late invalidations, lost first values | by effect, in `Workers` |
| Schedule calculator (`ScheduleCalculator.cs`) | none | calendar boundaries | not modelled |
| Message bus (`MessagesModel`, `MessageRecipientsModel`, `MessageSubscribersModel`, `MessageDispatcher`, `MessageDisposer`) | messages, recipients with retry counts, subscribers with liveness | acknowledgements, retries, dead subscribers | not modelled |
| Events (`EventsModel`, `Cdn/Cdn/Events`) | event queue, hub clients, reliable messages | reconnects, retries | not modelled |
| Subscriptions (`SubscriptionsModel`, `Worker/.../Subscriptions`) | subscription queues with leases | the protocol of the queue workers | not modelled |
| Printing (`Model/Printing`) | jobs, spooler, serial numbers | unsynchronised serial numbers | not modelled |
| Mail (`MailModel`, `Cdn/Cdn/Mail`) | mail queue, SMTP connection pool | pool limits, resends | not modelled |
| Client side of locking | per-request lock cache, retry loop | stale cached locks | not modelled |
| Runtime, SDK middleware | compilation, user code, request contexts | reflection and I/O, no state machine of its own | not modelled |
| Search, IoT, Reporting, REST, UI, development environment, management, SQL access, data providers, proxies, vendored code | | I/O, rendering, forwarding | not modelled |

How they interact: a satellite's `HostedService` dequeues messages from Sys (a
*lease* and a *pop receipt* each), enqueues them in its `Dispatcher`, whose jobs
call user code while a `TimeoutTask` pings the lease, and complete the message by
pop receipt. Keyed messages go on to a `QueuedDispatcher`. The lease is the only
thing that makes a crash of the satellite survivable, and its expiry the only
thing that makes a message visible twice.

## 2. Plan

Order, most important behaviour first; * is done.

1. * `WorkPool` (abstract pool), `Dispatcher` refines it; proofs.
2. * `MessageQueue`; proofs.
3. * `KeyedDispatcher`, every instance refines `WorkPool` with one worker; proofs.
4. * `Locking`; proofs, `PingExtends` among them.
5. * `QueueWorker`: leases, `InFlight`, the two dispatch paths and the keepalive, over
   the promise of the message queue; proofs.
6. * `Workers`: scheduler, worker status, orphans, over the same promise; proofs.
7. * `BigData`: buffer, transaction blocks, storage pool and workers.
8. * Proofs of `BigData` (`TypeOK`, `RowsKept`, `StoredOnce`) and of `PoolSpec` of
   `KeyedDispatcher`.
9. `MessageBus` (recipients and acknowledgements), `Events`, `Printing`, `LockClient`
   over `Locking`, the cache as a component of its own.

The promise of the message queue in items 5 to 7: a message is handed out to one holder
at a time while its lease runs, and `Ping` and `Complete` do nothing for a pop receipt
that is not the latest. `LeaseRespected` shows the first where no ping is late
(`overtaken`). A late ping (section 7) shortens or lengthens another holder's lease; the
consumers take it as one of the faults that cost a lease.

## 3. Modules

| Module | Models |
|---|---|
| `WorkPool` | abstract: a FIFO pool running at most `Limit` items |
| `Dispatcher` | `Dispatcher.cs` (parallel half) with `DispatcherJob.cs` |
| `Dispatcher_proofs` | its theorems |
| `KeyedDispatcher`, `KeyedDispatcher_proofs` | `QueuedDispatcher.cs`, keyed half of `Dispatcher.cs`, `DispatcherJob.cs` |
| `MessageQueue`, `MessageQueue_proofs` | `QueueingModel.cs`, `PersistentRepository.cs`, `IdentityRepository.cs`, `EditableRecord.cs`, `PersistenceService.cs` |
| `Locking`, `Locking_proofs` | `LockingModel.cs` |
| `QueueWorker`, `QueueWorker_proofs` | `QueueWorkerService.cs`, `QueueWorkerJob.cs`, `TimeoutTask.cs` by its effect |
| `Workers`, `Workers_proofs` | `WorkersModel.cs`, `Scheduler.cs`, `WorkerJob.cs` |
| `BigData`, `BigData_proofs` | `Transactions/*.cs`, `PartitionBufferingModel.cs`, `BigDataTransactionBlocksModel.cs`, `BigDataTransactionsModel.cs` |
| `MC...` | what TLC needs besides: symmetry, one constant function |

`PROJECT.json` maps every definition to the lines it models.

### 3.1 Dispatcher

An `Enqueue` call is two actions, since `Queue.Enqueue` is outside the lock:
`Enqueue(i)` appends, `SignalWorkers(i)` is the locked section (decide, create, add,
run). A job is `polling` (about to `TryDequeue`), `handling`, `completed` (the event is
being raised), `removing`, `checking` (between the two locked sections of
`DisposeJob`) or gone. `HandlerReturns` covers a handler that returns and one that
throws (`OnError` runs inside the same try). `TakeItem` also covers the item whose
lease has lapsed (`IPopReceiptRecord`), which is skipped; `Lapse` is that lapse.
`Dispose` is five actions in the order of the code, interleaving with everything,
as it holds the lock only while it disposes the jobs. A disposed job's worker is
null (`nulled`), so `Run` on it throws and is swallowed. `SignalWorkers` may come after
the loop of `Dispose` over the list, and even after the list is cleared, as long as the
cancellation source is not disposed: that job is on no list `Dispose` goes through. Once the
source is disposed, creating a job throws (`Cancel.Token`, line 69).
`RunWorkerAsync` is one atomic step.

### 3.2 KeyedDispatcher

One key; a producer's call is followed statement by statement
(`FindDispatcher`, `AddDispatcher`, `RetryDispatcher`, `CheckDisposed`, `Put`,
`CheckRunning`, `StartWorker`), so is a completion handler (`OnCompleted`,
`CheckCount`, `FindEntry`, `RemoveEntry`, `ReviveEntry`, `DisposeDispatcher`).
`WorkCompleted(d, h)`: `BackgroundWorker` clears `IsBusy` and raises
`RunWorkerCompleted` on another thread; a producer may run the worker in
between and a second completion then overlaps the first, hence `Handlers`.
`entry[d]` is the key under which `d` is registered: 0 none, 1 the key itself,
above 1 a generated key. The owner's `Dispose` goes through the registry, then
clears it.

### 3.3 MessageQueue

Client threads run `Enqueue` (`CheckDuplicate`, `Insert`), `Dequeue`
(`SelectTargets`, then per target `BeginEdit`, `Take`), `Ping` (`Lookup`,
`PingBegin`, `PingApply`), `Complete` (`Lookup`, `Remove`). `msgs` are the objects,
`cache` says which ids the repository holds: a thread may still hold an object that
has been removed, as in the code. The table is written by `FlushWrite` with the
objects as they are *then* (the list holds references). `Restart` is a crash and
`OnInitializing`. Pop receipts are 1, 2, 3, ... in the order handed out. `grants`
is a history variable: to which message and until when each receipt was last
granted a lease. `fate` is what became of each `Enqueue` call. `overtaken` collects
the messages whose current lease was changed by a ping called with an older
receipt, and, after a restart, those handed out before it.

### 3.4 Locking

One entity; entities share nothing. A lock object is a record of its unlock key and
its time-out. `LockCall`, `PingCall`, `UnlockCall` are the dictionary operations in
the order of the code; each operation of `ConcurrentDictionary` is atomic.
`TryUpdate` compares by reference: a ping makes a new object with the same key, so
each object has an identity. `lease` and `unlocked` are history: what the
holder of a key was told.

### 3.5 QueueWorker

A delivery is one dequeued message on its way through one server: `waiting` in a
dispatcher, at its `ping`, `pinged`, `handling`, about to `complete`. `keyed` is chosen
for each entry in `Init`: whether its handler asks for queued processing. A handed-over
delivery waits again and goes through the same method; until the job that handed it over
has left its `finally` the pair is in `handing`, and the entry in flight (line 99).
The keyed dispatcher takes its entries in any order and any number at once: finding 1
shows that a second one of the same key may stand beside it, so nothing relies on its order.
`HandOverFails` is a hand-over that throws, or that is refused or lost, which nobody looks at
(line 109): the message then waits for its lease. Leases are
counted down by `Tick`; `delivery.left` is the `NextVisible` the job was told,
which its pings do not change, `message.left` the one on Sys. `Prompt` says which steps
take no time on a server that is not stalled: between a ping and the start of the handler, and
between the handler and `Complete`. Waiting, pinging and handling take any time.
Faults: `Stall` (time passes anyway), `CompleteFails`, `Crash` of a server.

### 3.6 Workers

One worker: `row` and `cached` are its status in the database and in the Sys cache. A
thread's `todo` is what it still has to do; every update ends with `Write` (the whole
row, from the copy in `own`) and `Store` (the refresh of the cache). `Enqueue` is a
duplicate check, an insertion and an update to Queued, as separate steps. Time is left
out: a next run or the orphan threshold may have come whenever asked for. `Hidden` and
`Holds` are the promise of the queue. Faults: a lost lease (`Stall`), a dead job
(`Die`), a failed `Complete`, an expired message, a `Restart` of Sys, after which the
queue holds what the last flush had, be it the message in an older state. A job cut off by the
restart goes to its error path, or is left without an answer (`Resumed`): then it writes
nothing, and its message comes back when the lease is over. `blurred` records that one of these has happened or that two
`Enqueue` calls were past the duplicate check at once.

### 3.7 BigData

One partition; a row stands for what a block holds of one table, a transaction for its
only block. The steps of a delivery (`ping`, `load`, `merge`, `settle`, `prepare`)
belong to the one worker of the partition in a server; `Merge` and `Locked` decide table by
table. `making` is a call of `CreateTransactions`: the block is stored (`InsertBlock`), then its
message enqueued (`Activate`). `EnsureWorker` is separate from putting a block in the pool, and
`LoopEnds` from `OnWorkerCompleted`: between the two the worker is listed and does
nothing any more. `WaitsTooLong` is a lease that ends while a block waits in the pool behind
others, which needs no fault. Faults: a buffer hidden too briefly
(`Overrun`), a buffering job, a worker step or `CreateTransactions` that throws, a stall, a crash of
a server, and `Expire`: the message of a block lives 14 days (`BigDataTransactionsModel.cs:51`),
is passed over afterwards and removed by a flush, whether its rows were merged or not. A partition left
invalid by a schema change, on which every attempt throws, gets there. `risked` collects
the rows that were in a thread's hands when a fault struck it while it made a new block of them, and
those of a block whose message expired.
A file that cannot be locked is `Locked` where `Merger.cs` says so (lines 101, 152, 187); at
line 131 it dereferences null instead, which is the fault `Throws`.

### 3.8 Abstractions

* Data is left out where no property reads it: message texts, queue names, scopes,
  logging, the item type. One queue, one key, one entity at a time.
* `Created` is not a field: an element of `Entries` is one `Enqueue` call.
* Time is a counter that `Tick` moves between any two steps; a step takes no time.
* Constants that only bound TLC's search: `JobObjects`, `Instances`, `Handlers`,
  `MaxGuid`, `MaxTime`, `MaxId`, `MaxReceipt`, `MaxCrashes`, `MaxObjects`, `Slots`,
  `Deliveries`, `Blocks`, `MaxChunks`, `MaxFaults`, `MaxDisturbances`. They
  guard the actions that would exceed them. The proofs hold for every value of
  them.
* A failed `queue_upd` leaves the table as it was, as for one
  transaction. The table is
  modelled after `.github/build/installer/Create.sql:3180`, which truncates
  and inserts; the older `Database/Scripts/Microsoft SQL Server/Create.sql:4098`
  updates existing rows only, which would lose every message at a restart.

## 4. Runs

Passing:

| Run | Shows | Bounds and why they are enough |
|---|---|---|
| `dispatcher_safety` | `TypeOK`, `NoStrandedItem`, `WorkerBound`, `OneHandler`, `PoolSpec` | 3 items over 2 workers, so one waits while two run; 4 job objects allow two replacements |
| `dispatcher_live` | `EveryItemTaken`, `IdleJobsLeave`, `WorkersReleased` | 2 items, 3 jobs: a late item meets a job that leaves, and a job is created between the steps of `Dispose`; no symmetry, as it is a liveness run |
| `keyed_dispatcher` | `TypeOK`, `NothingStranded`, `IdleUnregistered`, `PoolSpec`, `QueuedIsHandled` | 2 producers race each other and 2 completion handlers; 2 instances allow a second dispatcher of the same key beside one under a generated key; `ItemsInv` was also checked with these bounds, `RegisteredInv` with 3 items, 3 handlers and 2 generated keys |
| `queue` | `TypeOK`, `NothingLost`, `DurableWhenClean`, `LockDiscipline`, `LeaseRespected` | 2 messages, 2 threads, 2 receipts, so a message is delivered, lapses and is delivered again; one flush loop, failing flushes, a crash at any point and what follows it |
| `locking_safety` | `TypeOK`, `ExclusiveInTime`, `KeysMatch`, `PingExtends` | 3 threads (holder, pinger, contender), 3 locks, so one is replaced twice |
| `workers` | `TypeOK`, `OneRun`, `QueuedIsReleased`, `EnabledIsRun` | 2 jobs and 2 messages, so a worker could be run twice; the scheduler and one request or fault, of any kind at any moment; `OneRun` says nothing after a fault or a double insertion |
| `queueworker` | `TypeOK`, `OncePerServer`, `LeaseHeld`, `HandledOnce`, `EveryEntryLeaves` | 1 message and 3 deliveries over 2 servers: two on one server and one elsewhere; leases of 3, 2 and 1 in the order of 5 minutes, 120 and 90 seconds; 2 dequeues before it is given up; one fault. `IInv` was also checked with 2 messages |
| `bigdata` | `TypeOK`, `RowsKept`, `StoredOnce`, `EveryRowStored` | 2 rows of one request, so a block can be partly locked; 2 buffering jobs; 2 deliveries and 2 blocks, so one waits behind the other and a block is made again while the old one lives; one fault; `IInv` and `RowsKept` were also checked with two |

Violated (each checks one claim of the sources, see 7): `keyed_alive`, `queue_twins`,
`locking_holder`, `queueworker_lease`.

`CHECK_DEADLOCK FALSE` throughout: when all items have been handled, or a bound is
reached, the system rests.

**Fairness.** Steps of threads that have started something are fair: the
locked section of an `Enqueue` that has put its item, the steps of jobs (thread-pool
threads; a handler returns or throws, the assumption the dispatchers
are built on), completion handlers, and a thread that has begun `Dispose`. So are the polling loops (`HostedService`: a
service dequeues again and again), the passing of time where leases and time-outs depend
on it, and nothing else: nobody has to call `Enqueue`, `Dispose` or the management, no fault
has to happen. Three assumptions are strong, since an entry may be delivered any
number of times: that it is now and then taken in time and pinged in time (`QueueWorker`, `BigData`), and that a
file asked for again and again is now and then unlocked (`BigData`). Without them
a server that is always too slow never handles anything, and the code promises nothing
else. `MessageQueue` and `Locking` have no liveness property: a message is dequeued
only if someone polls, and nothing in Sys promises that.

## 5. Proofs

All by TLAPS, for every value of the constants that meets the named assumptions
of the modules (a null is not an item; bounds and times are naturals;
`WorkerSize` is a positive natural; a keepalive is shorter than the lease of a ping, and
that not longer than the lease of a dequeue).

* **Dispatcher**: `TypeCorrect`, `NothingStranded`, `WorkersBounded`, `HandledOnce`,
  `ImplementsPool`. `IInv` adds to the properties that
  the job list holds exactly the jobs that have not been through the first half of
  `DisposeJob` (`JobListInv`), that the queue holds each waiting item once
  (`QueueInv`), and what a handling job holds (`HandlerInv`). `JobListInv` is what makes
  `Jobs.Count` a correct bound on busy jobs; `NoStrandedItem` is preserved only because a
  job leaves the list into `checking`, from where the queue is looked at again. Refinement:
  queue, stages and cancellation map to `waiting`, `stage`, `closed`; each action is a
  pool step or a stutter.
* **KeyedDispatcher**: `TypeCorrect`, `NothingForgotten`; `NothingStranded` is inductive
  with the types. `IdleIsUnregistered` needs to know why a registered dispatcher is not idle
  (`RegisteredInv`): it waits for the first item of the producer that added it
  (`FirstItemComes`), or has an item, a running worker, or a handler that will find
  it by the key it is registered under, its own or a generated one (`InUse`); and nobody touches a
  dispatcher before it is added (`OwnersOnly`). `EachIsAPool` is the refinement: `queue[d]` maps to
  `waiting`, `StageIn(d)` to `stage`; `Put` is `Submit`, `TakeItem` is `Start`, `HandlerReturns` is
  `Finish`, all else a stutter, for each dispatcher. It needs `ItemsInv`: an item is with one producer,
  then once in one queue, then with the worker of that dispatcher, so that what is submitted is new
  and nothing is active when an item is taken. The pool of a disposed dispatcher is not closed:
  nothing takes its items away, it only loses the worker.
* **MessageQueue**: `TypeCorrect`, `LeasesRespected`, `NoMessageLost`,
  `LocksDisciplined`, `CleanIsDurable` (for one flusher: with two it is false,
  see the end of 7). `IInv` says that every cached id has an object and ids do not exceed
  the identity (`CacheInv`; after a restart because the seed is the largest saved id, shown with
  well-foundedness of `<` on the naturals), that threads work on objects that exist and receipts name the
  message they were handed out for (`ThreadInv`), that no two threads bring the same
  entry (`ArrivalInv`), that an entry is stored under one id, in memory and in the table
  (`StoreInv`), and that a message stays invisible until every lease granted for it has
  run out (`LeaseInv`). `LeaseInv` is the reason `Dequeue` may select first and lock later: the
  second test of `NextVisible` is under the lock.
* **Locking**: `TypeCorrect`, `LocksExclusive`, `DictionariesAgree`, `PingsExtend`. As long
  as no timed-out lock has been evicted, at most one thread is between its two updates and works
  on the lock of the entity (`BetweenInv`), a granted key that is not unlocked is
  entered (`GrantInv`), a ping replaces like by like (`PingInv`). After an eviction none of
  this holds, which `locking_holder` shows. `PingExtends` survives evictions, by an invariant of its
  own (`PingIInv`): a key about to be entered has never been, so no ping knows it
  (`RegisterInv`), and where both dictionaries know a key they hold one object, or the
  two a single ping is just exchanging (`OneObject`).
* **QueueWorker**: `TypeCorrect`, `OncePerServerHolds`, `LeaseHeldHolds`, `HandledOnceHolds`.
  Once per server, because an entry being handled is in flight and no hand-over
  of it is still to take it out (`InFlightInv`), with any faults. The lease, because a delivery that believes in
  its `NextVisible` still holds the message for at least that long, and one that is
  handled for longer than until its next keepalive (`LeaseInv`); this needs `KeepAlive < PingLease <=
  DequeueLease`, holds without faults, and not for keyed entries, as `queueworker_lease` shows.
  Handled once, because what has succeeded is gone or is about to complete (`DoneInv`).
* **Workers**: `TypeCorrect`, `OneRunHolds`. The plans of the threads are finitely many
  (`PlansInv`). Until something is blurred there is one message at most (`OneMessage`), none
  while one is about to be inserted (`NothingToInsert`), and from `Dequeue` until it has completed it a job
  holds the message, hidden from the others (`HeldByJob`).
* **BigData**: `TypeCorrect`, `NoRowLost`, `MergedOnce`. The types need `PoolInv`: what is in a
  pool are messages that were dequeued, each once. No row is lost, with any faults but those `risked` names, because whoever holds a
  message works on its block, which exists (`HolderInv`), a block in the making is its maker's alone
  (`MakingInv`, `MakersInv`), a block is emptied only when each of its rows is stored or taken along
  as locked (`BlockInv`), and the buffer is cleared only up to the last chunk of which
  the job has made blocks (`BufferInv`, `JobInv`). What a buffering job has in hand does not count
  (`Away`), since it may die with it: that is why the clear comes after the blocks. `RowsKept`
  alone is not inductive: if rows in the hands of a job counted as kept, nothing would be known of them
  once it has stopped half way. No row is merged twice while nothing goes wrong, because then a
  delivery keeps its message (`HoldInv`), one job has the buffer (`OneJobInv`), what is locked is not
  merged (`MergedInv`), and a row that will still be merged is in exactly one of the `Places`: a batch
  not yet brought, a chunk not yet cleared or superseded, a block in the making, a block, a delivery;
  and in none once it is stored (`OnceInv`). Each step either leaves the places of a row as they are or
  takes it from one to another (the lemmas `Stay` and `Move`). The first state needs the batches
  to be disjoint (`BatchesAssumption`): a row is what one call of `Prepare` brings, two
  equal records of two calls are two rows. `IInv` and `OnceInv` were checked with TLC as invariants of
  the `bigdata` instance first.

Only model-checked: liveness (`EveryItemTaken`, `IdleJobsLeave`, `WorkersReleased`, `QueuedIsHandled`,
`QueuedIsReleased`, `EnabledIsRun`, `EveryEntryLeaves`, `EveryRowStored`), which is beyond
the prover. Every invariant and action property of a passing run is proved. No model uses a
`RECURSIVE` operator, no theorem induction over data.

## 6. Mutants

`M_...` definitions stand before the definition they distort and are used nowhere:
each is a plausible slip (a dropped re-check, a peek for a dequeue, a missing seed, a
forgotten `EndEdit`, an update of one dictionary only) and breaks the property
`PROJECT.json` pairs it with, under the same configuration.

## 7. Findings

Each is a trace of a violated run, and names the comment it contradicts.

1. `keyed_alive`: a completion handler acts on a `Count` of 0 that is stale: a
   producer found the worker idle and ran it, the worker took the item, and the
   dispatcher is removed and disposed while it works (`Dispatcher.cs:195-208`). Its
   cancellation token fires, so the keepalive stops, and the next `Enqueue` under the key
   creates a second dispatcher: two items of a key run at once.
2. `queue_twins`: de-duplication by buffer key is a check and an insertion with
   nothing between them (`QueueingModel.cs:44-77`).
3. `locking_holder`: `Unlock` and the eviction in `Lock` remove the lock of an entity
   whatever it is by then (`LockingModel.cs:23, 56`).
4. `queueworker_lease`: the ping of `QueueWorkerJob.cs:41` shortens the lease to 120 seconds,
   while the `NextVisible` the job goes by still says 5 minutes. A handed-over message
   waits in the keyed dispatcher without a keepalive; its lease ends, another server gets
   it, and both handle it.

Other outcomes of the models have no run of their own:

* `Enqueue` under a key tested `Disposed`, the handler recounted 0 and disposed, then the
  item is put (`QueuedDispatcher.cs:39-42`): the answer is true, the item waits in a dead
  queue until its lease lapses.
* Two completion handlers of one dispatcher: one registers it again under a generated
  key, the other, whose `TryRemove` failed, disposes it (`Dispatcher.cs:208-233`).
* `Ping` of the queue selects by pop receipt and then edits; when the lease lapses in
  between and another consumer takes the message, the late ping sets that consumer's
  lease, possibly to less (`QueueingModel.cs:174-180`). This is `overtaken` in
  `LeaseRespected`.
* `PersistenceService.StopAsync` flushes beside the loop, which it neither stops nor
  awaits, so that the older snapshot may be written last: `DurableWhenClean` fails with
  two `Flushers`.
* The duplicate check of finding 2 lets two jobs run one scheduled worker at once
  (`blurred` in `OneRun`, which claims nothing from then on).
* A storage worker completes a block before it prepares the locked rows again, and
  `CreateTransactions` swallows its own failure: a fault there loses rows. A block that has failed for 14 days loses its message and with it its
  rows. `risked` in `RowsKept` collects both, and no step of the model loses a row elsewhere. After a fault rows may be merged
  twice: `StoredOnce` is claimed without faults only.

## 8. Not modelled

* **Most of the lines.** Nearly all of the repository's JavaScript is vendored script libraries
  of the user interfaces (DevExtreme, Monaco, exceljs, ...), which no module is about. The
  program itself is C#, and the modules map C# lines only. Measured against those
  scripts the share of lines covered is nil and would stay so.
* **In `Workers`**: the insertion of a worker, its dates, and `AttachState`. The message
  of a worker holds its state, so that once a run has changed it, the
  message of that run is no duplicate of a new one, and `Run` enqueues a second beside it; the model
  takes all messages of the worker as equal and so never shows this.
* **In `BigData`**: files, their index and merging, time zones, transactions of several
  blocks and the counter that decides when the row of a transaction goes; a crash of the Sys
  server, which may lose the messages of new blocks (`MessageQueue` has the same
  loss, of what was not flushed).
* **What the properties leave open.** `OneRun` claims nothing after a fault or a double
  insertion, so it does not judge what two jobs do after them. `StoredOnce` claims nothing
  after a fault, and an ordinary lock that runs into `Merger.cs:131` is one: a double merge
  that follows it is outside the claim. `EveryRowStored` assumes that a file asked for again and again is
  now and then unlocked; if `Merger.cs:183-192` asks again for a closed file its own merge has locked, that
  fails for good, and the block runs into its expiry; and it takes the 14 days as long enough unless
  the expiry is the counted fault. `PingExtends` leaves out overlapping pings of one key.
  `EnabledIsRun` covers a cached copy that is stale until the next reload, not one that a lost
  invalidation leaves stale for ever.
* **One step for two in `MessageQueue`**: storing or removing a message and setting the dirty flag
  (`QueueingModel.cs:77-79`, `194-195`). Between the two a clean repository is ahead of its table
  until the call returns, which `DurableWhenClean` does not see; whatever a flush does meanwhile, the
  flag is set afterwards and the next one writes.
* **`TimeoutTask`, `HostedService`**: by their effect. Whatever the order of the two flags
  of a keepalive, the cancelled delay ends its loop.
* **Cache**: `Workers` models the invalidate-and-reload of the one row it decides on, and the
  other modules their own dictionaries. The initialization of a repository
  and its failure are a hazard without a property.
* **Schedule calculator**: arithmetic on dates; a model would be a second calendar.
* **Message bus, events, subscriptions, printing, mail, client side of locking, IoT**: their
  protocols are smaller variants of those modelled (a lease and a pop receipt, a retry count,
  a cache in front of a dictionary), or small tables behind I/O. Their hazards are
  either listed without a property or those of the protocol they vary.
* **Runtime, SDK, search, reporting, REST, user interfaces, SQL, proxies**: reflection, I/O,
  rendering, forwarding; no state machine that could be explored.

`PROJECT.json` gives each component its status and reason.

------------------------------ MODULE Dispatcher ------------------------------
(***************************************************************************)
(* Core/TomPIT.Core/Distributed/Dispatcher.cs with DispatcherJob.cs: the   *)
(* pool every background service (queue worker, scheduled worker, events,  *)
(* mail, printing, subscriptions, storage) hands its items to.             *)
(*                                                                         *)
(* A service thread calls Enqueue(item): the item goes to a lock-free      *)
(* queue, then, under lock(Jobs), a DispatcherJob is created if the list   *)
(* is too short.  A job polls the queue until it is empty; its             *)
(* BackgroundWorker then raises Completed on another thread, and the       *)
(* handler either runs the job again or removes it from the list and       *)
(* disposes it.  Everything outside lock(Jobs) interleaves.                *)
(*                                                                         *)
(* The keyed half of the class (QueuedDispatchers) is KeyedDispatcher.tla. *)
(***************************************************************************)
EXTENDS Integers, Sequences, FiniteSets

CONSTANTS Items,        \* the items services enqueue, each at most once
          JobObjects,   \* DispatcherJob instances; a free one stands for "new"
          WorkerSize,   \* the constructor's argument
          NoItem        \* DispatcherJob.Current before its first item

ASSUME WorkerSizeAssumption == WorkerSize \in Nat \ {0}
ASSUME NoItemAssumption == NoItem \notin Items

VARIABLES queue,      \* Dispatcher.Queue
          jobs,       \* Dispatcher.Jobs
          calls,      \* items whose Enqueue call has not yet entered lock(Jobs)
          pc,         \* where each job object is
          current,    \* DispatcherJob.Current
          nulled,     \* jobs whose _worker has been disposed and set to null
          status,     \* what has become of each item
          lapsed,     \* items whose NextVisible has passed
          disposal    \* how far Dispatcher.Dispose has come

jobVars == <<jobs, pc, current, nulled>>
vars == <<queue, jobs, calls, pc, current, nulled, status, lapsed, disposal>>

Steps == {"free", "polling", "handling", "completed", "removing", "checking", "dead"}
Statuses == {"new", "queued", "handling", "handled", "failed", "skipped", "cleared"}
Disposals == {"live", "cancelled", "cleared", "workersDisposed", "jobsCleared", "disposed"}

Cancelled == disposal # "live"

TypeOK ==
    /\ queue \in Seq(Items)
    /\ jobs \in SUBSET JobObjects
    /\ calls \in SUBSET Items
    /\ pc \in [JobObjects -> Steps]
    /\ current \in [JobObjects -> Items \cup {NoItem}]
    /\ nulled \in SUBSET JobObjects
    /\ status \in [Items -> Statuses]
    /\ lapsed \in SUBSET Items
    /\ disposal \in Disposals

Init ==
    /\ queue = <<>>
    /\ jobs = {}
    /\ calls = {}
    /\ pc = [j \in JobObjects |-> "free"]
    /\ current = [j \in JobObjects |-> NoItem]
    /\ nulled = {}
    /\ status = [i \in Items |-> "new"]
    /\ lapsed = {}
    /\ disposal = "live"

-------------------------------------------------------------------------------
(* Definitions called M_... are not part of the model: each is a deliberately *)
(* wrong version of the definition that follows it, which some property must *)
(* refuse (see README, "Mutants").                                           *)

M_EnqueueNull(i) ==
    /\ status[i] = "new"
    /\ queue' = Append(queue, NoItem)
    /\ calls' = calls \cup {i}
    /\ status' = [status EXCEPT ![i] = "queued"]
    /\ UNCHANGED <<jobs, pc, current, nulled, lapsed, disposal>>

M_EnqueueFront(i) ==
    /\ status[i] = "new"
    /\ queue' = <<i>> \o queue
    /\ calls' = calls \cup {i}
    /\ status' = [status EXCEPT ![i] = "queued"]
    /\ UNCHANGED <<jobs, pc, current, nulled, lapsed, disposal>>

(* Enqueue(item), first half: the item is visible to every job at once. *)
Enqueue(i) ==
    /\ status[i] = "new"
    /\ queue' = Append(queue, i)
    /\ calls' = calls \cup {i}
    /\ status' = [status EXCEPT ![i] = "queued"]
    /\ UNCHANGED <<jobs, pc, current, nulled, lapsed, disposal>>

M_NoLimit == Cardinality(jobs) >= Len(queue) /\ Cardinality(jobs) <= WorkerSize

EnoughWorkers ==
    \/ Cardinality(jobs) >= Len(queue) /\ Cardinality(jobs) <= WorkerSize
    \/ Cardinality(jobs) >= WorkerSize

CreateWorker(j) ==
    /\ pc[j] = "free"
    /\ jobs' = jobs \cup {j}
    /\ pc' = [pc EXCEPT ![j] = "polling"]
    /\ current' = [current EXCEPT ![j] = NoItem]
    /\ nulled' = nulled \ {j}

(* Enqueue(item), second half, under lock(Jobs).  Once the token source is   *)
(* disposed CreateWorker throws at Cancel.Token and the caller gets the      *)
(* exception; the item stays in the queue of a dead dispatcher.  (Dispose    *)
(* does not hold the lock when it disposes the source: a call that has its   *)
(* token by then adds its job a moment later.  It is a call that came first, *)
(* for nothing looks at the list any more.)                                  *)
SignalWorkers(i) ==
    /\ i \in calls
    /\ calls' = calls \ {i}
    /\ \/ (EnoughWorkers \/ disposal = "disposed") /\ UNCHANGED jobVars
       \/ /\ ~EnoughWorkers /\ disposal # "disposed"
          /\ \E j \in JobObjects : CreateWorker(j)
    /\ UNCHANGED <<queue, status, lapsed, disposal>>

-------------------------------------------------------------------------------
M_PeekItem(j) ==
    /\ pc[j] = "polling"
    /\ queue # <<>>
    /\ current' = [current EXCEPT ![j] = Head(queue)]
    /\ status' = [status EXCEPT ![Head(queue)] = "handling"]
    /\ pc' = [pc EXCEPT ![j] = "handling"]
    /\ UNCHANGED <<queue, jobs, calls, nulled, lapsed, disposal>>

(* DispatcherJob.DoWork(): take an item; one whose lease has run out is      *)
(* passed over, the others go to the handler.                                *)
TakeItem(j) ==
    /\ pc[j] = "polling"
    /\ queue # <<>>
    /\ queue' = Tail(queue)
    /\ current' = [current EXCEPT ![j] = Head(queue)]
    /\ \/ /\ Head(queue) \in lapsed
          /\ status' = [status EXCEPT ![Head(queue)] = "skipped"]
          /\ UNCHANGED pc
       \/ /\ Head(queue) \notin lapsed
          /\ status' = [status EXCEPT ![Head(queue)] = "handling"]
          /\ pc' = [pc EXCEPT ![j] = "handling"]
    /\ UNCHANGED <<jobs, calls, nulled, lapsed, disposal>>

(* DoWork(item) returns, or throws and OnError is called; the loop goes on. *)
HandlerReturns(j) ==
    /\ pc[j] = "handling"
    /\ pc' = [pc EXCEPT ![j] = "polling"]
    /\ \E outcome \in {"handled", "failed"} :
          status' = [status EXCEPT ![current[j]] = outcome]
    /\ UNCHANGED <<queue, jobs, calls, current, nulled, lapsed, disposal>>

(* The loop finds the queue empty; the BackgroundWorker posts its completion. *)
LoopEnds(j) ==
    /\ pc[j] = "polling"
    /\ queue = <<>>
    /\ pc' = [pc EXCEPT ![j] = "completed"]
    /\ UNCHANGED <<queue, jobs, calls, current, nulled, status, lapsed, disposal>>

M_CancelledReturns(j) ==
    /\ pc[j] = "completed"
    /\ pc' = [pc EXCEPT ![j] =
          IF Cancelled \/ (queue # <<>> /\ j \in nulled) THEN "dead"
          ELSE IF queue = <<>> THEN "removing" ELSE "polling"]
    /\ UNCHANGED <<queue, jobs, calls, current, nulled, status, lapsed, disposal>>

M_KeepIdleJob(j) ==
    /\ pc[j] = "completed"
    /\ queue # <<>>
    /\ pc' = [pc EXCEPT ![j] = IF j \in nulled THEN "dead" ELSE "polling"]
    /\ UNCHANGED <<queue, jobs, calls, current, nulled, status, lapsed, disposal>>

(* Dispatcher.OnCompleted: run the job again if something came in, else      *)
(* dispose it.  Run() on a job whose _worker is null throws, Run() swallows  *)
(* it, and nobody looks at that job again.                                   *)
OnCompleted(j) ==
    /\ pc[j] = "completed"
    /\ \/ queue = <<>> /\ pc' = [pc EXCEPT ![j] = "removing"]
       \/ queue # <<>> /\ j \notin nulled /\ pc' = [pc EXCEPT ![j] = "polling"]
       \/ queue # <<>> /\ j \in nulled /\ pc' = [pc EXCEPT ![j] = "dead"]
    /\ UNCHANGED <<queue, jobs, calls, current, nulled, status, lapsed, disposal>>

(* DisposeJob: the first lock(Jobs) section, then job.Dispose(). *)
RemoveJob(j) ==
    /\ pc[j] = "removing"
    /\ jobs' = jobs \ {j}
    /\ pc' = [pc EXCEPT ![j] = "checking"]
    /\ nulled' = nulled \cup {j}
    /\ UNCHANGED <<queue, calls, current, status, lapsed, disposal>>

(* DisposeJob: the second lock(Jobs) section, which replaces the last job if *)
(* an item came in between the emptiness check and the removal.  Dispose     *)
(* takes the lock between cancelling and disposing the token source, so that *)
(* a source not cancelled here still has its token for CreateWorker.         *)
NeedsReplacement == ~Cancelled /\ jobs = {} /\ queue # <<>>

M_NoRecheck(j) ==
    /\ pc[j] = "checking"
    /\ pc' = [pc EXCEPT ![j] = "free"]
    /\ UNCHANGED <<queue, jobs, calls, current, nulled, status, lapsed, disposal>>

RecheckQueue(j) ==
    /\ pc[j] = "checking"
    /\ \/ /\ ~NeedsReplacement
          /\ pc' = [pc EXCEPT ![j] = "free"]
          /\ UNCHANGED <<jobs, current, nulled>>
       \/ /\ NeedsReplacement
          /\ \E k \in JobObjects \ {j} :
                /\ pc[k] = "free"
                /\ jobs' = {k}
                /\ pc' = [pc EXCEPT ![j] = "free", ![k] = "polling"]
                /\ current' = [current EXCEPT ![k] = NoItem]
                /\ nulled' = nulled \ {k}
    /\ UNCHANGED <<queue, calls, status, lapsed, disposal>>

-------------------------------------------------------------------------------
(* Dispose(): five steps, of which only the third holds lock(Jobs). *)
DisposeStep(from, to) == disposal = from /\ disposal' = to

CancelJobs ==
    /\ DisposeStep("live", "cancelled")
    /\ UNCHANGED <<queue, jobs, calls, pc, current, nulled, status, lapsed>>

ClearQueue ==
    /\ DisposeStep("cancelled", "cleared")
    /\ queue' = <<>>
    /\ status' = [i \in Items |-> IF status[i] = "queued" THEN "cleared" ELSE status[i]]
    /\ UNCHANGED <<jobs, calls, pc, current, nulled, lapsed>>

DisposeJobs ==
    /\ DisposeStep("cleared", "workersDisposed")
    /\ nulled' = nulled \cup jobs
    /\ UNCHANGED <<queue, jobs, calls, pc, current, status, lapsed>>

ClearJobs ==
    /\ DisposeStep("workersDisposed", "jobsCleared")
    /\ jobs' = {}
    /\ UNCHANGED <<queue, calls, pc, current, nulled, status, lapsed>>

DisposeSource ==
    /\ DisposeStep("jobsCleared", "disposed")
    /\ UNCHANGED <<queue, jobs, calls, pc, current, nulled, status, lapsed>>

Dispose == CancelJobs \/ ClearQueue \/ DisposeJobs \/ ClearJobs \/ DisposeSource

(* Time: the visibility lease of an item still in the queue runs out. *)
Lapse(i) ==
    /\ status[i] = "queued"
    /\ i \notin lapsed
    /\ lapsed' = lapsed \cup {i}
    /\ UNCHANGED <<queue, jobs, calls, pc, current, nulled, status, disposal>>

-------------------------------------------------------------------------------
JobStep(j) ==
    \/ TakeItem(j) \/ HandlerReturns(j) \/ LoopEnds(j)
    \/ OnCompleted(j) \/ RemoveJob(j) \/ RecheckQueue(j)

Next ==
    \/ \E i \in Items : Enqueue(i) \/ SignalWorkers(i) \/ Lapse(i)
    \/ \E j \in JobObjects : JobStep(j)
    \/ Dispose

Spec == Init /\ [][Next]_vars

(* Threads that have started a call finish it, and handlers return; nobody   *)
(* has to call Enqueue or Dispose.                                           *)
Fairness ==
    /\ WF_vars(Dispose /\ Cancelled)
    /\ \A i \in Items : WF_vars(SignalWorkers(i))
    /\ \A j \in JobObjects : WF_vars(JobStep(j))

FairSpec == Spec /\ Fairness

-------------------------------------------------------------------------------
(* An item in the queue of a live dispatcher is never forgotten: a job is    *)
(* still listed, a disposed job has yet to re-check the queue, or the        *)
(* Enqueue call that brought an item has yet to look at the list.  This is   *)
(* what the second lock(Jobs) section of DisposeJob is there for.            *)
NoStrandedItem ==
    (queue # <<>> /\ ~Cancelled) =>
        \/ jobs # {}
        \/ calls # {}
        \/ \E j \in JobObjects : pc[j] = "checking"

Busy == {j \in JobObjects : pc[j] \in {"polling", "handling"}}

(* Enqueue and DisposeJob both create jobs, from different threads, and      *)
(* together they never run more of them than the service asked for.          *)
WorkerBound == ~Cancelled => Cardinality(Busy) <= WorkerSize

(* Whatever is in a handler is in exactly one handler, across re-runs,       *)
(* replacements and disposal of jobs.                                        *)
OneHandler ==
    /\ \A i \in Items : status[i] = "handling" =>
          \E j \in JobObjects : pc[j] = "handling" /\ current[j] = i
    /\ \A j, k \in JobObjects :
          (pc[j] = "handling" /\ pc[k] = "handling" /\ current[j] = current[k]) => j = k


-------------------------------------------------------------------------------
(* The inductive invariant behind the safety properties and the refinement. *)

Listed == {"polling", "handling", "completed", "removing"}

(* Until Dispose starts, the list holds exactly the jobs that have not been *)
(* through the first half of DisposeJob, all of them with their worker.     *)
JobListInv ==
    /\ IsFiniteSet(jobs)
    /\ ~Cancelled => /\ jobs = {j \in JobObjects : pc[j] \in Listed}
                     /\ Cardinality(jobs) <= WorkerSize
                     /\ jobs \cap nulled = {}

(* The queue holds each waiting item once. *)
QueueInv ==
    /\ \A m \in 1..Len(queue) : status[queue[m]] = "queued"
    /\ \A m, n \in 1..Len(queue) : queue[m] = queue[n] => m = n

HandlerInv ==
    \A j \in JobObjects :
        pc[j] = "handling" => current[j] \in Items /\ status[current[j]] = "handling"

IInv == TypeOK /\ JobListInv /\ NoStrandedItem /\ QueueInv /\ HandlerInv /\ OneHandler

-------------------------------------------------------------------------------
(* Everything enqueued is taken up by a job as long as the dispatcher lives  *)
(* and handlers return (what DispatcherTests.Dispatcher_ProcessesAllItems    *)
(* waits for).                                                               *)
EveryItemTaken ==
    \A i \in Items : status[i] = "queued" ~> (status[i] # "queued" \/ Cancelled)

(* When nothing is left to do the job objects go away: the list does not     *)
(* keep an idle job that would count against WorkerSize in Enqueue.          *)
IdleJobsLeave ==
    \A j \in JobObjects : j \in jobs ~> (j \notin jobs \/ calls # {} \/ queue # <<>>)

(* The BackgroundWorker of every job is disposed in the end, also of one     *)
(* that Enqueue creates while the dispatcher is cancelled but not yet        *)
(* disposed: after the loop of Dispose over the list has passed, or when the *)
(* list is cleared, nothing but the job's own completion disposes it.        *)
WorkersReleased == \A j \in JobObjects : pc[j] # "free" ~> j \in nulled

(* The dispatcher implements the abstract pool. *)
Stage(i) ==
    CASE status[i] = "new" -> "new"
      [] status[i] = "queued" -> "waiting"
      [] status[i] = "handling" -> "active"
      [] status[i] \in {"handled", "failed"} -> "done"
      [] status[i] \in {"skipped", "cleared"} -> "dropped"

Pool == INSTANCE WorkPool WITH
            Limit <- WorkerSize,
            waiting <- queue,
            stage <- [i \in Items |-> Stage(i)],
            closed <- Cancelled

PoolSpec == Pool!Spec
===============================================================================

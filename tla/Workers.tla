-------------------------------- MODULE Workers --------------------------------
(***************************************************************************)
(* Scheduled workers: WorkersModel.cs and Scheduler.cs on the Sys server,  *)
(* WorkerJob.cs on the worker servers.  One worker is modelled: its row,   *)
(* the copy of it in the Sys cache on which every decision is taken, and   *)
(* its messages in the "worker" queue.                                     *)
(*                                                                         *)
(* An update takes the cached worker, writes the whole row, reads the row  *)
(* back and stores it in the cache.  Between these steps the scheduler,    *)
(* the requests of the worker servers and those of the management          *)
(* interleave.  Of the row the status is kept.  Time and counts are left   *)
(* out: NextRun, the threshold of ResetOrphaned and DisableTreshold may    *)
(* have been reached whenever they are asked for.  The queue is what       *)
(* MessageQueue promises: a dequeued message is hidden while its lease     *)
(* runs, and only its latest pop receipt finds it.                         *)
(***************************************************************************)
EXTENDS Naturals, Sequences, FiniteSets

CONSTANTS Jobs,          \* threads of the worker servers, one message each
          Scheduler, Management,
          NoJob,
          Slots,         \* room for the messages of the worker
          NoMessage,
          NoStatus,
          MaxDisturbances   \* bound on management requests and faults together

ASSUME ThreadsAssumption ==
    Scheduler \notin Jobs /\ Management \notin Jobs /\ NoJob \notin Jobs
ASSUME BoundsAssumption ==
    MaxDisturbances \in Nat

VARIABLES row,           \* the status of the worker in the database
          cached,        \* ... and in the repository
          queue,         \* the message in each slot
          todo,          \* the steps each thread still has to take
          own,           \* ... and in the copy a thread is about to write or store
          message,       \* the slot of the message each job took
          disturbances,
          blurred        \* history: something has gone wrong, or two Enqueues
                         \* were past the duplicate check at once

vars == <<row, cached, queue, todo, own, message, disturbances, blurred>>

Threads == Jobs \cup {Scheduler, Management}
Statuses == {"Enabled", "Queued", "Disabled"}
Message == [visible : BOOLEAN, receipt : Jobs \cup {NoJob}]

(* M_... definitions are deliberately wrong versions of the definition that  *)
(* follows them; they are not part of the model (README, "Mutants").         *)
M_NewMessage == [visible |-> TRUE, receipt |-> NoMessage]

(* A message nobody has dequeued yet. *)
NewMessage == [visible |-> TRUE, receipt |-> NoJob]
ASSUME EmptyAssumption == NoStatus \notin Statuses /\ NoMessage \notin Message \cup Slots

Steps == {"check", "insert", "write", "store", "initialize", "orphan", "reset",
          "reschedule", "run", "complete", "error", "settle"}

Present == {m \in Slots : queue[m] # NoMessage}
At(t, step) == todo[t] # <<>> /\ Head(todo[t]) = step
Idle(t) == todo[t] = <<>>

(* The Sys server starts, with an enabled worker that has run before. *)
Init ==
    /\ row = "Enabled"
    /\ cached = row
    /\ queue = [m \in Slots |-> NoMessage]
    /\ todo = [t \in Threads |-> IF t = Scheduler THEN <<"initialize">> ELSE <<>>]
    /\ own = [t \in Threads |-> NoStatus]
    /\ message = [j \in Jobs |-> NoMessage]
    /\ disturbances = 0
    /\ blurred = FALSE

-------------------------------------------------------------------------------
(* Every update of the row ends the same way. *)
Update == <<"write", "store">>

Proceed(t, steps, r) ==
    /\ todo' = [todo EXCEPT ![t] = steps]
    /\ own' = [own EXCEPT ![t] = r]

(* Workers.Update replaces the row as a whole, and the OnInvalidate of the   *)
(* Refresh after it reads the row (if another thread has written in between, *)
(* it reads a later one, as it does with its Write after this one) ...       *)
Write(t) ==
    /\ At(t, "write")
    /\ row' = own[t]
    /\ Proceed(t, Tail(todo[t]), own[t])
    /\ UNCHANGED <<cached, queue, message, disturbances, blurred>>

(* ... and stores what it has read. *)
Store(t) ==
    /\ At(t, "store")
    /\ cached' = own[t]
    /\ Proceed(t, Tail(todo[t]), NoStatus)
    /\ message' = IF t \in Jobs /\ Len(todo[t]) = 1
                  THEN [message EXCEPT ![t] = NoMessage] ELSE message
    /\ UNCHANGED <<row, queue, disturbances, blurred>>

-------------------------------------------------------------------------------
(* WorkersModel.Enqueue of a worker object read before: the queue drops the  *)
(* message if it has one of the worker already, and the status becomes       *)
(* Queued whatever has become of the message and of the row since.           *)
Enqueue(t) == Proceed(t, <<"check">>, "Queued")

M_NoDuplicate == Present = {}

Duplicate == Present # {}

CheckDuplicate(t) ==
    /\ At(t, "check")
    /\ Proceed(t, IF Duplicate THEN Update ELSE <<"insert">> \o Update, own[t])
    /\ UNCHANGED <<row, cached, queue, message, disturbances, blurred>>

Insert(t) ==
    /\ At(t, "insert")
    /\ \E m \in Slots \ Present : queue' = [queue EXCEPT ![m] = NewMessage]
    /\ blurred' = (blurred \/ \E u \in Threads \ {t} : At(u, "insert"))
    /\ Proceed(t, Tail(todo[t]), own[t])
    /\ UNCHANGED <<row, cached, message, disturbances>>

EnqueueStep(t) == CheckDuplicate(t) \/ Insert(t)

-------------------------------------------------------------------------------
(* Reset; OnInitialize calls it for a queued worker, ResetOrphaned for one   *)
(* that has not run lately and has no message.                               *)
ResetWorker(t) ==
    /\ At(t, "reset")
    /\ Proceed(t, Update, "Enabled")
    /\ UNCHANGED <<row, cached, queue, message, disturbances, blurred>>

Initialize ==
    /\ At(Scheduler, "initialize")
    /\ Proceed(Scheduler, IF cached = "Queued" THEN <<"reset">> ELSE <<>>, NoStatus)
    /\ UNCHANGED <<row, cached, queue, message, disturbances, blurred>>

(* QueryScheduled. *)
Scheduled == cached = "Enabled"

Schedule ==
    /\ Idle(Scheduler)
    /\ Scheduled
    /\ Enqueue(Scheduler)
    /\ UNCHANGED <<row, cached, queue, message, disturbances, blurred>>

FindOrphan ==
    /\ Idle(Scheduler)
    /\ cached = "Queued"
    /\ Proceed(Scheduler, <<"orphan">>, NoStatus)
    /\ UNCHANGED <<row, cached, queue, message, disturbances, blurred>>

M_Orphaned == Present # {}

Orphaned == Present = {}

CheckOrphan ==
    /\ At(Scheduler, "orphan")
    /\ Proceed(Scheduler, IF Orphaned THEN <<"reset">> ELSE <<>>, NoStatus)
    /\ UNCHANGED <<row, cached, queue, message, disturbances, blurred>>

SchedulerStep ==
    \/ Initialize \/ CheckOrphan \/ ResetWorker(Scheduler)
    \/ EnqueueStep(Scheduler)
    \/ Write(Scheduler) \/ Store(Scheduler)

-------------------------------------------------------------------------------
(* What happens at most MaxDisturbances times. *)
Disturb ==
    /\ disturbances < MaxDisturbances
    /\ disturbances' = disturbances + 1

(* The requests of the management.  A queued worker keeps its status. *)
Run == Enqueue(Management)

SetStatus(s) ==
    /\ cached # "Queued"
    /\ Proceed(Management, Update, s)

Configure ==
    Proceed(Management,
            IF cached = "Disabled" THEN Update ELSE Update \o <<"reschedule">>,
            cached)

Request ==
    /\ Idle(Management)
    /\ Disturb
    /\ \/ Run
       \/ Configure
       \/ \E s \in {"Enabled", "Disabled"} : SetStatus(s)
       \/ Proceed(Management, <<"reset">>, NoStatus)
    /\ UNCHANGED <<row, cached, queue, message, blurred>>

Reschedule ==
    /\ At(Management, "reschedule")
    /\ Proceed(Management, Update, cached)
    /\ UNCHANGED <<row, cached, queue, message, disturbances, blurred>>

ManagementStep ==
    \/ EnqueueStep(Management) \/ ResetWorker(Management) \/ Reschedule
    \/ Write(Management) \/ Store(Management)

-------------------------------------------------------------------------------
(* A job takes a message; LastRun is set in the row, which is then refreshed. *)
M_Hidden(m, j) == [m EXCEPT !.receipt = j]

Hidden(m, j) == [m EXCEPT !.visible = FALSE, !.receipt = j]

Dequeue(j) ==
    /\ Idle(j)
    /\ \E m \in Present :
          /\ queue[m].visible
          /\ queue' = [queue EXCEPT ![m] = Hidden(@, j)]
          /\ message' = [message EXCEPT ![j] = m]
    /\ Proceed(j, <<"store", "run">>, row)
    /\ UNCHANGED <<row, cached, disturbances, blurred>>

(* Whether the pop receipt still finds the message. *)
Holds(j) == message[j] \in Present /\ queue[message[j]].receipt = j

(* The worker was invoked: it is done, or it has thrown. *)
Invoked(j) ==
    /\ At(j, "run")
    /\ \E step \in {"complete", "error"} : Proceed(j, <<step>>, NoStatus)
    /\ UNCHANGED <<row, cached, queue, message, disturbances, blurred>>

(* Queue.Complete *)
Remove(j) ==
    queue' = IF Holds(j) THEN [queue EXCEPT ![message[j]] = NoMessage] ELSE queue

Complete(j) ==
    /\ At(j, "complete")
    /\ Remove(j)
    /\ Proceed(j, Update, "Enabled")
    /\ UNCHANGED <<row, cached, message, disturbances, blurred>>

(* Error: the worker is tried again after its RetryInterval, or disabled if  *)
(* it has failed too often; its message goes once this is written.           *)
Error(j) ==
    /\ At(j, "error")
    /\ \/ /\ Holds(j)
          /\ \E s \in {"Enabled", "Disabled"} : Proceed(j, Update \o <<"settle">>, s)
          /\ UNCHANGED message
       \/ /\ ~Holds(j)
          /\ Proceed(j, <<>>, NoStatus)
          /\ message' = [message EXCEPT ![j] = NoMessage]
    /\ UNCHANGED <<row, cached, queue, disturbances, blurred>>

Settle(j) ==
    /\ At(j, "settle")
    /\ Remove(j)
    /\ Proceed(j, <<>>, NoStatus)
    /\ message' = [message EXCEPT ![j] = NoMessage]
    /\ UNCHANGED <<row, cached, disturbances, blurred>>

JobStep(j) ==
    \/ Invoked(j)
    \/ Complete(j) \/ Error(j) \/ Settle(j)
    \/ Write(j) \/ Store(j)

-------------------------------------------------------------------------------
(* The lease of a message whose job is gone runs out. *)
Lapse(m) ==
    /\ m \in Present
    /\ ~queue[m].visible /\ queue[m].receipt = NoJob
    /\ queue' = [queue EXCEPT ![m].visible = TRUE]
    /\ UNCHANGED <<row, cached, todo, own, message, disturbances, blurred>>

(* What goes wrong: the server of a job stalls and its lease runs out; ...   *)
Stall(j) ==
    /\ Holds(j) /\ ~queue[message[j]].visible
    /\ queue' = [queue EXCEPT ![message[j]].visible = TRUE]
    /\ UNCHANGED <<row, cached, todo, own, message>>

(* ... it dies, or does not know the worker, or its Error fails; ...         *)
Die(j) ==
    /\ ~Idle(j)
    /\ Proceed(j, <<>>, NoStatus)
    /\ message' = [message EXCEPT ![j] = NoMessage]
    /\ queue' = IF Holds(j) THEN [queue EXCEPT ![message[j]].receipt = NoJob] ELSE queue
    /\ UNCHANGED <<row, cached>>

(* ... a Complete fails on the way, and the job reports an error; ...        *)
CompleteFails(j) ==
    /\ At(j, "complete") \/ todo[j] = Update
    /\ Proceed(j, <<"error">>, NoStatus)
    /\ UNCHANGED <<row, cached, queue, message>>

(* ... a message is not dequeued before it expires; ...                      *)
Expire(m) ==
    /\ m \in Present
    /\ queue' = [queue EXCEPT ![m] = NoMessage]
    /\ UNCHANGED <<row, cached, todo, own, message>>

(* ... the Sys server restarts: requests break off, the messages are those   *)
(* of the last flush, which may lack one, hold one completed since, or hold  *)
(* it as it was before it was dequeued.  A job whose Complete has broken off *)
(* calls Error; one that has no answer of Dequeue has no message, and one    *)
(* whose Error fails (now, or when it is called) leaves its message alone.   *)
Interrupted(j) == ~Idle(j) /\ ~At(j, "run")

Unanswered(j) ==
    Interrupted(j) /\ \E n \in 1..Len(todo[j]) : todo[j][n] \in {"run", "settle"}

Resumed(t, silent) ==
    CASE t = Scheduler -> <<"initialize">>
      [] t = Management \/ t \in silent -> <<>>
      [] OTHER -> IF Interrupted(t) THEN <<"error">> ELSE todo[t]

Left(m, silent) == IF m.receipt \in silent THEN [m EXCEPT !.receipt = NoJob] ELSE m

Restart ==
    /\ cached' = row
    /\ \E silent \in SUBSET {j \in Jobs : Interrupted(j)} :
          /\ \A j \in Jobs : Unanswered(j) => j \in silent
          /\ \E kept \in SUBSET Present : \E old \in SUBSET (Slots \ kept) :
                queue' = [m \in Slots |->
                            IF m \in kept THEN Left(queue[m], silent)
                            ELSE IF m \in old THEN NewMessage
                            ELSE NoMessage]
          /\ todo' = [t \in Threads |-> Resumed(t, silent)]
          /\ message' = [j \in Jobs |-> IF j \in silent THEN NoMessage ELSE message[j]]
    /\ own' = [t \in Threads |-> NoStatus]
    /\ UNCHANGED row

Fault ==
    /\ Disturb
    /\ blurred' = TRUE
    /\ \/ \E j \in Jobs : Stall(j) \/ Die(j) \/ CompleteFails(j)
       \/ \E m \in Slots : Expire(m)
       \/ Restart

-------------------------------------------------------------------------------
Next ==
    \/ Schedule \/ FindOrphan \/ SchedulerStep
    \/ Request \/ ManagementStep
    \/ \E j \in Jobs : Dequeue(j) \/ JobStep(j)
    \/ \E m \in Slots : Lapse(m)
    \/ Fault

(* Threads that have begun go on, the two services look again and again, and *)
(* time passes; nobody has to make a request, and nothing has to go wrong.   *)
Fairness ==
    /\ WF_vars(Schedule) /\ WF_vars(FindOrphan) /\ WF_vars(SchedulerStep)
    /\ WF_vars(ManagementStep)
    /\ \A j \in Jobs : WF_vars(Dequeue(j)) /\ WF_vars(JobStep(j))
    /\ \A m \in Slots : WF_vars(Lapse(m))

Spec == Init /\ [][Next]_vars /\ Fairness

-------------------------------------------------------------------------------
TypeOK ==
    /\ row \in Statuses /\ cached \in Statuses
    /\ queue \in [Slots -> Message \cup {NoMessage}]
    /\ todo \in [Threads -> Seq(Steps)]
    /\ own \in [Threads -> Statuses \cup {NoStatus}]
    /\ message \in [Jobs -> Slots \cup {NoMessage}]
    /\ disturbances \in 0..MaxDisturbances
    /\ blurred \in BOOLEAN

Running == {j \in Jobs : At(j, "run")}

(* The worker is never run by two jobs at once, whatever the scheduler, the  *)
(* management and the jobs do to its row and its cached copy, unless a lease *)
(* was lost, the Sys server restarted, or the duplicate check was passed.    *)
OneRun == ~blurred => Cardinality(Running) <= 1

(* Why, in terms an induction can use: the steps a thread can have before    *)
(* it, what it has read when it is about to write, ...                       *)
Pending == {<<"store", "run">>, <<"run">>, <<"complete">>, <<"error">>,
            <<"write", "store", "settle">>, <<"store", "settle">>, <<"settle">>}
Plans == Pending \cup
         {<<>>, <<"check">>, <<"insert", "write", "store">>, <<"write", "store">>, <<"store">>,
          <<"initialize">>, <<"orphan">>, <<"reset">>,
          <<"write", "store", "reschedule">>, <<"store", "reschedule">>, <<"reschedule">>}

PlansInv ==
    /\ todo \in [Threads -> Plans]
    /\ \A t \in Threads :
          At(t, "check") \/ At(t, "insert") \/ At(t, "write") \/ At(t, "store")
             => own[t] \in Statuses

(* ... and, until something is blurred, one message at most, none while one  *)
(* is about to be inserted, and hidden in the hands of the job that runs or  *)
(* has run the worker and not yet completed it.                              *)
OneMessage == \A m, n \in Present : m = n
NothingToInsert == \A t \in Threads : At(t, "insert") => Present = {}
HeldByJob ==
    \A j \in Jobs : todo[j] \in Pending => Holds(j) /\ ~queue[message[j]].visible

IInv ==
    /\ TypeOK /\ PlansInv
    /\ ~blurred => OneMessage /\ NothingToInsert /\ HeldByJob

(* A queued worker does not stay queued: not when its message was gone       *)
(* before the status was written, nor after a crash, a lost message or a     *)
(* restart.  ResetOrphaned and OnInitialize are there for this.              *)
QueuedIsReleased == cached = "Queued" ~> cached # "Queued"

(* An enabled worker whose NextRun has come is run, unless it is disabled or *)
(* has no next run any more.                                                 *)
EnabledIsRun == cached = "Enabled" ~> (Running # {} \/ cached = "Disabled")
===============================================================================

-------------------------------- MODULE BigData --------------------------------
(***************************************************************************)
(* The way of a row into big data storage: Prepare (TransactionService.cs) *)
(* puts it into the buffer of its partition or into a transaction block;   *)
(* a buffering job (BufferingJob.cs) makes blocks of what is buffered;     *)
(* StorageService and StorageJob dequeue the messages of the blocks; and   *)
(* in every server the one worker of the partition (StoragePool.cs,        *)
(* StorageWorker.cs) merges them into files, table by table (Updater.cs).  *)
(* A table whose file is locked is postponed: the block is completed, and  *)
(* what is left of it goes through Prepare again.                          *)
(*                                                                         *)
(* One partition is modelled.  A row stands for what a block holds of one  *)
(* table, a transaction for its only block.  The queue of the Sys server   *)
(* is what MessageQueue promises: a message is hidden while its lease      *)
(* runs, and Ping and Complete do nothing for a pop receipt that is not    *)
(* the latest.  A lease is 1 hour, and kept alive while a block is merged. *)
(***************************************************************************)
EXTENDS Naturals, Sequences, FiniteSets

CONSTANTS Rows,
          Batches,       \* what the clients bring, one call of Prepare each
          Servers,
          Requests,      \* threads that call Prepare for a client
          Jobs,          \* buffering jobs
          Deliveries,    \* room for dequeued messages
          Blocks, NoBlock,
          Nobody,
          StorageJobs,   \* jobs of a StorageDispatcher, 4
          MaxChunks,     \* bound on the insertions into the buffer
          MaxFaults      \* bound on stalls, crashes and failed calls

ASSUME NamesAssumption ==
    /\ Nobody \notin Deliveries /\ NoBlock \notin Blocks
    /\ Requests \cap Jobs = {} /\ Requests \cap Deliveries = {} /\ Jobs \cap Deliveries = {}
ASSUME BatchesAssumption ==    \* a row is what one call of Prepare brings
    /\ Batches \subseteq (SUBSET Rows) \ {{}}
    /\ \A x, y \in Batches : x # y => x \cap y = {}
ASSUME BoundsAssumption == StorageJobs \in Nat /\ MaxChunks \in Nat /\ MaxFaults \in Nat

VARIABLES buffered,      \* whether the partition is buffered
          arriving,      \* batches no client has brought yet
          buffer,        \* the chunks of rows in the buffer
          bufferVisible, \* NextVisible of the buffer has passed
          identity,      \* of the chunks
          job,           \* the buffering jobs
          block,         \* the rows in the blob of each block, if there is one
          message,       \* the message of each block in the queue
          making,        \* the calls of CreateTransactions under way
          delivery,      \* the messages dequeued
          pool,          \* StoragePool.Items of each server
          ensuring,      \* calls of EnsureWorker under way in each server
          worker,        \* StoragePool.Workers of each server
          stored,        \* history: how often each row was merged, after a fault whether it was
          risked,        \* history: rows a fault struck on their way to a new block, and
                         \* rows of a block whose message has expired
          faults

sysVars == <<buffer, bufferVisible, identity, block, message>>
poolVars == <<pool, ensuring, worker>>
vars == <<buffered, arriving, sysVars, job, making, delivery, poolVars, stored, risked, faults>>

Makers == Requests \cup Jobs \cup Deliveries
Chunk == [id : 1..MaxChunks, rows : SUBSET Rows]
Block == [exists : BOOLEAN, rows : SUBSET Rows]
NoRows == [exists |-> FALSE, rows |-> {}]
NoMessage == [holder |-> Nobody, visible |-> FALSE, queued |-> FALSE]
Message == [holder : Deliveries \cup {Nobody}, visible : BOOLEAN, queued : BOOLEAN]
Idle == [step |-> "idle"]
Job == [step : {"query", "create"}, server : Servers, chunks : SUBSET Chunk, last : 0..MaxChunks]
Nothing == [rows |-> {}, block |-> NoBlock]
MakingRecord == [rows : SUBSET Rows, block : Blocks \cup {NoBlock}]
Free == [step |-> "free"]
WorkSteps == {"ping", "load", "merge", "settle", "prepare"}
Delivery == [step : WorkSteps \cup {"queued"}, block : Blocks, server : Servers,
             rows : SUBSET Rows, locked : SUBSET Rows, merged : BOOLEAN]

Init ==
    /\ buffered \in BOOLEAN
    /\ arriving = Batches
    /\ buffer = {} /\ bufferVisible = FALSE /\ identity = 0
    /\ job = [j \in Jobs |-> Idle]
    /\ block = [b \in Blocks |-> NoRows]
    /\ message = [b \in Blocks |-> NoMessage]
    /\ making = [t \in Makers |-> Nothing]
    /\ delivery = [d \in Deliveries |-> Free]
    /\ pool = [s \in Servers |-> <<>>]
    /\ ensuring = [s \in Servers |-> 0]
    /\ worker = [s \in Servers |-> "none"]
    /\ stored = [r \in Rows |-> 0]
    /\ risked = {}
    /\ faults = 0

-------------------------------------------------------------------------------
At(d, step) == delivery[d].step = step
Server(d) == delivery[d].server
Holds(d) == message[delivery[d].block].holder = d
Working(s) == {d \in Deliveries : delivery[d].step \in WorkSteps /\ Server(d) = s}

(* The delivery is over, and with it the pop receipt only it knew. *)
Forget(m, d) == IF m.holder = d THEN [m EXCEPT !.holder = Nobody] ELSE m

End(d, msgs) ==
    /\ delivery' = [delivery EXCEPT ![d] = Free]
    /\ message' = [msgs EXCEPT ![delivery[d].block] = Forget(@, d)]

(* Queue.Ping, and CompleteTransactionBlock with it Queue.Complete, which    *)
(* deletes the block.                                                        *)
Pinged(d) ==
    IF Holds(d) THEN [message EXCEPT ![delivery[d].block].visible = FALSE] ELSE message

CompletedMessage(d) ==
    IF Holds(d) THEN [message EXCEPT ![delivery[d].block] = NoMessage] ELSE message

CompletedBlock(d) ==
    IF Holds(d) THEN [block EXCEPT ![delivery[d].block].exists = FALSE] ELSE block

-------------------------------------------------------------------------------
(* Prepare: into the buffer, or into a new transaction. *)
InsertData(rows) ==
    /\ identity < MaxChunks
    /\ identity' = identity + 1
    /\ buffer' = buffer \cup {[id |-> identity + 1, rows |-> rows]}

Prepare(t, rows) ==
    \/ /\ buffered
       /\ InsertData(rows)
       /\ UNCHANGED making
    \/ /\ ~buffered
       /\ making' = [making EXCEPT ![t].rows = rows]
       /\ UNCHANGED <<buffer, identity>>

Write(q) ==
    /\ making[q] = Nothing
    /\ \E rows \in arriving :
          /\ arriving' = arriving \ {rows}
          /\ Prepare(q, rows)
    /\ UNCHANGED <<buffered, bufferVisible, block, message, job, delivery, poolVars,
                   stored, risked, faults>>

(* CreateTransactions: the block and its blob are stored, and then a message *)
(* is enqueued for it.                                                       *)
Fresh(b) ==
    /\ block[b] = NoRows /\ ~message[b].queued
    /\ \A d \in Deliveries : ~At(d, "free") /\ ~At(d, "prepare") => delivery[d].block # b
    /\ \A t \in Makers : making[t].block # b

InsertBlock(t) ==
    /\ making[t].rows # {} /\ making[t].block = NoBlock
    /\ \E b \in Blocks : Fresh(b)
    /\ LET b == CHOOSE b \in Blocks : Fresh(b) IN
          /\ block' = [block EXCEPT ![b] = [exists |-> TRUE, rows |-> making[t].rows]]
          /\ making' = [making EXCEPT ![t].block = b]
    /\ UNCHANGED <<buffered, arriving, buffer, bufferVisible, identity, message, job,
                   delivery, poolVars, stored, risked, faults>>

NewMessage == [holder |-> Nobody, visible |-> TRUE, queued |-> TRUE]

Activate(t) ==
    /\ making[t].block # NoBlock
    /\ message' = [message EXCEPT ![making[t].block] = NewMessage]
    /\ making' = [making EXCEPT ![t] = Nothing]
    /\ UNCHANGED <<buffered, arriving, buffer, bufferVisible, identity, block, job,
                   delivery, poolVars, stored, risked, faults>>

Making(t) == InsertBlock(t) \/ Activate(t)

-------------------------------------------------------------------------------
(* The buffering jobs.  Dequeue hides the buffer for 60 seconds; a job makes *)
(* a transaction of each chunk it finds, then clears what it has found and   *)
(* hides the buffer for the BufferTimeout.  Only the order of the chunks     *)
(* matters: identities start again when there are none.                      *)
DequeueBuffer(j, s) ==
    /\ job[j] = Idle
    /\ bufferVisible
    /\ bufferVisible' = FALSE
    /\ job' = [job EXCEPT ![j] = [step |-> "query", server |-> s, chunks |-> {}, last |-> 0]]
    /\ UNCHANGED <<buffered, arriving, buffer, identity, block, message, making, delivery,
                   poolVars, stored, risked, faults>>

QueryData(j) ==
    /\ job[j].step = "query"
    /\ job' = [job EXCEPT ![j] = [@ EXCEPT !.step = "create", !.chunks = buffer,
                                           !.last = identity]]
    /\ UNCHANGED <<buffered, arriving, sysVars, making, delivery, poolVars, stored, risked, faults>>

CreateTransactions(j) ==
    /\ job[j].step = "create"
    /\ making[j] = Nothing
    /\ \E c \in job[j].chunks :
          /\ making' = [making EXCEPT ![j].rows = c.rows]
          /\ job' = [job EXCEPT ![j].chunks = @ \ {c}]
    /\ UNCHANGED <<buffered, arriving, sysVars, delivery, poolVars, stored, risked, faults>>

(* M_... definitions are deliberately wrong versions of the definition that  *)
(* follows them; they are not part of the model (README, "Mutants").         *)
M_Kept(j) == {}

M_NotCleared(j) == buffer

Kept(j) == {c \in buffer : c.id > job[j].last}

ClearData(j) ==
    /\ job[j].step = "create"
    /\ job[j].chunks = {} /\ making[j] = Nothing
    /\ buffer' = Kept(j)
    /\ identity' = IF Kept(j) = {} /\ (\A k \in Jobs \ {j} : job[k] = Idle) THEN 0 ELSE identity
    /\ bufferVisible' = FALSE
    /\ job' = [job EXCEPT ![j] = Idle]
    /\ UNCHANGED <<buffered, arriving, block, message, making, delivery, poolVars,
                   stored, risked, faults>>

JobStep(j) == QueryData(j) \/ CreateTransactions(j) \/ ClearData(j)

-------------------------------------------------------------------------------
(* StorageService dequeues, and a StorageJob puts the block into the         *)
(* StoragePool, or completes the message of a block that is no more.  (The   *)
(* time it waits for the job is part of the time it waits in the pool.)      *)
Dequeue(s, b) ==
    /\ message[b].queued /\ message[b].visible
    /\ block[b].exists
    /\ ensuring[s] < StorageJobs
    /\ \E d \in Deliveries : delivery[d] = Free
    /\ LET d == CHOOSE d \in Deliveries : delivery[d] = Free IN
          /\ message' = [message EXCEPT ![b] = [@ EXCEPT !.holder = d, !.visible = FALSE]]
          /\ delivery' = [delivery EXCEPT ![d] =
                [step |-> "queued", block |-> b, server |-> s,
                 rows |-> {}, locked |-> {}, merged |-> FALSE]]
          /\ pool' = [pool EXCEPT ![s] = Append(@, d)]
    /\ ensuring' = [ensuring EXCEPT ![s] = @ + 1]
    /\ UNCHANGED <<buffered, arriving, buffer, bufferVisible, identity, block, job, making,
                   worker, stored, risked, faults>>

Drop(b) ==
    /\ message[b].queued /\ message[b].visible
    /\ ~block[b].exists
    /\ message' = [message EXCEPT ![b] = NoMessage]
    /\ UNCHANGED <<buffered, arriving, buffer, bufferVisible, identity, block, job, making,
                   delivery, poolVars, stored, risked, faults>>

EnsureWorker(s) ==
    /\ ensuring[s] > 0
    /\ ensuring' = [ensuring EXCEPT ![s] = @ - 1]
    /\ worker' = [worker EXCEPT ![s] = IF @ = "none" THEN "running" ELSE @]
    /\ UNCHANGED <<buffered, arriving, sysVars, job, making, delivery, pool, stored, risked, faults>>

-------------------------------------------------------------------------------
(* The loop of the worker of a partition.                                    *)
Next1(s) == Head(pool[s])

M_Take(s) ==
    /\ worker[s] = "running" /\ Working(s) = {}
    /\ pool[s] # <<>>
    /\ delivery' = [delivery EXCEPT ![Next1(s)].step = "ping"]
    /\ UNCHANGED <<buffered, arriving, sysVars, job, making, poolVars, stored, risked, faults>>

Take(s) ==
    /\ worker[s] = "running" /\ Working(s) = {}
    /\ pool[s] # <<>>
    /\ pool' = [pool EXCEPT ![s] = Tail(@)]
    /\ delivery' = [delivery EXCEPT ![Next1(s)].step = "ping"]
    /\ UNCHANGED <<buffered, arriving, sysVars, job, making, ensuring, worker, stored, risked, faults>>

(* The queue is found empty, the loop ends, and then the worker is removed;  *)
(* an EnsureWorker in between still finds it.                                *)
LoopEnds(s) ==
    /\ worker[s] = "running" /\ Working(s) = {}
    /\ pool[s] = <<>>
    /\ worker' = [worker EXCEPT ![s] = "ended"]
    /\ UNCHANGED <<buffered, arriving, sysVars, job, making, delivery, pool, ensuring,
                   stored, risked, faults>>

M_OnWorkerCompleted(s) ==
    /\ worker[s] = "ended"
    /\ UNCHANGED vars

OnWorkerCompleted(s) ==
    /\ worker[s] = "ended"
    /\ worker' = [worker EXCEPT ![s] = "none"]
    /\ UNCHANGED <<buffered, arriving, sysVars, job, making, delivery, pool, ensuring,
                   stored, risked, faults>>

(* DoWork: the lease is renewed; the block is given up if that took until    *)
(* the lease it was dequeued with had ended, before or after the renewal.    *)
Ping(d) ==
    /\ At(d, "ping")
    /\ message' = Pinged(d)
    /\ delivery' = [delivery EXCEPT ![d].step = "load"]
    /\ UNCHANGED <<buffered, arriving, buffer, bufferVisible, identity, block, job, making,
                   poolVars, stored, risked, faults>>

PingLate(d) ==
    /\ At(d, "ping")
    /\ \E visible \in BOOLEAN :
          End(d, [message EXCEPT ![delivery[d].block].visible = IF Holds(d) THEN visible ELSE @])
    /\ UNCHANGED <<buffered, arriving, buffer, bufferVisible, identity, block, job, making,
                   poolVars, stored, risked, faults>>

LoadData(d) ==
    /\ At(d, "load")
    /\ delivery' = [delivery EXCEPT ![d] = [@ EXCEPT !.step = "merge",
                                                     !.rows = block[delivery[d].block].rows]]
    /\ UNCHANGED <<buffered, arriving, sysVars, job, making, poolVars, stored, risked, faults>>

(* History: after a fault it only matters whether a row was merged. *)
More(n) == IF n = 0 \/ (n = 1 /\ faults = 0) THEN n + 1 ELSE n

(* The Merger of a table stores its rows, or does not get the lock of a file *)
(* and leaves them (Merger.cs:101, 152, 187).  A fourth such place, for a row *)
(* that fits none of the files at hand, means to do the same but throws,     *)
(* dereferencing the context it did not get (line 131): that is Throws.      *)
Merge(d, r) ==
    /\ At(d, "merge") /\ r \in delivery[d].rows
    /\ stored' = [stored EXCEPT ![r] = More(@)]
    /\ delivery' = [delivery EXCEPT ![d] = [@ EXCEPT !.rows = delivery[d].rows \ {r}, !.merged = TRUE]]
    /\ UNCHANGED <<buffered, arriving, sysVars, job, making, poolVars, risked, faults>>

Locked(d, r) ==
    /\ At(d, "merge") /\ r \in delivery[d].rows
    /\ delivery' = [delivery EXCEPT ![d] =
          [@ EXCEPT !.rows = delivery[d].rows \ {r}, !.locked = delivery[d].locked \cup {r}]]
    /\ UNCHANGED <<buffered, arriving, sysVars, job, making, poolVars, stored, risked, faults>>

(* UpdateRowCount is 0 when everything is locked, unless LoadData has torn   *)
(* off duplicate rows; then the block is tried again in 5 seconds.           *)
Postpone(d) ==
    /\ At(d, "merge") /\ delivery[d].rows = {}
    /\ delivery[d].locked # {} /\ ~delivery[d].merged
    /\ End(d, Pinged(d))
    /\ UNCHANGED <<buffered, arriving, buffer, bufferVisible, identity, block, job, making,
                   poolVars, stored, risked, faults>>

(* TransactionService.Complete deletes the blob of a block that is still     *)
(* there, and completes the message if it still can; ...                     *)
DeleteBlob(d) ==
    [block EXCEPT ![delivery[d].block].rows = IF block[delivery[d].block].exists THEN {} ELSE @]

Complete(d) ==
    /\ At(d, "merge") /\ delivery[d].rows = {}
    /\ block' = DeleteBlob(d)
    /\ delivery' = [delivery EXCEPT ![d].step = "settle"]
    /\ UNCHANGED <<buffered, arriving, buffer, bufferVisible, identity, message, job, making,
                   poolVars, stored, risked, faults>>

(* ... then what was locked is prepared again. *)
Again(d) == delivery[d].locked # {}

Settle(d) ==
    /\ At(d, "settle")
    /\ block' = CompletedBlock(d)
    /\ \/ /\ ~Again(d)
          /\ End(d, CompletedMessage(d))
       \/ /\ Again(d)
          /\ message' = CompletedMessage(d)
          /\ delivery' = [delivery EXCEPT ![d].step = "prepare"]
    /\ UNCHANGED <<buffered, arriving, buffer, bufferVisible, identity, job, making, poolVars,
                   stored, risked, faults>>

PrepareLocked(d) ==
    /\ At(d, "prepare") /\ delivery[d].locked # {}
    /\ Prepare(d, delivery[d].locked)
    /\ delivery' = [delivery EXCEPT ![d].locked = {}]
    /\ UNCHANGED <<buffered, arriving, bufferVisible, block, message, job, poolVars,
                   stored, risked, faults>>

Prepared(d) ==
    /\ At(d, "prepare") /\ delivery[d].locked = {}
    /\ making[d] = Nothing
    /\ End(d, message)
    /\ UNCHANGED <<buffered, arriving, buffer, bufferVisible, identity, block, job, making,
                   poolVars, stored, risked, faults>>

DeliveryStep(d) ==
    \/ Ping(d) \/ PingLate(d) \/ LoadData(d) \/ (\E r \in Rows : Merge(d, r) \/ Locked(d, r))
    \/ Postpone(d) \/ Complete(d) \/ Settle(d) \/ PrepareLocked(d) \/ Prepared(d)

WorkerStep(s) == Take(s) \/ LoopEnds(s) \/ OnWorkerCompleted(s)

-------------------------------------------------------------------------------
(* Time passes.  The worker throws a block away that has waited in the pool  *)
(* until its lease was about to end (the last 10 seconds count as over);     *)
(* nothing else becomes of such a block, so it leaves the pool at once.  The *)
(* hour is long enough for a worker to start, not to wait for other blocks.  *)
Waits(s) == Working(s) # {} \/ (worker[s] = "none" /\ ensuring[s] = 0)

(* A queue without its n-th message. *)
Without(q, n) == SubSeq(q, 1, n - 1) \o SubSeq(q, n + 1, Len(q))

TooLate(d) ==
    /\ At(d, "queued")
    /\ \E n \in 1..Len(pool[Server(d)]) :
          /\ pool[Server(d)][n] = d
          /\ pool' = [pool EXCEPT ![Server(d)] = Without(@, n)]
    /\ End(d, [message EXCEPT ![delivery[d].block].visible = @ \/ Holds(d)])
    /\ UNCHANGED <<buffered, arriving, buffer, bufferVisible, identity, block, job, making,
                   ensuring, worker, stored, risked>>

WaitsTooLong(d) == TooLate(d) /\ Waits(Server(d)) /\ UNCHANGED faults

(* ... for a message that was given up, or whose server is gone, ...         *)
Lapse(b) ==
    /\ message[b].queued /\ message[b].holder = Nobody /\ ~message[b].visible
    /\ message' = [message EXCEPT ![b].visible = TRUE]
    /\ UNCHANGED <<buffered, arriving, buffer, bufferVisible, identity, block, job, making,
                   delivery, poolVars, stored, risked, faults>>

(* ... and for the buffer, once it is there.                                 *)
BufferLapses ==
    /\ identity > 0 /\ ~bufferVisible
    /\ bufferVisible' = TRUE
    /\ UNCHANGED <<buffered, arriving, buffer, identity, block, message, job, making,
                   delivery, poolVars, stored, risked>>

BufferTimeout ==
    /\ \A j \in Jobs : job[j] = Idle
    /\ BufferLapses
    /\ UNCHANGED faults

-------------------------------------------------------------------------------
(* What goes wrong, MaxFaults times: ... *)
Fault == faults < MaxFaults /\ faults' = faults + 1

(* ... a job has the buffer for more than 60 seconds, or a second Dequeue    *)
(* has read its NextVisible before the first has set it: another job may     *)
(* take it too; ...                                                          *)
Overrun == Fault /\ BufferLapses

(* ... a buffering job fails, and OnError leaves the buffer as it is; ...     *)
JobFails(j) ==
    /\ Fault
    /\ job[j] # Idle /\ making[j] = Nothing
    /\ bufferVisible' = FALSE
    /\ job' = [job EXCEPT ![j] = Idle]
    /\ UNCHANGED <<buffered, arriving, buffer, identity, block, message, making, delivery,
                   poolVars, stored, risked>>

(* ... a server stalls: a block waits for the hour, or a lease is not kept   *)
(* alive; ...                                                                *)
Unattended(d) ==
    /\ delivery[d].step \in {"load", "merge", "settle"} /\ Holds(d)
    /\ message' = [message EXCEPT ![delivery[d].block].visible = TRUE]
    /\ UNCHANGED <<buffered, arriving, buffer, bufferVisible, identity, block, job, making,
                   delivery, poolVars, stored, risked>>

Stall(d) == Fault /\ (TooLate(d) \/ Unattended(d))

(* ... a step of the worker throws: OnError asks for another try in 5        *)
(* seconds, and the loop is left with what is still in the pool (Complete    *)
(* completes the message even if it cannot delete the blob, which then stays *)
(* behind); ...                                                              *)
InHand(d) == IF delivery[d].step \in {"settle", "prepare"} THEN delivery[d].locked ELSE {}

Throws(d) ==
    /\ Fault
    /\ \/ /\ delivery[d].step \in {"ping", "load", "merge", "settle"}
          /\ End(d, Pinged(d))
          /\ risked' = risked \cup InHand(d)
          /\ UNCHANGED block
       \/ /\ At(d, "merge") /\ delivery[d].rows = {}
          /\ End(d, CompletedMessage(d))
          /\ risked' = risked \cup delivery[d].locked
          /\ block' = IF Holds(d) THEN [block EXCEPT ![delivery[d].block] = NoRows] ELSE block
       \/ /\ At(d, "prepare") /\ delivery[d].locked # {}
          /\ End(d, message)
          /\ risked' = risked \cup InHand(d)
          /\ UNCHANGED block
    /\ worker' = [worker EXCEPT ![Server(d)] = "ended"]
    /\ UNCHANGED <<buffered, arriving, buffer, bufferVisible, identity, job, making, pool,
                   ensuring, stored>>

(* ... the message of a block expires, 14 days after it was enqueued, when   *)
(* every attempt has failed or found a file locked (as in a partition that a *)
(* schema change has left invalid): it is passed over by every Dequeue, and  *)
(* the next flush removes it.  Nobody looks at its block again; ...          *)
Expire(b) ==
    /\ Fault
    /\ message[b].queued
    /\ message' = [message EXCEPT ![b] = NoMessage]
    /\ risked' = risked \cup block[b].rows
    /\ UNCHANGED <<buffered, arriving, buffer, bufferVisible, identity, block, job, making,
                   delivery, poolVars, stored>>

(* ... CreateTransactions fails, before or after the message is enqueued: it *)
(* deletes what it has made, and returns; ...                                *)
Undone(b) == IF b = NoBlock THEN block ELSE [block EXCEPT ![b] = NoRows]

CreateFails(t) ==
    /\ Fault
    /\ making[t] # Nothing
    /\ making' = [making EXCEPT ![t] = Nothing]
    /\ block' = Undone(making[t].block)
    /\ \/ UNCHANGED message
       \/ /\ making[t].block # NoBlock
          /\ message' = [message EXCEPT ![making[t].block] = NewMessage]
    /\ risked' = risked \cup making[t].rows
    /\ UNCHANGED <<buffered, arriving, buffer, bufferVisible, identity, job, delivery,
                   poolVars, stored>>

(* ... a server dies (a block it has not activated is not looked at again).  *)
DeadDeliveries(s) == {d \in Deliveries : ~At(d, "free") /\ Server(d) = s}
DeadJobs(s) == {j \in Jobs : job[j] # Idle /\ job[j].server = s}

Crash(s) ==
    /\ Fault
    /\ LET dead == DeadDeliveries(s)
           makers == dead \cup DeadJobs(s)
       IN /\ delivery' = [d \in Deliveries |-> IF d \in dead THEN Free ELSE delivery[d]]
          /\ message' = [b \in Blocks |->
                IF message[b].holder \in dead THEN [message[b] EXCEPT !.holder = Nobody]
                ELSE message[b]]
          /\ block' = [b \in Blocks |->
                IF \E t \in makers : making[t].block = b THEN NoRows ELSE block[b]]
          /\ making' = [t \in Makers |-> IF t \in makers THEN Nothing ELSE making[t]]
          /\ job' = [j \in Jobs |-> IF j \in makers THEN Idle ELSE job[j]]
          /\ risked' = risked \cup UNION {InHand(d) \cup making[d].rows : d \in dead}
    /\ pool' = [pool EXCEPT ![s] = <<>>]
    /\ ensuring' = [ensuring EXCEPT ![s] = 0]
    /\ worker' = [worker EXCEPT ![s] = "none"]
    /\ UNCHANGED <<buffered, arriving, buffer, bufferVisible, identity, stored>>

-------------------------------------------------------------------------------
Next ==
    \/ \E q \in Requests : Write(q)
    \/ \E t \in Makers : Making(t) \/ CreateFails(t)
    \/ \E j \in Jobs : JobStep(j) \/ JobFails(j) \/ (\E s \in Servers : DequeueBuffer(j, s))
    \/ \E s \in Servers : EnsureWorker(s) \/ WorkerStep(s) \/ Crash(s)
                            \/ (\E b \in Blocks : Dequeue(s, b))
    \/ \E d \in Deliveries : DeliveryStep(d) \/ WaitsTooLong(d) \/ Stall(d) \/ Throws(d)
    \/ \E b \in Blocks : Drop(b) \/ Lapse(b) \/ Expire(b)
    \/ BufferTimeout \/ Overrun

Spec == Init /\ [][Next]_vars

(* The services of the servers look for work, threads go on, time passes.    *)
(* A block that is delivered again and again is now and then pinged before   *)
(* its lease is over, and a file that is asked for again and again is now    *)
(* and then not locked: nor by the merge itself, which in a full closed file *)
(* may find the lock it has taken a moment before (Merger.cs:185).           *)
PingedInTime(b) ==
    \E d \in Deliveries : At(d, "ping") /\ delivery[d].block = b /\ Ping(d)

Delivered(b) == Drop(b) \/ Lapse(b) \/ \E s \in Servers : Dequeue(s, b)

Fairness ==
    /\ \A q \in Requests : WF_vars(Making(q))
    /\ \A j \in Jobs : WF_vars(JobStep(j) \/ Making(j))
    /\ \A d \in Deliveries : WF_vars(DeliveryStep(d) \/ Making(d))
    /\ WF_vars(BufferTimeout) /\ WF_vars(\E j \in Jobs, s \in Servers : DequeueBuffer(j, s))
    /\ \A s \in Servers : WF_vars(EnsureWorker(s)) /\ WF_vars(WorkerStep(s))
    /\ \A b \in Blocks : WF_vars(Delivered(b)) /\ SF_vars(PingedInTime(b))
    /\ \A r \in Rows : SF_vars(\E d \in Deliveries : Merge(d, r))
    /\ WF_vars(\E d \in Deliveries : WaitsTooLong(d))

FairSpec == Spec /\ Fairness

-------------------------------------------------------------------------------
TypeOK ==
    /\ buffered \in BOOLEAN /\ arriving \subseteq Batches
    /\ buffer \subseteq Chunk /\ bufferVisible \in BOOLEAN /\ identity \in 0..MaxChunks
    /\ job \in [Jobs -> Job \cup {Idle}]
    /\ block \in [Blocks -> Block]
    /\ message \in [Blocks -> Message]
    /\ making \in [Makers -> MakingRecord]
    /\ delivery \in [Deliveries -> Delivery \cup {Free}]
    /\ pool \in [Servers -> Seq(Deliveries)]
    /\ ensuring \in [Servers -> 0..StorageJobs]
    /\ worker \in [Servers -> {"none", "running", "ended"}]
    /\ stored \in [Rows -> 0..2]
    /\ risked \subseteq Rows
    /\ faults \in 0..MaxFaults

(* A row a client has brought is not lost: it is stored, or buffered, or in  *)
(* a block that has a message, or in the hands of a thread that makes a new  *)
(* block of it.  Two things can still lose it, both in risked: a fault that  *)
(* strikes the thread that has it in hand, and the expiry of the message of  *)
(* its block before it was merged.  A lost lease, a failed merge, a second   *)
(* job on the buffer or a crash anywhere else does not.                      *)
InBuffer(r) == \E c \in buffer : r \in c.rows
InBlock(r) == \E b \in Blocks : block[b].exists /\ message[b].queued /\ r \in block[b].rows
InHands(r) ==
    \/ \E t \in Makers : r \in making[t].rows
    \/ \E d \in Deliveries : ~At(d, "free") /\ r \in InHand(d)

Arrived == (UNION Batches) \ (UNION arriving)

RowsKept ==
    \A r \in Arrived \ risked :
        stored[r] > 0 \/ InBuffer(r) \/ InBlock(r) \/ InHands(r)

(* As long as nothing goes wrong no row is merged twice, which an aggregated *)
(* sum would show: not by two deliveries of a block, nor by two jobs on one  *)
(* buffer, nor when a part of a block is prepared again.                     *)
StoredOnce == faults = 0 => \A r \in Rows : stored[r] <= 1

-------------------------------------------------------------------------------
(* Why types are kept: what is in a pool are dequeued messages, each once.   *)
PoolInv ==
    \A s \in Servers : \A m, n \in 1..Len(pool[s]) :
        /\ At(pool[s][n], "queued") /\ Server(pool[s][n]) = s
        /\ pool[s][m] = pool[s][n] => m = n

(* Why rows are kept.  Who holds a message works on its block, ...           *)
OnItsBlock(d) == delivery[d].step \notin {"free", "prepare"}

HolderInv ==
    \A b \in Blocks : message[b].holder # Nobody =>
        /\ OnItsBlock(message[b].holder) /\ delivery[message[b].holder].block = b
        /\ message[b].queued /\ block[b].exists

(* ... a block in the making is the maker's alone, ...                       *)
MakingInv ==
    \A t \in Makers : making[t].block # NoBlock =>
        /\ block[making[t].block] = [exists |-> TRUE, rows |-> making[t].rows]
        /\ ~message[making[t].block].queued
        /\ \A d \in Deliveries : OnItsBlock(d) => delivery[d].block # making[t].block
        /\ \A u \in Makers \ {t} : making[u].block # making[t].block

MakersInv ==
    /\ \A d \in Deliveries : making[d] # Nothing => At(d, "prepare") /\ delivery[d].locked = {}
    /\ \A j \in Jobs : making[j] # Nothing => job[j].step = "create"

(* ... a block is deleted when its rows are stored, or locked and in hand;   *)
BlockInv ==
    /\ \A b \in Blocks : ~block[b].exists => block[b].rows = {}
    /\ \A d \in Deliveries : At(d, "settle") => block[delivery[d].block].rows = {}
    /\ \A d \in Deliveries : At(d, "merge") =>
          \A r \in block[delivery[d].block].rows :
              r \in delivery[d].rows \cup delivery[d].locked \/ stored[r] > 0

(* and a chunk is cleared by a job that has made a block of each of its rows *)
(* (or whose rows are risked); what the job has in hand does not count, for  *)
(* it can die with it.                                                       *)
Away(r, n) ==
    \/ stored[r] > 0 \/ r \in risked \/ InBlock(r)
    \/ \E c \in buffer : c.id > n /\ r \in c.rows
    \/ \E t \in Makers \ Jobs : r \in making[t].rows
    \/ \E d \in Deliveries : ~At(d, "free") /\ r \in InHand(d)

BufferInv ==
    /\ \A c \in buffer : c.id <= identity
    /\ \A j \in Jobs : job[j] # Idle => job[j].last <= identity

JobInv ==
    \A j \in Jobs : job[j].step = "create" =>
        \A c \in buffer : c.id <= job[j].last =>
            \A r \in c.rows :
                \/ r \in making[j].rows \/ Away(r, job[j].last)
                \/ \E k \in job[j].chunks : r \in k.rows

KeptInv == \A r \in Arrived : Away(r, 0)

IInv == /\ TypeOK /\ PoolInv /\ HolderInv /\ MakingInv /\ MakersInv /\ BlockInv
        /\ BufferInv /\ JobInv /\ KeptInv

(* Why rows are stored once.  Without faults a delivery keeps its message    *)
(* and one job has the buffer, ...                                           *)
HoldInv ==
    /\ \A d \in Deliveries : OnItsBlock(d) => Holds(d)
    /\ \A b \in Blocks : message[b].visible => message[b].holder = Nobody

OneJobInv ==
    /\ bufferVisible => \A j \in Jobs : job[j] = Idle
    /\ \A j, k \in Jobs : job[j] = Idle \/ job[k] = Idle \/ j = k
    /\ \A j \in Jobs : job[j].step = "create" =>
          job[j].chunks \subseteq {c \in buffer : c.id <= job[j].last}

MergedInv ==
    \A d \in Deliveries :
        /\ delivery[d].step \in {"queued", "ping", "load"} =>
              ~delivery[d].merged /\ delivery[d].locked = {}
        /\ At(d, "merge") =>
              /\ delivery[d].rows \cap delivery[d].locked = {}
              /\ ~delivery[d].merged =>
                    block[delivery[d].block].rows \subseteq delivery[d].rows \cup delivery[d].locked

(* ... and a row that will still be merged is in one place only.             *)
Uncleared(c) ==
    \A j \in Jobs : job[j].step = "create" => c.id > job[j].last \/ c \in job[j].chunks

Merging(d) ==
    CASE At(d, "free") -> {}
      [] At(d, "merge") -> delivery[d].rows \cup delivery[d].locked
      [] OTHER -> InHand(d)

Unmerged(b) ==
    IF message[b].queued /\ \A d \in Deliveries : At(d, "merge") => delivery[d].block # b
    THEN block[b].rows ELSE {}

Places(r) ==
    {<<"batch", x>> : x \in {y \in arriving : r \in y}}
      \cup {<<"chunk", c>> : c \in {e \in buffer : Uncleared(e) /\ r \in e.rows}}
      \cup {<<"maker", t>> : t \in {u \in Makers : r \in making[u].rows}}
      \cup {<<"block", b>> : b \in {e \in Blocks : r \in Unmerged(e)}}
      \cup {<<"delivery", d>> : d \in {e \in Deliveries : r \in Merging(e)}}

Once(r) ==
    /\ stored[r] <= 1 /\ (stored[r] = 1 => Places(r) = {})
    /\ \A p, q \in Places(r) : p = q

OnceInv == faults = 0 => HoldInv /\ OneJobInv /\ MergedInv /\ \A r \in Rows : Once(r)

-------------------------------------------------------------------------------
(* Every row is stored in the end unless a fault took it out of a thread's   *)
(* hands or the message of its block expired: although EnsureWorker may      *)
(* count on a worker whose loop has ended, and an exception ends the loop    *)
(* with blocks left in the pool.  (A stored row stays stored, so a row that  *)
(* waits for ever would keep the set from ever being empty.)                 *)
Waiting == {r \in Arrived \ risked : stored[r] = 0}

EveryRowStored == Waiting # {} ~> Waiting = {}
===============================================================================

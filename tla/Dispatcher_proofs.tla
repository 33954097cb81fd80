--------------------------- MODULE Dispatcher_proofs ---------------------------
(* What TLAPS proves of Dispatcher.tla, for every set of items and of job    *)
(* objects and every worker size: its types, the inductive invariant IInv,   *)
(* the safety properties that follow, and that it implements WorkPool.       *)
EXTENDS Dispatcher, FiniteSetTheorems, SequenceTheorems, TLAPS

(* Every variable keeps its type through every step of the dispatcher. *)
THEOREM TypeCorrect == Spec => []TypeOK
<1>1. Init => TypeOK
  BY DEF Init, TypeOK, Steps, Statuses, Disposals
<1>2. TypeOK /\ [Next]_vars => TypeOK'
  <2> SUFFICES ASSUME TypeOK, [Next]_vars PROVE TypeOK'
    OBVIOUS
  <2> USE DEF TypeOK, Steps, Statuses, Disposals
  <2>1. ASSUME NEW i \in Items, Enqueue(i) PROVE TypeOK'
    BY <2>1, AppendProperties DEF Enqueue
  <2>2. ASSUME NEW i \in Items, SignalWorkers(i) PROVE TypeOK'
    BY <2>2 DEF SignalWorkers, CreateWorker, jobVars
  <2>3. ASSUME NEW i \in Items, Lapse(i) PROVE TypeOK'
    BY <2>3 DEF Lapse
  <2>4. ASSUME NEW j \in JobObjects, TakeItem(j) PROVE TypeOK'
    <3>1. Head(queue) \in Items /\ Tail(queue) \in Seq(Items)
      BY <2>4, HeadTailProperties DEF TakeItem
    <3> QED
      BY <2>4, <3>1 DEF TakeItem
  <2>5. ASSUME NEW j \in JobObjects, HandlerReturns(j) PROVE TypeOK'
    BY <2>5 DEF HandlerReturns
  <2>6. ASSUME NEW j \in JobObjects, LoopEnds(j) PROVE TypeOK'
    BY <2>6 DEF LoopEnds
  <2>7. ASSUME NEW j \in JobObjects, OnCompleted(j) PROVE TypeOK'
    BY <2>7 DEF OnCompleted
  <2>8. ASSUME NEW j \in JobObjects, RemoveJob(j) PROVE TypeOK'
    BY <2>8 DEF RemoveJob
  <2>9. ASSUME NEW j \in JobObjects, RecheckQueue(j) PROVE TypeOK'
    BY <2>9 DEF RecheckQueue
  <2>10. CASE Dispose
    BY <2>10, EmptySeq DEF Dispose, CancelJobs, ClearQueue, DisposeJobs, ClearJobs,
                  DisposeSource, DisposeStep
  <2>11. CASE UNCHANGED vars
    BY <2>11 DEF vars
  <2> QED
    BY <2>1, <2>2, <2>3, <2>4, <2>5, <2>6, <2>7, <2>8, <2>9, <2>10, <2>11 DEF Next, JobStep
<1> QED
  BY <1>1, <1>2, PTL DEF Spec

-------------------------------------------------------------------------------
(* How the length of the list follows an element added or removed. *)
LEMMA CardinalityAdd ==
  ASSUME NEW S, IsFiniteSet(S), NEW x
  PROVE  /\ IsFiniteSet(S \cup {x})
         /\ Cardinality(S) \in Nat /\ Cardinality(S \cup {x}) \in Nat
         /\ Cardinality(S \cup {x}) <= Cardinality(S) + 1
<1>1. IsFiniteSet(S \cup {x})
  BY FS_AddElement
<1>2. Cardinality(S) \in Nat /\ Cardinality(S \cup {x}) \in Nat
  BY <1>1, FS_CardinalityType
<1>3. Cardinality(S \cup {x}) = IF x \in S THEN Cardinality(S) ELSE Cardinality(S) + 1
  BY FS_AddElement
<1> QED
  BY <1>1, <1>2, <1>3

LEMMA CardinalityRemove ==
  ASSUME NEW S, IsFiniteSet(S), NEW x
  PROVE  /\ IsFiniteSet(S \ {x})
         /\ Cardinality(S) \in Nat /\ Cardinality(S \ {x}) \in Nat
         /\ Cardinality(S \ {x}) <= Cardinality(S)
<1>1. IsFiniteSet(S \ {x})
  BY FS_RemoveElement
<1>2. Cardinality(S) \in Nat /\ Cardinality(S \ {x}) \in Nat
  BY <1>1, FS_CardinalityType
<1>3. Cardinality(S \ {x}) = IF x \in S THEN Cardinality(S) - 1 ELSE Cardinality(S)
  BY FS_RemoveElement
<1> QED
  BY <1>1, <1>2, <1>3

(* A non-empty queue and a list that satisfies the early returns of Enqueue *)
(* mean that the list is not empty.                                         *)
LEMMA EnoughIsSome ==
  ASSUME TypeOK, IsFiniteSet(jobs), EnoughWorkers, queue # <<>>
  PROVE  jobs # {}
<1>1. Len(queue) \in Nat /\ Len(queue) >= 1
  BY EmptySeq DEF TypeOK
<1>2. jobs = {} => Cardinality(jobs) = 0
  BY FS_EmptySet
<1>3. Cardinality(jobs) \in Nat
  BY FS_CardinalityType
<1> QED
  BY <1>1, <1>2, <1>3, WorkerSizeAssumption DEF EnoughWorkers

(* The list stays finite and, until Dispose, holds exactly the jobs that are *)
(* not yet removed and never more than WorkerSize of them: Enqueue adds one  *)
(* only below the limit, DisposeJob only to an empty list.                   *)
LEMMA JobListStep ==
  ASSUME TypeOK, JobListInv, [Next]_vars
  PROVE  JobListInv'
<1> USE DEF TypeOK, JobListInv, Cancelled, Listed
<1>1. ASSUME NEW i \in Items, SignalWorkers(i) PROVE JobListInv'
  <2>1. CASE UNCHANGED jobVars
    BY <1>1, <2>1 DEF SignalWorkers, jobVars
  <2>2. CASE ~EnoughWorkers /\ \E j \in JobObjects : CreateWorker(j)
    <3> PICK j \in JobObjects : CreateWorker(j)
      BY <2>2
    <3>1. /\ IsFiniteSet(jobs \cup {j})
          /\ Cardinality(jobs) \in Nat /\ Cardinality(jobs \cup {j}) \in Nat
          /\ Cardinality(jobs \cup {j}) <= Cardinality(jobs) + 1
      BY CardinalityAdd
    <3>2. Len(queue) \in Nat
      BY LenProperties
    <3>3. Cardinality(jobs) < WorkerSize
      BY <2>2, <3>1, <3>2, WorkerSizeAssumption DEF EnoughWorkers
    <3>4. jobs' = jobs \cup {j} /\ pc' = [pc EXCEPT ![j] = "polling"] /\ disposal' = disposal
          /\ nulled' = nulled \ {j}
      BY <1>1 DEF CreateWorker, SignalWorkers
    <3>5. ~Cancelled => jobs' = {k \in JobObjects : pc'[k] \in Listed}
      BY <3>4
    <3> QED
      BY <3>1, <3>3, <3>4, <3>5, WorkerSizeAssumption
  <2> QED
    BY <1>1, <2>1, <2>2 DEF SignalWorkers
<1>2. ASSUME NEW j \in JobObjects, RemoveJob(j) PROVE JobListInv'
  <2>1. /\ IsFiniteSet(jobs \ {j})
        /\ Cardinality(jobs) \in Nat /\ Cardinality(jobs \ {j}) \in Nat
        /\ Cardinality(jobs \ {j}) <= Cardinality(jobs)
    BY CardinalityRemove
  <2>2. ~Cancelled => jobs' = {k \in JobObjects : pc'[k] \in Listed}
    BY <1>2 DEF RemoveJob
  <2> QED
    BY <1>2, <2>1, <2>2, WorkerSizeAssumption DEF RemoveJob
<1>3. ASSUME NEW j \in JobObjects, RecheckQueue(j) PROVE JobListInv'
  <2>1. CASE ~NeedsReplacement
    BY <1>3, <2>1 DEF RecheckQueue
  <2>2. CASE NeedsReplacement
    <3> PICK k \in JobObjects \ {j} :
                /\ pc[k] = "free"
                /\ jobs' = {k}
                /\ pc' = [pc EXCEPT ![j] = "free", ![k] = "polling"]
                /\ nulled' = nulled \ {k}
      BY <1>3, <2>2 DEF RecheckQueue
    <3>1. IsFiniteSet({k}) /\ Cardinality({k}) = 1
      BY FS_Singleton
    <3>2. jobs' = {l \in JobObjects : pc'[l] \in Listed}
      BY <1>3, <2>2 DEF RecheckQueue, NeedsReplacement
    <3> QED
      BY <1>3, <3>1, <3>2, WorkerSizeAssumption DEF RecheckQueue
  <2> QED
    BY <2>1, <2>2
<1>4. ASSUME NEW j \in JobObjects,
             TakeItem(j) \/ HandlerReturns(j) \/ LoopEnds(j) \/ OnCompleted(j)
      PROVE  JobListInv'
  <2>1. jobs' = jobs /\ disposal' = disposal /\ nulled' = nulled
    BY <1>4 DEF TakeItem, HandlerReturns, LoopEnds, OnCompleted
  <2>2. \A k \in JobObjects : k # j => pc'[k] = pc[k]
    BY <1>4 DEF TakeItem, HandlerReturns, LoopEnds, OnCompleted
  <2>3. pc[j] \in Listed
    BY <1>4 DEF TakeItem, HandlerReturns, LoopEnds, OnCompleted
  <2>4. pc'[j] \in Listed \/ (pc'[j] = "dead" /\ j \in nulled)
    BY <1>4 DEF TakeItem, HandlerReturns, LoopEnds, OnCompleted
  <2> QED
    BY <2>1, <2>2, <2>3, <2>4
<1>5. CASE Dispose
  <2>1. IsFiniteSet({})
    BY FS_EmptySet
  <2> QED
    BY <1>5, <2>1 DEF Dispose, CancelJobs, ClearQueue, DisposeJobs, ClearJobs,
                      DisposeSource, DisposeStep
<1>6. ASSUME NEW i \in Items, Enqueue(i) \/ Lapse(i) PROVE JobListInv'
  BY <1>6 DEF Enqueue, Lapse
<1>7. CASE UNCHANGED vars
  BY <1>7 DEF vars
<1> QED
  BY <1>1, <1>2, <1>3, <1>4, <1>5, <1>6, <1>7 DEF Next, JobStep

(* No step leaves a waiting item with nobody to look at the queue. *)
LEMMA NoStrandedItemStep ==
  ASSUME TypeOK, JobListInv, NoStrandedItem, [Next]_vars
  PROVE  NoStrandedItem'
<1> USE DEF TypeOK, NoStrandedItem, Cancelled
<1>1. ASSUME NEW i \in Items, Enqueue(i) PROVE NoStrandedItem'
  BY <1>1 DEF Enqueue
<1>2. ASSUME NEW i \in Items, SignalWorkers(i) PROVE NoStrandedItem'
  <2>1. CASE EnoughWorkers /\ queue # <<>>
    BY <1>2, <2>1, EnoughIsSome DEF SignalWorkers, JobListInv, jobVars
  <2>2. CASE disposal = "disposed"
    BY <1>2, <2>2 DEF SignalWorkers
  <2>3. CASE \E j \in JobObjects : CreateWorker(j)
    BY <2>3 DEF CreateWorker
  <2>4. CASE queue = <<>>
    BY <1>2, <2>4 DEF SignalWorkers
  <2> QED
    BY <1>2, <2>1, <2>2, <2>3, <2>4 DEF SignalWorkers
<1>3. ASSUME NEW i \in Items, Lapse(i) PROVE NoStrandedItem'
  BY <1>3 DEF Lapse
<1>4. ASSUME NEW j \in JobObjects,
             TakeItem(j) \/ HandlerReturns(j) \/ OnCompleted(j)
      PROVE  NoStrandedItem'
  <2>1. jobs' = jobs /\ calls' = calls /\ disposal' = disposal
    BY <1>4 DEF TakeItem, HandlerReturns, OnCompleted
  <2>2. queue' # <<>> => queue # <<>>
    BY <1>4 DEF TakeItem, HandlerReturns, OnCompleted
  <2>3. \A k \in JobObjects : pc[k] = "checking" => pc'[k] = "checking"
    BY <1>4 DEF TakeItem, HandlerReturns, OnCompleted
  <2> QED
    BY <2>1, <2>2, <2>3
<1>5. ASSUME NEW j \in JobObjects, LoopEnds(j) PROVE NoStrandedItem'
  BY <1>5 DEF LoopEnds
<1>6. ASSUME NEW j \in JobObjects, RemoveJob(j) PROVE NoStrandedItem'
  BY <1>6 DEF RemoveJob
<1>7. ASSUME NEW j \in JobObjects, RecheckQueue(j) PROVE NoStrandedItem'
  <2>1. CASE NeedsReplacement
    BY <1>7, <2>1 DEF RecheckQueue
  <2>2. CASE ~NeedsReplacement
    BY <1>7, <2>2 DEF RecheckQueue, NeedsReplacement
  <2> QED
    BY <2>1, <2>2
<1>8. CASE Dispose
  BY <1>8 DEF Dispose, CancelJobs, ClearQueue, DisposeJobs, ClearJobs, DisposeSource, DisposeStep
<1>9. CASE UNCHANGED vars
  BY <1>9 DEF vars
<1> QED
  BY <1>1, <1>2, <1>3, <1>4, <1>5, <1>6, <1>7, <1>8, <1>9 DEF Next, JobStep

(* The queue keeps holding each waiting item exactly once. *)
LEMMA QueueStep ==
  ASSUME TypeOK, QueueInv, HandlerInv, [Next]_vars
  PROVE  QueueInv'
<1> USE DEF TypeOK, QueueInv
<1>1. ASSUME NEW i \in Items, Enqueue(i) PROVE QueueInv'
  <2>1. /\ Len(queue) \in Nat /\ Len(queue') = Len(queue) + 1
        /\ \A m \in 1..Len(queue) : queue'[m] = queue[m]
        /\ queue'[Len(queue) + 1] = i
    BY <1>1, AppendProperties, LenProperties DEF Enqueue
  <2>2. \A m \in 1..Len(queue) : queue[m] # i /\ queue[m] \in Items
    BY <1>1, ElementOfSeq DEF Enqueue
  <2>3. status' = [status EXCEPT ![i] = "queued"]
    BY <1>1 DEF Enqueue
  <2>4. \A m \in 1..Len(queue') : m \in 1..Len(queue) \/ m = Len(queue) + 1
    BY <2>1
  <2> QED
    BY <2>1, <2>2, <2>3, <2>4
<1>2. ASSUME NEW j \in JobObjects, TakeItem(j) PROVE QueueInv'
  <2>1. /\ Len(queue) \in Nat \ {0} /\ Len(queue') = Len(queue) - 1
        /\ \A m \in 1..Len(queue') : queue'[m] = queue[m + 1]
    BY <1>2, HeadTailProperties, EmptySeq DEF TakeItem
  <2>2. Head(queue) = queue[1]
    BY <1>2 DEF TakeItem
  <2>3. \A m \in 1..Len(queue') : m + 1 \in 1..Len(queue) /\ m + 1 # 1
    BY <2>1
  <2>4. \A m \in 1..Len(queue') : queue'[m] # Head(queue)
    BY <2>1, <2>2, <2>3
  <2>5. \A i \in Items : i # Head(queue) => status'[i] = status[i]
    BY <1>2 DEF TakeItem
  <2>6. \A m \in 1..Len(queue') : queue'[m] \in Items
    BY <2>1, <2>3, ElementOfSeq
  <2>7. \A m \in 1..Len(queue') : status'[queue'[m]] = "queued"
    BY <2>1, <2>3, <2>4, <2>5, <2>6
  <2>8. \A m, n \in 1..Len(queue') : queue'[m] = queue'[n] => m = n
    BY <2>1, <2>3
  <2> QED
    BY <2>7, <2>8
<1>3. ASSUME NEW j \in JobObjects, HandlerReturns(j) PROVE QueueInv'
  <2>1. \A m \in 1..Len(queue) : queue[m] # current[j] /\ queue[m] \in Items
    BY <1>3, ElementOfSeq DEF HandlerReturns, HandlerInv
  <2> QED
    BY <1>3, <2>1 DEF HandlerReturns
<1>4. CASE ClearQueue
  BY <1>4 DEF ClearQueue
<1>5. ASSUME queue' = queue, status' = status PROVE QueueInv'
  BY <1>5
<1>6. CASE UNCHANGED vars
  BY <1>5, <1>6 DEF vars
<1>7. ASSUME NEW j \in JobObjects,
             LoopEnds(j) \/ OnCompleted(j) \/ RemoveJob(j) \/ RecheckQueue(j)
      PROVE  QueueInv'
  BY <1>5, <1>7 DEF LoopEnds, OnCompleted, RemoveJob, RecheckQueue
<1>8. ASSUME NEW i \in Items, SignalWorkers(i) \/ Lapse(i) PROVE QueueInv'
  BY <1>5, <1>8 DEF SignalWorkers, Lapse
<1>9. CASE CancelJobs \/ DisposeJobs \/ ClearJobs \/ DisposeSource
  BY <1>5, <1>9 DEF CancelJobs, DisposeJobs, ClearJobs, DisposeSource
<1> QED
  BY <1>1, <1>2, <1>3, <1>4, <1>6, <1>7, <1>8, <1>9 DEF Next, JobStep, Dispose

(* A job in its handler owns its item, and nobody else does. *)
LEMMA HandlerStep ==
  ASSUME TypeOK, QueueInv, HandlerInv, OneHandler, [Next]_vars
  PROVE  HandlerInv' /\ OneHandler'
<1> USE DEF TypeOK, HandlerInv, OneHandler
<1>1. ASSUME NEW i \in Items, Enqueue(i) PROVE HandlerInv' /\ OneHandler'
  BY <1>1 DEF Enqueue
<1>2. ASSUME NEW j \in JobObjects, TakeItem(j) PROVE HandlerInv' /\ OneHandler'
  <2>1. Head(queue) \in Items /\ status[Head(queue)] = "queued"
    <3>1. Len(queue) \in Nat \ {0} /\ Head(queue) \in Items
      BY <1>2, EmptySeq, HeadTailProperties DEF TakeItem
    <3>2. Head(queue) = queue[1] /\ 1 \in 1..Len(queue)
      BY <3>1
    <3> QED
      BY <3>1, <3>2 DEF QueueInv
  <2>2. \A k \in JobObjects : pc[k] = "handling" => current[k] # Head(queue)
    BY <2>1
  <2>3. CASE Head(queue) \in lapsed
    BY <1>2, <2>1, <2>2, <2>3 DEF TakeItem
  <2>4. CASE Head(queue) \notin lapsed
    BY <1>2, <2>1, <2>2, <2>4 DEF TakeItem
  <2> QED
    BY <2>3, <2>4
<1>3. ASSUME NEW j \in JobObjects, HandlerReturns(j) PROVE HandlerInv' /\ OneHandler'
  BY <1>3 DEF HandlerReturns
<1>4. ASSUME NEW i \in Items, SignalWorkers(i) PROVE HandlerInv' /\ OneHandler'
  BY <1>4 DEF SignalWorkers, CreateWorker, jobVars
<1>5. ASSUME NEW j \in JobObjects, LoopEnds(j) \/ OnCompleted(j) \/ RemoveJob(j)
      PROVE  HandlerInv' /\ OneHandler'
  BY <1>5 DEF LoopEnds, OnCompleted, RemoveJob
<1>6. ASSUME NEW j \in JobObjects, RecheckQueue(j) PROVE HandlerInv' /\ OneHandler'
  <2>1. status' = status
    BY <1>6 DEF RecheckQueue
  <2>2. \A k \in JobObjects :
            /\ pc'[k] = "handling" <=> pc[k] = "handling"
            /\ pc[k] = "handling" => current'[k] = current[k]
    <3>1. CASE ~NeedsReplacement
      BY <1>6, <3>1 DEF RecheckQueue
    <3>2. CASE NeedsReplacement
      <4> PICK l \in JobObjects \ {j} :
                /\ pc[l] = "free"
                /\ pc' = [pc EXCEPT ![j] = "free", ![l] = "polling"]
                /\ current' = [current EXCEPT ![l] = NoItem]
        BY <1>6, <3>2 DEF RecheckQueue
      <4> QED
        BY <1>6 DEF RecheckQueue
    <3> QED
      BY <3>1, <3>2
  <2>3. HandlerInv'
    BY <2>1, <2>2
  <2>4. \A i \in Items : status'[i] = "handling" =>
          \E k \in JobObjects : pc'[k] = "handling" /\ current'[k] = i
    BY <2>1, <2>2
  <2>5. \A k, l \in JobObjects :
          (pc'[k] = "handling" /\ pc'[l] = "handling" /\ current'[k] = current'[l]) => k = l
    BY <2>2
  <2> QED
    BY <2>3, <2>4, <2>5
<1>7. CASE ClearQueue
  BY <1>7 DEF ClearQueue
<1>8. CASE CancelJobs \/ DisposeJobs \/ ClearJobs \/ DisposeSource
  BY <1>8 DEF CancelJobs, DisposeJobs, ClearJobs, DisposeSource
<1>9. ASSUME NEW i \in Items, Lapse(i) PROVE HandlerInv' /\ OneHandler'
  BY <1>9 DEF Lapse
<1>10. CASE UNCHANGED vars
  BY <1>10 DEF vars
<1> QED
  BY <1>1, <1>2, <1>3, <1>4, <1>5, <1>6, <1>7, <1>8, <1>9, <1>10 DEF Next, JobStep, Dispose

-------------------------------------------------------------------------------
(* IInv holds initially and is kept by every step. *)
THEOREM Invariance == Spec => []IInv
<1>1. Init => IInv
  <2> SUFFICES ASSUME Init PROVE IInv
    OBVIOUS
  <2>1. TypeOK
    BY DEF Init, TypeOK, Steps, Statuses, Disposals
  <2>2. IsFiniteSet(jobs) /\ Cardinality(jobs) = 0
    BY FS_EmptySet DEF Init
  <2>3. JobListInv
    BY <2>2, WorkerSizeAssumption DEF Init, JobListInv, Listed
  <2> QED
    BY <2>1, <2>3 DEF Init, IInv, NoStrandedItem, QueueInv, HandlerInv, OneHandler
<1>2. TypeOK /\ TypeOK' /\ IInv /\ [Next]_vars => IInv'
  BY JobListStep, NoStrandedItemStep, QueueStep, HandlerStep DEF IInv
<1> QED
  BY <1>1, <1>2, TypeCorrect, PTL DEF Spec

(* For every worker size, an item in the queue of a live dispatcher always   *)
(* has somebody who will still look at the queue: no wake-up is lost between *)
(* Enqueue and DisposeJob.                                                   *)
THEOREM NothingStranded == Spec => []NoStrandedItem
<1>1. IInv => NoStrandedItem
  BY DEF IInv
<1> QED
  BY <1>1, Invariance, PTL

(* At most WorkerSize jobs run at a time, although two methods create them. *)
LEMMA BusyBound ==
  ASSUME IInv, ~Cancelled
  PROVE  /\ IsFiniteSet(Busy)
         /\ Cardinality(Busy) \in Nat /\ Cardinality(Busy) <= WorkerSize
<1>1. Busy \in SUBSET jobs
  BY DEF IInv, JobListInv, Busy, Listed
<1>2. IsFiniteSet(jobs) /\ Cardinality(jobs) \in Nat /\ Cardinality(jobs) <= WorkerSize
  BY FS_CardinalityType DEF IInv, JobListInv
<1>3. IsFiniteSet(Busy) /\ Cardinality(Busy) <= Cardinality(jobs)
  BY <1>1, <1>2, FS_Subset
<1>4. Cardinality(Busy) \in Nat
  BY <1>3, FS_CardinalityType
<1> QED
  BY <1>2, <1>3, <1>4, WorkerSizeAssumption

THEOREM WorkersBounded == Spec => []WorkerBound
<1>1. IInv => WorkerBound
  BY BusyBound DEF WorkerBound
<1> QED
  BY <1>1, Invariance, PTL

(* An item is in at most one handler at a time. *)
THEOREM HandledOnce == Spec => []OneHandler
<1>1. IInv => OneHandler
  BY DEF IInv
<1> QED
  BY <1>1, Invariance, PTL

-------------------------------------------------------------------------------
(* The refinement: what each step of the dispatcher is to the abstract pool. *)

(* Both modules count with the same operator. *)
LEMMA SameCount ==
  ASSUME NEW S
  PROVE  Pool!Cardinality(S) = Cardinality(S)
BY DEF Pool!Cardinality, Cardinality

(* While a job is about to take an item the pool has room for it: the jobs   *)
(* in handlers are listed, and the one that polls is listed besides them.    *)
LEMMA RoomForOne ==
  ASSUME IInv, ~Cancelled, NEW j \in JobObjects, pc[j] = "polling"
  PROVE  Cardinality(Pool!Active) < WorkerSize
<1> DEFINE InHandler == {k \in JobObjects : pc[k] = "handling"}
           Mapped == {i \in Items : status[i] = "handling"}
           f == [k \in InHandler |-> current[k]]
<1>1. Pool!Active = Mapped
  BY DEF Pool!Active, Stage, IInv, TypeOK, Statuses
<1>2. IsFiniteSet(Busy) /\ Cardinality(Busy) \in Nat /\ Cardinality(Busy) <= WorkerSize
  BY BusyBound
<1>3. IsFiniteSet(Busy \ {j}) /\ Cardinality(Busy \ {j}) = Cardinality(Busy) - 1
  <2>1. j \in Busy
    BY DEF Busy
  <2> QED
    BY <1>2, <2>1, FS_RemoveElement
<1>4. InHandler \in SUBSET (Busy \ {j})
  BY DEF Busy
<1>5. IsFiniteSet(InHandler) /\ Cardinality(InHandler) <= Cardinality(Busy \ {j})
  BY <1>3, <1>4, FS_Subset
<1>6. f \in Surjection(InHandler, Mapped)
  <2>1. f \in [InHandler -> Mapped]
    BY DEF IInv, HandlerInv
  <2>2. \A i \in Mapped : \E k \in InHandler : f[k] = i
    BY DEF IInv, OneHandler
  <2> QED
    BY <2>1, <2>2 DEF Surjection
<1>7. IsFiniteSet(Mapped) /\ Cardinality(Mapped) <= Cardinality(InHandler)
  <2> HIDE DEF f, Mapped, InHandler
  <2> QED
    BY <1>5, <1>6, FS_Surjection
<1>8. Cardinality(InHandler) \in Nat /\ Cardinality(Mapped) \in Nat
  BY <1>5, <1>7, FS_CardinalityType
<1> HIDE DEF InHandler, Mapped
<1> QED
  BY <1>1, <1>2, <1>3, <1>5, <1>7, <1>8, WorkerSizeAssumption

(* The dispatcher implements the abstract first-in first-out pool: nothing   *)
(* accepted is lost, run twice, or run beyond the limit, for every number of *)
(* items, jobs and workers.                                                  *)
THEOREM ImplementsPool == Spec => PoolSpec
<1>1. Init => Pool!Init
  BY DEF Init, Pool!Init, Stage, Cancelled
<1>2. IInv /\ [Next]_vars => [Pool!Next]_Pool!vars
  <2> SUFFICES ASSUME IInv, [Next]_vars PROVE [Pool!Next]_Pool!vars
    OBVIOUS
  <2> USE DEF Cancelled
  <2>1. ASSUME NEW i \in Items, Enqueue(i) PROVE Pool!Submit(i)
    BY <2>1 DEF Enqueue, Pool!Submit, Stage, IInv, TypeOK, Statuses
  <2>2. ASSUME NEW j \in JobObjects, TakeItem(j) PROVE Pool!Start \/ Pool!Discard
    <3>1. Head(queue) \in Items
      BY <2>2, HeadTailProperties DEF TakeItem, IInv, TypeOK
    <3>2. CASE Head(queue) \in lapsed
      BY <2>2, <3>1, <3>2 DEF TakeItem, Pool!Discard, Stage, IInv, TypeOK, Statuses
    <3>3. CASE Head(queue) \notin lapsed
      <4>1. Cancelled \/ Cardinality(Pool!Active) < WorkerSize
        BY <2>2, RoomForOne DEF TakeItem
      <4> QED
        BY <2>2, <3>1, <3>3, <4>1, SameCount DEF TakeItem, Pool!Start, Stage, IInv, TypeOK, Statuses
    <3> QED
      BY <3>2, <3>3
  <2>3. ASSUME NEW j \in JobObjects, HandlerReturns(j) PROVE Pool!Finish(current[j])
    <3>1. current[j] \in Items /\ status[current[j]] = "handling"
      BY <2>3 DEF HandlerReturns, IInv, HandlerInv
    <3> QED
      BY <2>3, <3>1 DEF HandlerReturns, Pool!Finish, Stage, IInv, TypeOK, Statuses
  <2>4. ASSUME CancelJobs PROVE Pool!Close
    BY <2>4 DEF CancelJobs, DisposeStep, Pool!Close, Stage
  <2>5. ASSUME ClearQueue PROVE Pool!Clear
    <3>1. \A i \in Items : Stage(i)' = IF Stage(i) = "waiting" THEN "dropped" ELSE Stage(i)
      BY <2>5 DEF ClearQueue, DisposeStep, Stage, IInv, TypeOK, Statuses
    <3> QED
      BY <2>5, <3>1 DEF ClearQueue, DisposeStep, Pool!Clear
  <2>6. ASSUME queue' = queue, status' = status, Cancelled' = Cancelled
        PROVE  UNCHANGED Pool!vars
    BY <2>6 DEF Pool!vars, Stage
  <2>7. ASSUME NEW i \in Items, SignalWorkers(i) \/ Lapse(i) PROVE UNCHANGED Pool!vars
    BY <2>6, <2>7 DEF SignalWorkers, Lapse
  <2>8. ASSUME NEW j \in JobObjects,
               LoopEnds(j) \/ OnCompleted(j) \/ RemoveJob(j) \/ RecheckQueue(j)
        PROVE  UNCHANGED Pool!vars
    BY <2>6, <2>8 DEF LoopEnds, OnCompleted, RemoveJob, RecheckQueue
  <2>9. CASE DisposeJobs \/ ClearJobs \/ DisposeSource
    BY <2>6, <2>9 DEF DisposeJobs, ClearJobs, DisposeSource, DisposeStep
  <2>10. CASE UNCHANGED vars
    BY <2>6, <2>10 DEF vars
  <2>11. ASSUME NEW j \in JobObjects, HandlerReturns(j) PROVE \E i \in Items : Pool!Finish(i)
    BY <2>3, <2>11 DEF HandlerReturns, IInv, HandlerInv
  <2> QED
    BY <2>1, <2>2, <2>4, <2>5, <2>7, <2>8, <2>9, <2>10, <2>11
       DEF Next, JobStep, Dispose, Pool!Next
<1> QED
  BY <1>1, <1>2, Invariance, PTL DEF Spec, PoolSpec, Pool!Spec
===============================================================================

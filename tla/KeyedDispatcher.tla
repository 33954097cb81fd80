---------------------------- MODULE KeyedDispatcher ----------------------------
(***************************************************************************)
(* The keyed half of Dispatcher<T>: Enqueue(key, item) finds or creates    *)
(* the QueuedDispatcher registered under the key, and a QueuedDispatcher   *)
(* that has emptied its queue unregisters and disposes itself.             *)
(*                                                                         *)
(* One key is modelled; dispatchers of other keys share nothing with it    *)
(* but the registry, where every entry has a name of its own.  No lock     *)
(* protects anything here: producers, the working loop of a dispatcher,    *)
(* its completion handlers and the owner's Dispose interleave freely.      *)
(*                                                                         *)
(* A BackgroundWorker raises RunWorkerCompleted on another thread after    *)
(* IsBusy has become false, so a producer may restart the worker first,    *)
(* and handlers of two completions may then run at once.  RunWorkerAsync   *)
(* is one atomic test of IsBusy, as the catch clauses of                   *)
(* QueuedDispatcher.cs take it to be.                                      *)
(***************************************************************************)
EXTENDS Naturals, Sequences, FiniteSets

CONSTANTS Items,       \* each passed to Enqueue(key, item) once
          Producers,   \* threads that call it
          Instances,   \* QueuedDispatcher objects (a bound for TLC)
          Handlers,    \* completion handlers that may run at once (a bound)
          None,
          MaxGuid      \* generated keys a dispatcher may get (a bound)

ASSUME NoneAssumption == None \notin Items \cup Instances
ASSUME GuidAssumption == MaxGuid \in Nat

VARIABLES entry,      \* dispatcher -> the key it is registered under, 0 if under none
          guids,      \* dispatcher -> generated keys it has had
          queue,      \* QueuedDispatcher.Queue
          worker,     \* where its BackgroundWorker is
          current,    \* the item its worker handles
          disposal,   \* where its Dispose is
          born,       \* the dispatchers constructed so far
          pc, target, carried,   \* producers: step, dispatcher and item at hand
          hpc, hinst, hkey,      \* handlers: step, dispatcher and key found
          owner,      \* the owner's Dispose
          doomed,     \* dispatchers it found registered when it began
          answer,     \* history: what Enqueue answered for each item
          done        \* history: the dispatcher whose worker is through with an item

registry == <<entry, guids, born>>
workers == <<queue, worker, current>>
producers == <<pc, target, carried>>
handlers == <<hpc, hinst, hkey>>
vars == <<entry, guids, queue, worker, current, disposal, born, pc, target, carried,
          hpc, hinst, hkey, owner, doomed, answer, done>>

Nowhere == 0
Name == 1                    \* the key itself; 2, 3, ... are generated keys
EntryKeys == 0..(MaxGuid + 1)

Init ==
    /\ entry = [d \in Instances |-> Nowhere]
    /\ guids = [d \in Instances |-> 0]
    /\ queue = [d \in Instances |-> <<>>]
    /\ worker = [d \in Instances |-> "idle"]
    /\ current = [d \in Instances |-> None]
    /\ disposal = [d \in Instances |-> "no"]
    /\ born = {}
    /\ pc = [p \in Producers |-> "idle"]
    /\ target = [p \in Producers |-> None]
    /\ carried = [p \in Producers |-> None]
    /\ hpc = [h \in Handlers |-> "free"]
    /\ hinst = [h \in Handlers |-> None]
    /\ hkey = [h \in Handlers |-> Nowhere]
    /\ owner = "up"
    /\ doomed = {}
    /\ answer = [i \in Items |-> "none"]
    /\ done = [i \in Items |-> None]

IsRunning(d) == worker[d] # "idle"

(* DispatcherJob.Run: starts the loop unless busy; a worker that is busy or  *)
(* gone throws, which Run swallows.                                          *)
Run(d) ==
    worker' = IF IsRunning(d) \/ disposal[d] = "done" THEN worker
              ELSE [worker EXCEPT ![d] = "dequeue"]

-------------------------------------------------------------------------------
(* Enqueue(key, item) and EnsureDispatcher. *)
FindDispatcher(p, i) ==
    /\ pc[p] = "idle" /\ answer[i] = "none" /\ \A q \in Producers : carried[q] # i
    /\ carried' = [carried EXCEPT ![p] = i]
    /\ \E d \in Instances :
          \/ /\ entry[d] = Name
             /\ target' = [target EXCEPT ![p] = d]
             /\ pc' = [pc EXCEPT ![p] = "check"]
             /\ UNCHANGED born
          \/ /\ \A k \in Instances : entry[k] # Name
             /\ d \notin born
             /\ born' = born \cup {d}
             /\ target' = [target EXCEPT ![p] = d]
             /\ pc' = [pc EXCEPT ![p] = "add"]
    /\ UNCHANGED <<entry, guids, workers, disposal, handlers, owner, doomed, answer, done>>

(* TryAdd; a dispatcher that loses the race is disposed, it was never seen. *)
AddDispatcher(p) ==
    /\ pc[p] = "add"
    /\ \/ /\ \A d \in Instances : entry[d] # Name
          /\ entry' = [entry EXCEPT ![target[p]] = Name]
          /\ pc' = [pc EXCEPT ![p] = "check"]
          /\ UNCHANGED <<target, disposal>>
       \/ /\ \E d \in Instances : entry[d] = Name
          /\ disposal' = [disposal EXCEPT ![target[p]] = "done"]
          /\ target' = [target EXCEPT ![p] = None]
          /\ pc' = [pc EXCEPT ![p] = "retry"]
          /\ UNCHANGED entry
    /\ UNCHANGED <<guids, born, workers, carried, handlers, owner, doomed, answer, done>>

Answer(p, a) ==
    /\ answer' = [answer EXCEPT ![carried[p]] = a]
    /\ pc' = [pc EXCEPT ![p] = "idle"]
    /\ target' = [target EXCEPT ![p] = None]
    /\ carried' = [carried EXCEPT ![p] = None]

(* The winner of that race is looked up; it may be gone already. *)
RetryDispatcher(p) ==
    /\ pc[p] = "retry"
    /\ \/ \E d \in Instances :
             /\ entry[d] = Name
             /\ target' = [target EXCEPT ![p] = d]
             /\ pc' = [pc EXCEPT ![p] = "check"]
             /\ UNCHANGED <<carried, answer>>
       \/ /\ \A d \in Instances : entry[d] # Name
          /\ Answer(p, "threw")
    /\ UNCHANGED <<registry, workers, disposal, handlers, owner, doomed, done>>

(* QueuedDispatcher.Enqueue: refused once disposed, ... *)
CheckDisposed(p) ==
    /\ pc[p] = "check"
    /\ \/ disposal[target[p]] # "no" /\ Answer(p, "false")
       \/ /\ disposal[target[p]] = "no"
          /\ pc' = [pc EXCEPT ![p] = "put"]
          /\ UNCHANGED <<target, carried, answer>>
    /\ UNCHANGED <<registry, workers, disposal, handlers, owner, doomed, done>>

(* M_... definitions are deliberately wrong versions of the definition that  *)
(* follows them; they are not part of the model (README, "Mutants").         *)
M_Put(p) ==
    /\ pc[p] = "put"
    /\ queue' = [queue EXCEPT ![target[p]] = Append(@, None)]
    /\ pc' = [pc EXCEPT ![p] = "poke"]
    /\ UNCHANGED <<registry, worker, current, disposal, target, carried, handlers,
                   owner, doomed, answer, done>>

(* ... else put in the queue, ... *)
Put(p) ==
    /\ pc[p] = "put"
    /\ queue' = [queue EXCEPT ![target[p]] = Append(@, carried[p])]
    /\ pc' = [pc EXCEPT ![p] = "poke"]
    /\ UNCHANGED <<registry, worker, current, disposal, target, carried, handlers,
                   owner, doomed, answer, done>>

(* ... and the worker is started if it is not running; the property throws   *)
(* once the worker is gone (not the exception Enqueue catches).              *)
CheckRunning(p) ==
    /\ pc[p] = "poke"
    /\ \/ disposal[target[p]] = "done" /\ Answer(p, "threw")
       \/ disposal[target[p]] # "done" /\ IsRunning(target[p]) /\ Answer(p, "true")
       \/ /\ disposal[target[p]] # "done" /\ ~IsRunning(target[p])
          /\ pc' = [pc EXCEPT ![p] = "run"]
          /\ UNCHANGED <<target, carried, answer>>
    /\ UNCHANGED <<registry, workers, disposal, handlers, owner, doomed, done>>

StartWorker(p) ==
    /\ pc[p] = "run"
    /\ Run(target[p])
    /\ Answer(p, "true")
    /\ UNCHANGED <<registry, queue, current, disposal, handlers, owner, doomed, done>>

-------------------------------------------------------------------------------
M_TakeItem(d) ==
    /\ worker[d] = "dequeue" /\ queue[d] # <<>>
    /\ current' = [current EXCEPT ![d] = Head(queue[d])]
    /\ worker' = [worker EXCEPT ![d] = "working"]
    /\ UNCHANGED <<registry, queue, disposal, producers, handlers, owner, doomed, answer, done>>

(* The worker's loop.  It does not look at the dispatcher's cancellation.    *)
TakeItem(d) ==
    /\ worker[d] = "dequeue" /\ queue[d] # <<>>
    /\ current' = [current EXCEPT ![d] = Head(queue[d])]
    /\ queue' = [queue EXCEPT ![d] = Tail(queue[d])]
    /\ worker' = [worker EXCEPT ![d] = "working"]
    /\ UNCHANGED <<registry, disposal, producers, handlers, owner, doomed, answer, done>>

(* DoWork(item) returns, throws (OnError), or the item is skipped as lapsed. *)
HandlerReturns(d) ==
    /\ worker[d] = "working"
    /\ done' = [done EXCEPT ![current[d]] = d]
    /\ current' = [current EXCEPT ![d] = None]
    /\ worker' = [worker EXCEPT ![d] = "dequeue"]
    /\ UNCHANGED <<registry, queue, disposal, producers, handlers, owner, doomed, answer>>

LoopEnds(d) ==
    /\ worker[d] = "dequeue" /\ queue[d] = <<>>
    /\ worker' = [worker EXCEPT ![d] = "ended"]
    /\ UNCHANGED <<registry, queue, current, disposal, producers, handlers,
                   owner, doomed, answer, done>>

(* BackgroundWorker, on another thread: IsBusy is reset, then the event raised. *)
WorkCompleted(d, h) ==
    /\ worker[d] = "ended"
    /\ hpc[h] = "free"
    /\ worker' = [worker EXCEPT ![d] = "idle"]
    /\ hpc' = [hpc EXCEPT ![h] = "completed"]
    /\ hinst' = [hinst EXCEPT ![h] = d]
    /\ UNCHANGED <<registry, queue, current, disposal, producers, hkey,
                   owner, doomed, answer, done>>

-------------------------------------------------------------------------------
EndHandler(h) ==
    /\ hpc' = [hpc EXCEPT ![h] = "free"]
    /\ hinst' = [hinst EXCEPT ![h] = None]
    /\ hkey' = [hkey EXCEPT ![h] = Nowhere]

GoOn(h, step) == hpc' = [hpc EXCEPT ![h] = step] /\ UNCHANGED <<hinst, hkey>>

M_OnCompleted(h) ==
    /\ hpc[h] = "completed"
    /\ GoOn(h, "count")
    /\ UNCHANGED <<registry, workers, disposal, producers, owner, doomed, answer, done>>

(* QueuedDispatcher.OnCompleted *)
OnCompleted(h) ==
    LET d == hinst[h] IN
    /\ hpc[h] = "completed"
    /\ \/ queue[d] # <<>> /\ Run(d) /\ EndHandler(h)
       \/ queue[d] = <<>> /\ GoOn(h, "count") /\ UNCHANGED worker
    /\ UNCHANGED <<registry, queue, current, disposal, producers, owner, doomed, answer, done>>

(* Dispatcher.OnQueuedCompleted: an item in the queue keeps the dispatcher. *)
CheckCount(h) ==
    /\ hpc[h] = "count"
    /\ IF queue[hinst[h]] # <<>> THEN EndHandler(h) ELSE GoOn(h, "find")
    /\ UNCHANGED <<registry, workers, disposal, producers, owner, doomed, answer, done>>

M_FindEntry(h) ==
    /\ hpc[h] = "find"
    /\ hkey' = [hkey EXCEPT ![h] = Name]
    /\ hpc' = [hpc EXCEPT ![h] = IF entry[hinst[h]] # Name THEN "dispose" ELSE "remove"]
    /\ UNCHANGED <<registry, workers, disposal, producers, hinst, owner, doomed, answer, done>>

FindEntry(h) ==
    /\ hpc[h] = "find"
    /\ hkey' = [hkey EXCEPT ![h] = entry[hinst[h]]]
    /\ hpc' = [hpc EXCEPT ![h] = IF entry[hinst[h]] = Nowhere THEN "dispose" ELSE "remove"]
    /\ UNCHANGED <<registry, workers, disposal, producers, hinst, owner, doomed, answer, done>>

(* TryRemove(entry) succeeds if the dispatcher still is under that key. *)
RemoveEntry(h) ==
    LET d == hinst[h] IN
    /\ hpc[h] = "remove"
    /\ \/ entry[d] = hkey[h] /\ entry' = [entry EXCEPT ![d] = Nowhere] /\ GoOn(h, "recount")
       \/ entry[d] # hkey[h] /\ GoOn(h, "dispose") /\ UNCHANGED entry
    /\ UNCHANGED <<guids, born, workers, disposal, producers, owner, doomed, answer, done>>

(* "It's still possible that an item has been enqueued while the dispatcher  *)
(* has been removing": then it is registered again, under a generated key.   *)
ReviveEntry(h) ==
    LET d == hinst[h] IN
    /\ hpc[h] = "recount"
    /\ \/ /\ queue[d] # <<>> /\ guids[d] < MaxGuid
          /\ entry' = [entry EXCEPT ![d] = Name + guids[d] + 1]
          /\ guids' = [guids EXCEPT ![d] = @ + 1]
          /\ EndHandler(h)
       \/ queue[d] = <<>> /\ GoOn(h, "dispose") /\ UNCHANGED <<entry, guids>>
    /\ UNCHANGED <<born, workers, disposal, producers, owner, doomed, answer, done>>

(* Dispose, the first half: the flag is set and the token cancelled; *)
BeginDispose(d) ==
    disposal' = IF disposal[d] = "no" THEN [disposal EXCEPT ![d] = "begun"] ELSE disposal

DisposeDispatcher(h) ==
    /\ hpc[h] = "dispose"
    /\ BeginDispose(hinst[h])
    /\ EndHandler(h)
    /\ UNCHANGED <<registry, workers, producers, owner, doomed, answer, done>>

(* the second: the worker is disposed and its reference cleared.  A loop     *)
(* under way goes on, and its completion is still handled.                   *)
DisposeWorker(d) ==
    /\ disposal[d] = "begun"
    /\ disposal' = [disposal EXCEPT ![d] = "done"]
    /\ UNCHANGED <<registry, workers, producers, handlers, owner, doomed, answer, done>>

-------------------------------------------------------------------------------
(* The owner's Dispose: each registered dispatcher is disposed, those it     *)
(* found when it began and perhaps later ones, then the registry is cleared  *)
(* (without waiting for a Dispose that a completion handler has begun).      *)
OwnerDisposes ==
    /\ owner = "up"
    /\ owner' = "disposing"
    /\ doomed' = {d \in Instances : entry[d] # Nowhere}
    /\ UNCHANGED <<registry, workers, disposal, producers, handlers, answer, done>>

OwnerDisposesOne(d) ==
    /\ owner = "disposing"
    /\ entry[d] # Nowhere /\ disposal[d] = "no"
    /\ BeginDispose(d)
    /\ UNCHANGED <<registry, workers, producers, handlers, owner, doomed, answer, done>>

OwnerClears ==
    /\ owner = "disposing"
    /\ \A d \in doomed : entry[d] # Nowhere => disposal[d] # "no"
    /\ entry' = [d \in Instances |-> Nowhere]
    /\ owner' = "down"
    /\ doomed' = {}
    /\ UNCHANGED <<guids, born, workers, disposal, producers, handlers, answer, done>>

-------------------------------------------------------------------------------
Produce(p) ==
    \/ \E i \in Items : FindDispatcher(p, i)
    \/ AddDispatcher(p) \/ RetryDispatcher(p) \/ CheckDisposed(p)
    \/ Put(p) \/ CheckRunning(p) \/ StartWorker(p)

Work(d) ==
    \/ TakeItem(d) \/ HandlerReturns(d) \/ LoopEnds(d)
    \/ \E h \in Handlers : WorkCompleted(d, h)

Complete(h) ==
    \/ OnCompleted(h) \/ CheckCount(h) \/ FindEntry(h) \/ RemoveEntry(h)
    \/ ReviveEntry(h) \/ DisposeDispatcher(h)

Close == OwnerDisposes \/ (\E d \in Instances : OwnerDisposesOne(d)) \/ OwnerClears

Next ==
    \/ \E p \in Producers : Produce(p)
    \/ \E d \in Instances : Work(d) \/ DisposeWorker(d)
    \/ \E h \in Handlers : Complete(h)
    \/ Close

Spec == Init /\ [][Next]_vars

(* Threads that have begun something finish it; no one has to call Enqueue   *)
(* or the owner's Dispose.                                                   *)
Fairness ==
    /\ \A p \in Producers : WF_vars(Produce(p) /\ pc[p] # "idle")
    /\ \A d \in Instances : WF_vars(Work(d)) /\ WF_vars(DisposeWorker(d))
    /\ \A h \in Handlers : WF_vars(Complete(h))

FairSpec == Spec /\ Fairness

-------------------------------------------------------------------------------
RegistryOK ==
    /\ entry \in [Instances -> EntryKeys] /\ guids \in [Instances -> 0..MaxGuid]
    /\ disposal \in [Instances -> {"no", "begun", "done"}]
    /\ born \subseteq Instances /\ doomed \subseteq Instances
    /\ owner \in {"up", "disposing", "down"}

WorkersOK ==
    /\ queue \in [Instances -> Seq(Items)]
    /\ worker \in [Instances -> {"idle", "dequeue", "working", "ended"}]
    /\ current \in [Instances -> Items \cup {None}]
    /\ answer \in [Items -> {"none", "true", "false", "threw"}]
    /\ done \in [Items -> Instances \cup {None}]

ProducersOK ==
    /\ pc \in [Producers -> {"idle", "add", "retry", "check", "put", "poke", "run"}]
    /\ target \in [Producers -> Instances \cup {None}]
    /\ carried \in [Producers -> Items \cup {None}]
    /\ \A p \in Producers : pc[p] # "idle" => carried[p] \in Items
    /\ \A p \in Producers : pc[p] \notin {"idle", "retry"} => target[p] \in Instances

HandlersOK ==
    /\ hpc \in [Handlers -> {"free", "completed", "count", "find", "remove", "recount", "dispose"}]
    /\ hinst \in [Handlers -> Instances \cup {None}] /\ hkey \in [Handlers -> EntryKeys]
    /\ \A h \in Handlers : hpc[h] # "free" => hinst[h] \in Instances

TypeOK == RegistryOK /\ WorkersOK /\ ProducersOK /\ HandlersOK

Starting(d) == \E p \in Producers : target[p] = d /\ pc[p] \in {"poke", "run"}
Handling(d) == \E h \in Handlers : hinst[h] = d

(* An item in the queue of a dispatcher that still has its worker is never   *)
(* forgotten: the worker runs, or the producer that brought it or the        *)
(* handler of the last completion has yet to look (the two tests cross, with *)
(* no lock, in Enqueue and OnCompleted).                                     *)
Watched(d) ==
    \/ IsRunning(d) \/ Starting(d)
    \/ \E h \in Handlers : hinst[h] = d /\ hpc[h] = "completed"

NothingStranded ==
    \A d \in Instances : (queue[d] # <<>> /\ disposal[d] # "done") => Watched(d)

(* Until the owner is disposed, no idle dispatcher stays in the registry,    *)
(* under its key or a generated one: whoever made it idle has yet to         *)
(* unregister it, or a producer is about to use it.                          *)
IdleUnregistered ==
    \A d \in Instances :
        (owner = "up" /\ entry[d] # Nowhere) =>
            \/ queue[d] # <<>> \/ IsRunning(d) \/ Handling(d)
            \/ \E p \in Producers : target[p] = d

(* Why, in terms an induction can use: a dispatcher nobody has constructed,  *)
(* or whose producer has yet to add it, is out of everybody else's reach; ...*)
Untouched(d) ==
    /\ entry[d] = Nowhere /\ worker[d] = "idle" /\ disposal[d] = "no"
    /\ \A h \in Handlers : hinst[h] # d

OwnersOnly ==
    /\ \A d \in Instances \ born : Untouched(d) /\ \A p \in Producers : target[p] # d
    /\ \A p \in Producers : pc[p] = "add" =>
          Untouched(target[p]) /\ \A q \in Producers \ {p} : target[q] # target[p]

(* ... one that was added waits for its first item, and from then on there   *)
(* is an item, a worker, or a handler that will find the entry it is under.  *)
FirstItemComes(d) ==
    /\ disposal[d] = "no" /\ \A h \in Handlers : hinst[h] # d
    /\ \E p \in Producers : target[p] = d /\ pc[p] \in {"check", "put"}

InUse(d) ==
    \/ queue[d] # <<>> \/ IsRunning(d)
    \/ \E h \in Handlers :
          /\ hinst[h] = d
          /\ \/ hpc[h] \in {"completed", "count", "find"}
             \/ hpc[h] = "remove" /\ hkey[h] = entry[d]

RegisteredInv ==
    \A d \in Instances :
        (owner = "up" /\ entry[d] # Nowhere) => FirstItemComes(d) \/ InUse(d)

(* Each dispatcher, disposed or not, is a first-in first-out pool that works *)
(* on one item at a time: what ProcessBehavior.Queued promises its items.    *)
InQueue(d, i) == \E n \in 1..Len(queue[d]) : queue[d][n] = i

StageIn(d) ==
    [i \in Items |->
        CASE current[d] = i -> "active"
          [] done[i] = d -> "done"
          [] InQueue(d, i) -> "waiting"
          [] OTHER -> "new"]

Pool(d) == INSTANCE WorkPool WITH Limit <- 1, waiting <- queue[d],
                                  stage <- StageIn(d), closed <- FALSE

PoolSpec ==
    /\ \A d \in Instances : Pool(d)!Init
    /\ [][\A d \in Instances : Pool(d)!Next \/ UNCHANGED <<queue[d], StageIn(d)>>]_vars

(* Why: an item is with one producer, then in one queue, once, then with the *)
(* worker of that dispatcher.                                                *)
Unseen(i) == done[i] = None /\ \A d \in Instances : current[d] # i /\ ~InQueue(d, i)

ItemsInv ==
    /\ \A i \in Items :
          (answer[i] = "none" /\ \A p \in Producers : carried[p] = i => pc[p] \notin {"poke", "run"})
             => Unseen(i)
    /\ \A p \in Producers : carried[p] # None =>
          answer[carried[p]] = "none" /\ \A q \in Producers \ {p} : carried[q] # carried[p]
    /\ \A d \in Instances : \A m, n \in 1..Len(queue[d]) : queue[d][m] = queue[d][n] => m = n
    /\ \A d \in Instances : \A i \in Items : InQueue(d, i) =>
          done[i] = None /\ \A e \in Instances : current[e] # i /\ (InQueue(e, i) => e = d)
    /\ \A d \in Instances : (current[d] # None) <=> worker[d] = "working"
    /\ \A d \in Instances : current[d] # None =>
          done[current[d]] = None /\ \A e \in Instances \ {d} : current[e] # current[d]

(* What reaches the queue of a dispatcher is handled, unless the dispatcher  *)
(* is disposed first.                                                        *)
QueuedIsHandled ==
    \A d \in Instances : \A i \in Items :
        InQueue(d, i) ~> (done[i] = d \/ disposal[d] = "done")

-------------------------------------------------------------------------------
(* Claims of the source that the code does not keep (see README, "Findings") *)

(* Dispatcher.cs:196: "If service has enqueued an item in the meantime we do *)
(* nothing just keep the current queued dispatcher alive": it is not         *)
(* disposed while its worker handles an item.                                *)
AliveWhileWorking ==
    [][\A d \in Instances :
          (owner = "up" /\ disposal[d] = "no" /\ disposal'[d] = "begun") => worker[d] # "working"]_vars
===============================================================================

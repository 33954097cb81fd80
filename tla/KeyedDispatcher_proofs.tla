------------------------- MODULE KeyedDispatcher_proofs -------------------------
(* What TLAPS proves of KeyedDispatcher.tla for every set of items,          *)
(* producers, dispatchers and handlers: its types, that no item is forgotten *)
(* in the queue of a dispatcher that still has its worker, that no idle      *)
(* dispatcher stays registered, and that each dispatcher is a pool of one    *)
(* worker.                                                                   *)
EXTENDS KeyedDispatcher, SequenceTheorems, FiniteSetTheorems, TLAPS

USE NoneAssumption, GuidAssumption

-------------------------------------------------------------------------------
LEMMA InitType == Init => TypeOK
<1> SUFFICES ASSUME Init PROVE TypeOK
  OBVIOUS
<1>1. RegistryOK
  BY DEF Init, RegistryOK, Nowhere, EntryKeys
<1>2. WorkersOK
  BY DEF Init, WorkersOK
<1>3. ProducersOK
  BY DEF Init, ProducersOK
<1>4. HandlersOK
  BY DEF Init, HandlersOK, Nowhere, EntryKeys
<1> QED
  BY <1>1, <1>2, <1>3, <1>4 DEF TypeOK

(* Taking the first item off a queue leaves a queue of items. *)
LEMMA TakeFacts ==
  ASSUME NEW s \in Seq(Items), s # <<>>
  PROVE  Head(s) \in Items /\ Tail(s) \in Seq(Items)
BY HeadTailProperties

(* What the common ends of handlers and Enqueue calls keep. *)
LEMMA EndHandlerType ==
  ASSUME HandlersOK, NEW h \in Handlers, EndHandler(h)
  PROVE  HandlersOK'
BY DEF HandlersOK, EndHandler, Nowhere, EntryKeys

LEMMA GoOnType ==
  ASSUME HandlersOK, NEW h \in Handlers, hpc[h] # "free", GoOn(h, "count") \/ GoOn(h, "dispose")
  PROVE  HandlersOK'
BY DEF HandlersOK, GoOn

LEMMA AnswerType ==
  ASSUME WorkersOK, ProducersOK, NEW p \in Producers, pc[p] # "idle",
         Answer(p, "true") \/ Answer(p, "false") \/ Answer(p, "threw")
  PROVE  answer' \in [Items -> {"none", "true", "false", "threw"}]
BY DEF WorkersOK, ProducersOK, Answer

LEMMA TypeStep == TypeOK /\ [Next]_vars => TypeOK'
<1> SUFFICES ASSUME TypeOK, [Next]_vars PROVE TypeOK'
  OBVIOUS
<1> USE DEF TypeOK, registry, workers, producers, handlers
<1>1. ASSUME NEW p \in Producers, NEW i \in Items, FindDispatcher(p, i) PROVE TypeOK'
  <2>1. RegistryOK'
    BY <1>1 DEF FindDispatcher, RegistryOK, Name, Nowhere, EntryKeys, BeginDispose
  <2>2. WorkersOK'
    BY <1>1 DEF FindDispatcher, WorkersOK
  <2>3. ProducersOK'
    BY <1>1 DEF FindDispatcher, ProducersOK, Answer
  <2>4. HandlersOK'
    BY <1>1 DEF FindDispatcher, HandlersOK
  <2> QED
    BY <2>1, <2>2, <2>3, <2>4
<1>2. ASSUME NEW p \in Producers, AddDispatcher(p) PROVE TypeOK'
  <2>1. RegistryOK'
    BY <1>2 DEF AddDispatcher, RegistryOK, Name, Nowhere, EntryKeys, BeginDispose, ProducersOK
  <2>2. WorkersOK'
    BY <1>2 DEF AddDispatcher, WorkersOK
  <2>3. ProducersOK'
    BY <1>2 DEF AddDispatcher, ProducersOK, Answer
  <2>4. HandlersOK'
    BY <1>2 DEF AddDispatcher, HandlersOK
  <2> QED
    BY <2>1, <2>2, <2>3, <2>4
<1>3. ASSUME NEW p \in Producers, RetryDispatcher(p) PROVE TypeOK'
  <2>1. RegistryOK'
    BY <1>3 DEF RetryDispatcher, RegistryOK
  <2>2. WorkersOK'
    BY <1>3 DEF RetryDispatcher, WorkersOK, Answer, Run, IsRunning, ProducersOK
  <2>3. ProducersOK'
    BY <1>3 DEF RetryDispatcher, ProducersOK, Answer
  <2>4. HandlersOK'
    BY <1>3 DEF RetryDispatcher, HandlersOK
  <2> QED
    BY <2>1, <2>2, <2>3, <2>4
<1>4. ASSUME NEW p \in Producers, CheckDisposed(p) PROVE TypeOK'
  <2>1. RegistryOK'
    BY <1>4 DEF CheckDisposed, RegistryOK
  <2>2. WorkersOK'
    BY <1>4, AnswerType DEF CheckDisposed, WorkersOK
  <2>3. ProducersOK'
    BY <1>4 DEF CheckDisposed, ProducersOK, Answer
  <2>4. HandlersOK'
    BY <1>4 DEF CheckDisposed, HandlersOK
  <2> QED
    BY <2>1, <2>2, <2>3, <2>4
<1>5. ASSUME NEW p \in Producers, Put(p) PROVE TypeOK'
  <2>1. RegistryOK'
    BY <1>5 DEF Put, RegistryOK
  <2>2. WorkersOK'
    BY <1>5 DEF Put, WorkersOK, Answer, Run, IsRunning, ProducersOK
  <2>3. ProducersOK'
    BY <1>5 DEF Put, ProducersOK, Answer
  <2>4. HandlersOK'
    BY <1>5 DEF Put, HandlersOK
  <2> QED
    BY <2>1, <2>2, <2>3, <2>4
<1>6. ASSUME NEW p \in Producers, CheckRunning(p) PROVE TypeOK'
  <2>1. RegistryOK'
    BY <1>6 DEF CheckRunning, RegistryOK
  <2>2. WorkersOK'
    BY <1>6 DEF CheckRunning, WorkersOK, Answer, Run, IsRunning, ProducersOK
  <2>3. ProducersOK'
    BY <1>6 DEF CheckRunning, ProducersOK, Answer
  <2>4. HandlersOK'
    BY <1>6 DEF CheckRunning, HandlersOK
  <2> QED
    BY <2>1, <2>2, <2>3, <2>4
<1>7. ASSUME NEW p \in Producers, StartWorker(p) PROVE TypeOK'
  <2>1. RegistryOK'
    BY <1>7 DEF StartWorker, RegistryOK
  <2>2. WorkersOK'
    BY <1>7 DEF StartWorker, WorkersOK, Answer, Run, IsRunning, ProducersOK
  <2>3. ProducersOK'
    BY <1>7 DEF StartWorker, ProducersOK, Answer
  <2>4. HandlersOK'
    BY <1>7 DEF StartWorker, HandlersOK
  <2> QED
    BY <2>1, <2>2, <2>3, <2>4
<1>8. ASSUME NEW d \in Instances, TakeItem(d) PROVE TypeOK'
  <2>1. RegistryOK'
    BY <1>8 DEF TakeItem, RegistryOK
  <2>2. WorkersOK'
    BY <1>8, TakeFacts DEF TakeItem, WorkersOK, Answer, Run, IsRunning
  <2>3. ProducersOK'
    BY <1>8 DEF TakeItem, ProducersOK
  <2>4. HandlersOK'
    BY <1>8 DEF TakeItem, HandlersOK
  <2> QED
    BY <2>1, <2>2, <2>3, <2>4
<1>9. ASSUME NEW d \in Instances, HandlerReturns(d) PROVE TypeOK'
  <2>1. RegistryOK'
    BY <1>9 DEF HandlerReturns, RegistryOK
  <2>2. WorkersOK'
    BY <1>9 DEF HandlerReturns, WorkersOK, Answer, Run, IsRunning
  <2>3. ProducersOK'
    BY <1>9 DEF HandlerReturns, ProducersOK
  <2>4. HandlersOK'
    BY <1>9 DEF HandlerReturns, HandlersOK
  <2> QED
    BY <2>1, <2>2, <2>3, <2>4
<1>10. ASSUME NEW d \in Instances, LoopEnds(d) PROVE TypeOK'
  <2>1. RegistryOK'
    BY <1>10 DEF LoopEnds, RegistryOK
  <2>2. WorkersOK'
    BY <1>10 DEF LoopEnds, WorkersOK, Answer, Run, IsRunning
  <2>3. ProducersOK'
    BY <1>10 DEF LoopEnds, ProducersOK
  <2>4. HandlersOK'
    BY <1>10 DEF LoopEnds, HandlersOK
  <2> QED
    BY <2>1, <2>2, <2>3, <2>4
<1>11. ASSUME NEW d \in Instances, NEW h \in Handlers, WorkCompleted(d, h) PROVE TypeOK'
  <2>1. RegistryOK'
    BY <1>11 DEF WorkCompleted, RegistryOK
  <2>2. WorkersOK'
    BY <1>11 DEF WorkCompleted, WorkersOK, Answer, Run, IsRunning
  <2>3. ProducersOK'
    BY <1>11 DEF WorkCompleted, ProducersOK
  <2>4. HandlersOK'
    BY <1>11 DEF WorkCompleted, HandlersOK, EndHandler, GoOn, Nowhere, EntryKeys
  <2> QED
    BY <2>1, <2>2, <2>3, <2>4
<1>12. ASSUME NEW h \in Handlers, OnCompleted(h) PROVE TypeOK'
  <2>1. RegistryOK'
    BY <1>12 DEF OnCompleted, RegistryOK
  <2>2. WorkersOK'
    BY <1>12 DEF OnCompleted, WorkersOK, Answer, Run, IsRunning, HandlersOK
  <2>3. ProducersOK'
    BY <1>12 DEF OnCompleted, ProducersOK
  <2>4. HandlersOK'
    BY <1>12, EndHandlerType, GoOnType DEF OnCompleted
  <2> QED
    BY <2>1, <2>2, <2>3, <2>4
<1>13. ASSUME NEW h \in Handlers, CheckCount(h) PROVE TypeOK'
  <2>1. RegistryOK'
    BY <1>13 DEF CheckCount, RegistryOK
  <2>2. WorkersOK'
    BY <1>13 DEF CheckCount, WorkersOK
  <2>3. ProducersOK'
    BY <1>13 DEF CheckCount, ProducersOK
  <2>4. HandlersOK'
    BY <1>13 DEF CheckCount, HandlersOK, EndHandler, GoOn, Nowhere, EntryKeys
  <2> QED
    BY <2>1, <2>2, <2>3, <2>4
<1>14. ASSUME NEW h \in Handlers, FindEntry(h) PROVE TypeOK'
  <2>1. RegistryOK'
    BY <1>14 DEF FindEntry, RegistryOK
  <2>2. WorkersOK'
    BY <1>14 DEF FindEntry, WorkersOK
  <2>3. ProducersOK'
    BY <1>14 DEF FindEntry, ProducersOK
  <2>4. HandlersOK'
    BY <1>14 DEF FindEntry, HandlersOK, EndHandler, GoOn, Nowhere, EntryKeys, RegistryOK
  <2> QED
    BY <2>1, <2>2, <2>3, <2>4
<1>15. ASSUME NEW h \in Handlers, RemoveEntry(h) PROVE TypeOK'
  <2>1. RegistryOK'
    BY <1>15 DEF RemoveEntry, RegistryOK, Name, Nowhere, EntryKeys, BeginDispose, HandlersOK
  <2>2. WorkersOK'
    BY <1>15 DEF RemoveEntry, WorkersOK
  <2>3. ProducersOK'
    BY <1>15 DEF RemoveEntry, ProducersOK
  <2>4. HandlersOK'
    BY <1>15 DEF RemoveEntry, HandlersOK, EndHandler, GoOn, Nowhere, EntryKeys
  <2> QED
    BY <2>1, <2>2, <2>3, <2>4
<1>16. ASSUME NEW h \in Handlers, ReviveEntry(h) PROVE TypeOK'
  <2>1. RegistryOK'
    <3>1. CASE UNCHANGED <<entry, guids>>
      BY <1>16, <3>1 DEF ReviveEntry, RegistryOK
    <3>2. CASE ~UNCHANGED <<entry, guids>>
      <4>1. /\ guids[hinst[h]] < MaxGuid /\ hinst[h] \in Instances
            /\ entry' = [entry EXCEPT ![hinst[h]] = Name + guids[hinst[h]] + 1]
            /\ guids' = [guids EXCEPT ![hinst[h]] = @ + 1]
        BY <1>16, <3>2 DEF ReviveEntry, HandlersOK
      <4>2. guids[hinst[h]] + 1 \in 0..MaxGuid /\ Name + guids[hinst[h]] + 1 \in EntryKeys
        BY <4>1 DEF RegistryOK, Name, EntryKeys
      <4> QED
        BY <1>16, <4>1, <4>2 DEF ReviveEntry, RegistryOK
    <3> QED
      BY <3>1, <3>2
  <2>2. WorkersOK'
    BY <1>16 DEF ReviveEntry, WorkersOK
  <2>3. ProducersOK'
    BY <1>16 DEF ReviveEntry, ProducersOK
  <2>4. HandlersOK'
    BY <1>16, EndHandlerType, GoOnType DEF ReviveEntry
  <2> QED
    BY <2>1, <2>2, <2>3, <2>4
<1>17. ASSUME NEW h \in Handlers, DisposeDispatcher(h) PROVE TypeOK'
  <2>1. RegistryOK'
    BY <1>17 DEF DisposeDispatcher, RegistryOK, Name, Nowhere, EntryKeys, BeginDispose, HandlersOK
  <2>2. WorkersOK'
    BY <1>17 DEF DisposeDispatcher, WorkersOK
  <2>3. ProducersOK'
    BY <1>17 DEF DisposeDispatcher, ProducersOK
  <2>4. HandlersOK'
    BY <1>17 DEF DisposeDispatcher, HandlersOK, EndHandler, GoOn, Nowhere, EntryKeys
  <2> QED
    BY <2>1, <2>2, <2>3, <2>4
<1>18. ASSUME NEW d \in Instances, DisposeWorker(d) PROVE TypeOK'
  <2>1. RegistryOK'
    BY <1>18 DEF DisposeWorker, RegistryOK, Name, Nowhere, EntryKeys, BeginDispose
  <2>2. WorkersOK'
    BY <1>18 DEF DisposeWorker, WorkersOK
  <2>3. ProducersOK'
    BY <1>18 DEF DisposeWorker, ProducersOK
  <2>4. HandlersOK'
    BY <1>18 DEF DisposeWorker, HandlersOK
  <2> QED
    BY <2>1, <2>2, <2>3, <2>4
<1>19. ASSUME OwnerDisposes PROVE TypeOK'
  <2>1. RegistryOK'
    BY <1>19 DEF OwnerDisposes, RegistryOK, Name, Nowhere, EntryKeys, BeginDispose
  <2>2. WorkersOK'
    BY <1>19 DEF OwnerDisposes, WorkersOK
  <2>3. ProducersOK'
    BY <1>19 DEF OwnerDisposes, ProducersOK
  <2>4. HandlersOK'
    BY <1>19 DEF OwnerDisposes, HandlersOK
  <2> QED
    BY <2>1, <2>2, <2>3, <2>4
<1>20. ASSUME NEW d \in Instances, OwnerDisposesOne(d) PROVE TypeOK'
  <2>1. RegistryOK'
    BY <1>20 DEF OwnerDisposesOne, RegistryOK, Name, Nowhere, EntryKeys, BeginDispose
  <2>2. WorkersOK'
    BY <1>20 DEF OwnerDisposesOne, WorkersOK
  <2>3. ProducersOK'
    BY <1>20 DEF OwnerDisposesOne, ProducersOK
  <2>4. HandlersOK'
    BY <1>20 DEF OwnerDisposesOne, HandlersOK
  <2> QED
    BY <2>1, <2>2, <2>3, <2>4
<1>21. ASSUME OwnerClears PROVE TypeOK'
  <2>1. RegistryOK'
    BY <1>21 DEF OwnerClears, RegistryOK, Name, Nowhere, EntryKeys, BeginDispose
  <2>2. WorkersOK'
    BY <1>21 DEF OwnerClears, WorkersOK
  <2>3. ProducersOK'
    BY <1>21 DEF OwnerClears, ProducersOK
  <2>4. HandlersOK'
    BY <1>21 DEF OwnerClears, HandlersOK
  <2> QED
    BY <2>1, <2>2, <2>3, <2>4
<1>22. CASE UNCHANGED vars
  BY <1>22 DEF vars, RegistryOK, WorkersOK, ProducersOK, HandlersOK
<1> QED
  BY <1>1, <1>2, <1>3, <1>4, <1>5, <1>6, <1>7, <1>8, <1>9, <1>10, <1>11, <1>12,
     <1>13, <1>14, <1>15, <1>16, <1>17, <1>18, <1>19, <1>20, <1>21, <1>22
  DEF Next, Produce, Work, Complete, Close

(* A dispatcher that has no worker left gets none. *)
LEMMA GoneStaysGone ==
  ASSUME TypeOK, [Next]_vars, NEW e \in Instances, disposal[e] = "done"
  PROVE  disposal'[e] = "done"
<1> USE DEF TypeOK, RegistryOK
<1>1. ASSUME UNCHANGED disposal PROVE disposal'[e] = "done"
  BY <1>1
<1>2. ASSUME NEW p \in Producers, AddDispatcher(p) PROVE disposal'[e] = "done"
  BY <1>2 DEF AddDispatcher, BeginDispose
<1>3. ASSUME NEW h \in Handlers, DisposeDispatcher(h) PROVE disposal'[e] = "done"
  BY <1>3 DEF DisposeDispatcher, BeginDispose
<1>4. ASSUME NEW d \in Instances, DisposeWorker(d) PROVE disposal'[e] = "done"
  BY <1>4 DEF DisposeWorker, BeginDispose
<1>5. ASSUME NEW d \in Instances, OwnerDisposesOne(d) PROVE disposal'[e] = "done"
  BY <1>5 DEF OwnerDisposesOne, BeginDispose
<1> QED
  BY <1>1, <1>2, <1>3, <1>4, <1>5
  DEF Next, Produce, Work, Complete, Close, vars,
      FindDispatcher, RetryDispatcher, CheckDisposed, Put, CheckRunning, StartWorker, TakeItem, HandlerReturns, LoopEnds, WorkCompleted, OnCompleted, CheckCount, FindEntry, RemoveEntry, ReviveEntry, OwnerDisposes, OwnerClears

(* The work of a dispatcher is watched over by its worker, by a producer     *)
(* about to start it, or by the handler of its last completion.              *)
LEMMA StrandedStep == TypeOK /\ NothingStranded /\ [Next]_vars => NothingStranded'
<1> SUFFICES ASSUME TypeOK, NothingStranded, [Next]_vars, NEW e \in Instances,
                    queue'[e] # <<>>, disposal'[e] # "done"
             PROVE  Watched(e)'
  BY DEF NothingStranded
<1>0. disposal[e] # "done" /\ (queue[e] # <<>> => Watched(e))
  BY GoneStaysGone DEF NothingStranded
<1> USE DEF TypeOK, Watched, Starting, IsRunning, registry, workers, producers, handlers
<1>1. ASSUME NEW p \in Producers, NEW i \in Items, FindDispatcher(p, i) PROVE Watched(e)'
  BY <1>0, <1>1 DEF FindDispatcher, ProducersOK, Answer
<1>2. ASSUME NEW p \in Producers, AddDispatcher(p) PROVE Watched(e)'
  BY <1>0, <1>2 DEF AddDispatcher, ProducersOK, Answer
<1>3. ASSUME NEW p \in Producers, RetryDispatcher(p) PROVE Watched(e)'
  BY <1>0, <1>3 DEF RetryDispatcher, ProducersOK, Answer, WorkersOK, Run
<1>4. ASSUME NEW p \in Producers, CheckDisposed(p) PROVE Watched(e)'
  BY <1>0, <1>4 DEF CheckDisposed, ProducersOK, Answer, WorkersOK, Run
<1>5. ASSUME NEW p \in Producers, Put(p) PROVE Watched(e)'
  BY <1>0, <1>5 DEF Put, ProducersOK, Answer, WorkersOK, Run
<1>6. ASSUME NEW p \in Producers, CheckRunning(p) PROVE Watched(e)'
  BY <1>0, <1>6 DEF CheckRunning, ProducersOK, Answer, WorkersOK, Run
<1>7. ASSUME NEW p \in Producers, StartWorker(p) PROVE Watched(e)'
  BY <1>0, <1>7 DEF StartWorker, ProducersOK, Answer, WorkersOK, Run
<1>8. ASSUME NEW d \in Instances, TakeItem(d) PROVE Watched(e)'
  BY <1>0, <1>8 DEF TakeItem, WorkersOK, Run
<1>9. ASSUME NEW d \in Instances, HandlerReturns(d) PROVE Watched(e)'
  BY <1>0, <1>9 DEF HandlerReturns, WorkersOK, Run
<1>10. ASSUME NEW d \in Instances, LoopEnds(d) PROVE Watched(e)'
  BY <1>0, <1>10 DEF LoopEnds, WorkersOK, Run
<1>11. ASSUME NEW d \in Instances, NEW h \in Handlers, WorkCompleted(d, h) PROVE Watched(e)'
  BY <1>0, <1>11 DEF WorkCompleted, WorkersOK, Run, HandlersOK, EndHandler, GoOn
<1>12. ASSUME NEW h \in Handlers, OnCompleted(h) PROVE Watched(e)'
  BY <1>0, <1>12 DEF OnCompleted, WorkersOK, Run, HandlersOK, EndHandler, GoOn
<1>13. ASSUME NEW h \in Handlers, CheckCount(h) PROVE Watched(e)'
  BY <1>0, <1>13 DEF CheckCount, HandlersOK, EndHandler, GoOn
<1>14. ASSUME NEW h \in Handlers, FindEntry(h) PROVE Watched(e)'
  BY <1>0, <1>14 DEF FindEntry, HandlersOK, EndHandler, GoOn
<1>15. ASSUME NEW h \in Handlers, RemoveEntry(h) PROVE Watched(e)'
  BY <1>0, <1>15 DEF RemoveEntry, HandlersOK, EndHandler, GoOn
<1>16. ASSUME NEW h \in Handlers, ReviveEntry(h) PROVE Watched(e)'
  BY <1>0, <1>16 DEF ReviveEntry, HandlersOK, EndHandler, GoOn
<1>17. ASSUME NEW h \in Handlers, DisposeDispatcher(h) PROVE Watched(e)'
  BY <1>0, <1>17 DEF DisposeDispatcher, HandlersOK, EndHandler, GoOn
<1>18. ASSUME NEW d \in Instances, DisposeWorker(d) PROVE Watched(e)'
  BY <1>0, <1>18 DEF DisposeWorker
<1>19. ASSUME OwnerDisposes PROVE Watched(e)'
  BY <1>0, <1>19 DEF OwnerDisposes
<1>20. ASSUME NEW d \in Instances, OwnerDisposesOne(d) PROVE Watched(e)'
  BY <1>0, <1>20 DEF OwnerDisposesOne
<1>21. ASSUME OwnerClears PROVE Watched(e)'
  BY <1>0, <1>21 DEF OwnerClears
<1>22. CASE UNCHANGED vars
  BY <1>0, <1>22 DEF vars
<1> QED
  BY <1>1, <1>2, <1>3, <1>4, <1>5, <1>6, <1>7, <1>8, <1>9, <1>10, <1>11, <1>12,
     <1>13, <1>14, <1>15, <1>16, <1>17, <1>18, <1>19, <1>20, <1>21, <1>22
  DEF Next, Produce, Work, Complete, Close

THEOREM Invariance == Spec => [](TypeOK /\ NothingStranded)
<1>1. Init => NothingStranded
  BY DEF Init, NothingStranded
<1> QED
  BY <1>1, InitType, TypeStep, StrandedStep, PTL DEF Spec

(* Every variable keeps to its type, and a thread at work has a dispatcher   *)
(* and an item at hand.                                                      *)
THEOREM TypeCorrect == Spec => []TypeOK
BY Invariance, PTL

(* No item is forgotten in a queue, however Enqueue and OnCompleted cross.   *)
THEOREM NothingForgotten == Spec => []NothingStranded
BY Invariance, PTL

-------------------------------------------------------------------------------
(* Registration.                                                             *)
HeldByAdder(e) == \A q \in Producers : target[q] = e => pc[q] = "add"

(* Nobody but the producer that adds it reaches such a dispatcher.           *)
LEMMA UntouchedStep ==
  ASSUME TypeOK, [Next]_vars, NEW e \in Instances, Untouched(e), HeldByAdder(e)
  PROVE  Untouched(e)' \/ \E p \in Producers : target[p] = e /\ AddDispatcher(p)
<1> DEFINE Goal == Untouched(e)' \/ \E p \in Producers : target[p] = e /\ AddDispatcher(p)
<1> USE DEF TypeOK, Untouched, HeldByAdder, registry, workers, producers, handlers
<1>1. ASSUME NEW p \in Producers, NEW i \in Items, FindDispatcher(p, i) PROVE Goal
  BY <1>1 DEF FindDispatcher, ProducersOK, RegistryOK, WorkersOK, Answer, Run, IsRunning
<1>2. ASSUME NEW p \in Producers, AddDispatcher(p) PROVE Goal
  BY <1>2 DEF AddDispatcher, ProducersOK, RegistryOK, WorkersOK, Answer, Run, IsRunning
<1>3. ASSUME NEW p \in Producers, RetryDispatcher(p) PROVE Goal
  BY <1>3 DEF RetryDispatcher, ProducersOK, RegistryOK, WorkersOK, Answer, Run, IsRunning
<1>4. ASSUME NEW p \in Producers, CheckDisposed(p) PROVE Goal
  BY <1>4 DEF CheckDisposed, ProducersOK, RegistryOK, WorkersOK, Answer, Run, IsRunning
<1>5. ASSUME NEW p \in Producers, Put(p) PROVE Goal
  BY <1>5 DEF Put, ProducersOK, RegistryOK, WorkersOK, Answer, Run, IsRunning
<1>6. ASSUME NEW p \in Producers, CheckRunning(p) PROVE Goal
  BY <1>6 DEF CheckRunning, ProducersOK, RegistryOK, WorkersOK, Answer, Run, IsRunning
<1>7. ASSUME NEW p \in Producers, StartWorker(p) PROVE Goal
  BY <1>7 DEF StartWorker, ProducersOK, RegistryOK, WorkersOK, Answer, Run, IsRunning
<1>8. ASSUME NEW d \in Instances, TakeItem(d) PROVE Goal
  BY <1>8 DEF TakeItem, WorkersOK, HandlersOK, RegistryOK
<1>9. ASSUME NEW d \in Instances, HandlerReturns(d) PROVE Goal
  BY <1>9 DEF HandlerReturns, WorkersOK, HandlersOK, RegistryOK
<1>10. ASSUME NEW d \in Instances, LoopEnds(d) PROVE Goal
  BY <1>10 DEF LoopEnds, WorkersOK, HandlersOK, RegistryOK
<1>11. ASSUME NEW d \in Instances, NEW h \in Handlers, WorkCompleted(d, h) PROVE Goal
  BY <1>11 DEF WorkCompleted, WorkersOK, HandlersOK, RegistryOK
<1>12. ASSUME NEW h \in Handlers, OnCompleted(h) PROVE Goal
  BY <1>12 DEF OnCompleted, HandlersOK, RegistryOK, WorkersOK, Run, IsRunning, EndHandler, GoOn, BeginDispose
<1>13. ASSUME NEW h \in Handlers, CheckCount(h) PROVE Goal
  BY <1>13 DEF CheckCount, HandlersOK, RegistryOK, WorkersOK, Run, IsRunning, EndHandler, GoOn, BeginDispose
<1>14. ASSUME NEW h \in Handlers, FindEntry(h) PROVE Goal
  BY <1>14 DEF FindEntry, HandlersOK, RegistryOK, WorkersOK, Run, IsRunning, EndHandler, GoOn, BeginDispose
<1>15. ASSUME NEW h \in Handlers, RemoveEntry(h) PROVE Goal
  BY <1>15 DEF RemoveEntry, HandlersOK, RegistryOK, WorkersOK, Run, IsRunning, EndHandler, GoOn, BeginDispose
<1>16. ASSUME NEW h \in Handlers, ReviveEntry(h) PROVE Goal
  BY <1>16 DEF ReviveEntry, HandlersOK, RegistryOK, WorkersOK, Run, IsRunning, EndHandler, GoOn, BeginDispose
<1>17. ASSUME NEW h \in Handlers, DisposeDispatcher(h) PROVE Goal
  BY <1>17 DEF DisposeDispatcher, HandlersOK, RegistryOK, WorkersOK, Run, IsRunning, EndHandler, GoOn, BeginDispose
<1>18. ASSUME NEW d \in Instances, DisposeWorker(d) PROVE Goal
  BY <1>18 DEF DisposeWorker, RegistryOK
<1>19. ASSUME OwnerDisposes PROVE Goal
  BY <1>19 DEF OwnerDisposes, RegistryOK, BeginDispose
<1>20. ASSUME NEW d \in Instances, OwnerDisposesOne(d) PROVE Goal
  BY <1>20 DEF OwnerDisposesOne, RegistryOK, BeginDispose
<1>21. ASSUME OwnerClears PROVE Goal
  BY <1>21 DEF OwnerClears, RegistryOK, BeginDispose
<1>22. CASE UNCHANGED vars
  BY <1>22 DEF vars
<1> QED
  BY <1>1, <1>2, <1>3, <1>4, <1>5, <1>6, <1>7, <1>8, <1>9, <1>10, <1>11, <1>12,
     <1>13, <1>14, <1>15, <1>16, <1>17, <1>18, <1>19, <1>20, <1>21, <1>22
  DEF Next, Produce, Work, Complete, Close

LEMMA OwnersStep ==
  ASSUME TypeOK, OwnersOnly, [Next]_vars
  PROVE  OwnersOnly'
<1>a. born' \in SUBSET Instances /\ born \subseteq born' /\ TypeOK'
  <2>1. TypeOK'
    BY TypeStep
  <2> QED
    BY <2>1
    DEF Next, Produce, Work, Complete, Close, vars, TypeOK, RegistryOK, registry,
        FindDispatcher, AddDispatcher, RetryDispatcher, CheckDisposed, Put, CheckRunning, StartWorker,
        TakeItem, HandlerReturns, LoopEnds, WorkCompleted, OnCompleted, CheckCount, FindEntry,
        RemoveEntry, ReviveEntry, DisposeDispatcher, DisposeWorker, OwnerDisposes, OwnerDisposesOne,
        OwnerClears
(* Who comes to a dispatcher that way finds it registered or constructs it.  *)
<1>b. ASSUME NEW q \in Producers
      PROVE  \/ target'[q] = target[q] /\ (pc'[q] = "add" => pc[q] = "add")
             \/ target'[q] = None /\ pc'[q] # "add"
             \/ target'[q] \in Instances /\ entry[target'[q]] = Name /\ pc'[q] # "add"
             \/ /\ target'[q] \in Instances \ born /\ target'[q] \in born' /\ pc'[q] = "add"
                /\ \E i \in Items : FindDispatcher(q, i)
  <2> USE DEF TypeOK, ProducersOK, registry, workers, producers
  <2> DEFINE Goal == \/ target'[q] = target[q] /\ (pc'[q] = "add" => pc[q] = "add")
                     \/ target'[q] = None /\ pc'[q] # "add"
                     \/ target'[q] \in Instances /\ entry[target'[q]] = Name /\ pc'[q] # "add"
                     \/ /\ target'[q] \in Instances \ born /\ target'[q] \in born' /\ pc'[q] = "add"
                        /\ \E i \in Items : FindDispatcher(q, i)
  <2>1. ASSUME NEW p \in Producers, NEW i \in Items, FindDispatcher(p, i) PROVE Goal
    <3>1. CASE p = q
      <4>1. PICK d \in Instances :
              \/ entry[d] = Name /\ target' = [target EXCEPT ![p] = d] /\ pc' = [pc EXCEPT ![p] = "check"]
              \/ /\ d \notin born /\ born' = born \cup {d}
                 /\ target' = [target EXCEPT ![p] = d] /\ pc' = [pc EXCEPT ![p] = "add"]
        BY <2>1 DEF FindDispatcher
      <4> QED
        BY <2>1, <3>1, <4>1
    <3>2. CASE p # q
      BY <2>1, <3>2 DEF FindDispatcher
    <3> QED
      BY <3>1, <3>2
  <2>2. ASSUME NEW p \in Producers, AddDispatcher(p) PROVE Goal
    BY <2>2 DEF AddDispatcher
  <2>3. ASSUME NEW p \in Producers, RetryDispatcher(p) PROVE Goal
    BY <2>3 DEF RetryDispatcher, Answer
  <2>4. ASSUME NEW p \in Producers,
               CheckDisposed(p) \/ Put(p) \/ CheckRunning(p) \/ StartWorker(p) PROVE Goal
    BY <2>4 DEF CheckDisposed, Put, CheckRunning, StartWorker, Answer
  <2>5. ASSUME UNCHANGED producers PROVE Goal
    BY <2>5
  <2> QED
    BY <2>1, <2>2, <2>3, <2>4, <2>5
    DEF Next, Produce, Work, Complete, Close, vars,
        TakeItem, HandlerReturns, LoopEnds, WorkCompleted, OnCompleted, CheckCount, FindEntry,
        RemoveEntry, ReviveEntry, DisposeDispatcher, DisposeWorker, OwnerDisposes, OwnerDisposesOne,
        OwnerClears
<1>1. ASSUME NEW e \in Instances, e \notin born'
      PROVE  Untouched(e)' /\ \A p \in Producers : target'[p] # e
  <2>1. Untouched(e) /\ \A p \in Producers : target[p] # e
    BY <1>a, <1>1 DEF OwnersOnly
  <2>2. entry[e] # Name
    BY <2>1 DEF Untouched, Nowhere, Name
  <2>3. Untouched(e)'
    BY <2>1, UntouchedStep DEF HeldByAdder
  <2> QED
    BY <1>1, <1>b, <2>1, <2>2, <2>3, NoneAssumption
<1>2. ASSUME NEW p \in Producers, pc'[p] = "add", NEW e \in Instances, e = target'[p]
      PROVE  Untouched(e)' /\ \A q \in Producers \ {p} : target'[q] # e
  <2>1. CASE pc[p] = "add" /\ target'[p] = target[p]
    <3>1. Untouched(e) /\ \A q \in Producers \ {p} : target[q] # e
      BY <1>2, <2>1 DEF OwnersOnly
    <3>2. e \in born /\ entry[e] # Name
      BY <1>2, <2>1, <3>1 DEF OwnersOnly, Untouched, Nowhere, Name
    <3>3. HeldByAdder(e)
      BY <1>2, <2>1, <3>1 DEF HeldByAdder
    <3>4. ~AddDispatcher(p)
      BY <1>2 DEF AddDispatcher, TypeOK, ProducersOK
    <3>5. Untouched(e)'
      BY <1>2, <2>1, <3>1, <3>3, <3>4, UntouchedStep
    <3>6. \A q \in Producers \ {p} : target'[q] # e
      BY <1>b, <3>1, <3>2, NoneAssumption
    <3> QED
      BY <3>5, <3>6
  <2>2. CASE target'[p] \in Instances \ born /\ \E i \in Items : FindDispatcher(p, i)
    <3>1. Untouched(e) /\ \A q \in Producers : target[q] # e
      BY <1>2, <2>2 DEF OwnersOnly
    <3>2. Untouched(e)'
      BY <2>2, <3>1 DEF FindDispatcher, Untouched, workers, handlers
    <3>3. \A q \in Producers \ {p} : target'[q] = target[q]
      BY <2>2 DEF FindDispatcher, TypeOK, ProducersOK
    <3> QED
      BY <3>1, <3>2, <3>3
  <2> QED
    BY <1>2, <1>b, <2>1, <2>2
<1>3. ASSUME NEW p \in Producers, pc'[p] = "add"
      PROVE  target'[p] \in Instances
  BY <1>3, <1>b DEF TypeOK, ProducersOK
<1> QED
  BY <1>1, <1>2, <1>3 DEF OwnersOnly, Untouched

(* A registered dispatcher in use stays in use or is unregistered.           *)
LEMMA InUseStep ==
  ASSUME TypeOK, OwnersOnly, [Next]_vars, NEW e \in Instances, InUse(e), entry'[e] # Nowhere
  PROVE  InUse(e)'
<1> USE DEF TypeOK, InUse, IsRunning, registry, workers, producers, handlers
<1>h. ASSUME NEW h \in Handlers, UNCHANGED queue,
             \A d \in Instances : IsRunning(d) => IsRunning(d)',
             \A g \in Handlers \ {h} : hpc'[g] = hpc[g] /\ hinst'[g] = hinst[g] /\ hkey'[g] = hkey[g],
             entry'[e] = entry[e],
             hinst[h] = e /\ queue[e] = <<>> /\ ~IsRunning(e)
               /\ (hpc[h] \in {"completed", "count", "find"} \/ (hpc[h] = "remove" /\ hkey[h] = entry[e]))
               => /\ hinst'[h] = e
                  /\ \/ hpc'[h] \in {"completed", "count", "find"}
                     \/ (hpc'[h] = "remove" /\ hkey'[h] = entry[e])
      PROVE  InUse(e)'
  <2>1. CASE queue[e] # <<>> \/ IsRunning(e)
    BY <1>h, <2>1
  <2>2. CASE queue[e] = <<>> /\ ~IsRunning(e)
    <3>1. PICK g \in Handlers :
            /\ hinst[g] = e
            /\ hpc[g] \in {"completed", "count", "find"} \/ (hpc[g] = "remove" /\ hkey[g] = entry[e])
      BY <2>2
    <3>2. CASE g = h
      <4>1. /\ hinst'[h] = e
            /\ hpc'[h] \in {"completed", "count", "find"} \/ (hpc'[h] = "remove" /\ hkey'[h] = entry[e])
        BY <1>h, <2>2, <3>1, <3>2, Zenon
      <4>2. /\ hinst'[h] = e
            /\ hpc'[h] \in {"completed", "count", "find"} \/ (hpc'[h] = "remove" /\ hkey'[h] = entry'[e])
        BY <1>h, <4>1, Zenon
      <4> QED
        BY <4>2
    <3>3. CASE g # h
      <4>1. hpc'[g] = hpc[g] /\ hinst'[g] = hinst[g] /\ hkey'[g] = hkey[g]
        BY <1>h, <3>3, Zenon
      <4>2. /\ hinst'[g] = e
            /\ hpc'[g] \in {"completed", "count", "find"} \/ (hpc'[g] = "remove" /\ hkey'[g] = entry'[e])
        BY <1>h, <3>1, <4>1, Zenon
      <4> QED
        BY <4>2
    <3> QED
      BY <3>2, <3>3
  <2> QED
    BY <2>1, <2>2
<1>1. ASSUME NEW p \in Producers, NEW i \in Items, FindDispatcher(p, i) PROVE InUse(e)'
  BY <1>1 DEF FindDispatcher, ProducersOK, RegistryOK, WorkersOK, Answer, Run
<1>2. ASSUME NEW p \in Producers, AddDispatcher(p) PROVE InUse(e)'
  <2>1. CASE e = target[p]
    BY <1>2, <2>1 DEF AddDispatcher, OwnersOnly, Untouched
  <2>2. CASE e # target[p]
    BY <1>2, <2>2 DEF AddDispatcher, RegistryOK
  <2> QED
    BY <2>1, <2>2
<1>3. ASSUME NEW p \in Producers, RetryDispatcher(p) PROVE InUse(e)'
  BY <1>3 DEF RetryDispatcher, ProducersOK, RegistryOK, WorkersOK, Answer, Run
<1>4. ASSUME NEW p \in Producers, CheckDisposed(p) PROVE InUse(e)'
  BY <1>4 DEF CheckDisposed, ProducersOK, RegistryOK, WorkersOK, Answer, Run
<1>5. ASSUME NEW p \in Producers, Put(p) PROVE InUse(e)'
  <2>1. /\ UNCHANGED <<entry, worker, handlers>>
        /\ queue' = [queue EXCEPT ![target[p]] = Append(@, carried[p])]
    BY <1>5 DEF Put
  <2>2. queue[e] # <<>> => queue'[e] # <<>>
    BY <1>5, <2>1, AppendProperties DEF Put, ProducersOK, WorkersOK
  <2> QED
    BY <2>1, <2>2
<1>6. ASSUME NEW p \in Producers, CheckRunning(p) PROVE InUse(e)'
  BY <1>6 DEF CheckRunning, ProducersOK, RegistryOK, WorkersOK, Answer, Run
<1>7. ASSUME NEW p \in Producers, StartWorker(p) PROVE InUse(e)'
  BY <1>7 DEF StartWorker, ProducersOK, RegistryOK, WorkersOK, Answer, Run
<1>8. ASSUME NEW d \in Instances, TakeItem(d) PROVE InUse(e)'
  BY <1>8 DEF TakeItem, WorkersOK, HandlersOK
<1>9. ASSUME NEW d \in Instances, HandlerReturns(d) PROVE InUse(e)'
  BY <1>9 DEF HandlerReturns, WorkersOK, HandlersOK
<1>10. ASSUME NEW d \in Instances, LoopEnds(d) PROVE InUse(e)'
  BY <1>10 DEF LoopEnds, WorkersOK, HandlersOK
<1>11. ASSUME NEW d \in Instances, NEW h \in Handlers, WorkCompleted(d, h) PROVE InUse(e)'
  BY <1>11 DEF WorkCompleted, WorkersOK, HandlersOK
<1>12. ASSUME NEW h \in Handlers, OnCompleted(h) PROVE InUse(e)'
  <2>1. UNCHANGED <<queue, entry>> /\ hpc[h] = "completed"
        /\ (queue[hinst[h]] = <<>> => GoOn(h, "count"))
    BY <1>12 DEF OnCompleted
  <2>2. \A d \in Instances : IsRunning(d) => IsRunning(d)'
    BY <1>12 DEF OnCompleted, HandlersOK, WorkersOK, Run
  <2>3. \A g \in Handlers \ {h} : hpc'[g] = hpc[g] /\ hinst'[g] = hinst[g] /\ hkey'[g] = hkey[g]
    BY <1>12 DEF OnCompleted, HandlersOK, EndHandler, GoOn
  <2>4. hinst[h] = e /\ queue[e] = <<>> => hinst'[h] = e /\ hpc'[h] = "count"
    BY <2>1 DEF GoOn, HandlersOK
  <2> QED
    BY <1>h, <2>1, <2>2, <2>3, <2>4
<1>13. ASSUME NEW h \in Handlers, CheckCount(h) PROVE InUse(e)'
  <2>1. UNCHANGED <<queue, worker, entry>> /\ hpc[h] = "count"
        /\ (queue[hinst[h]] = <<>> => GoOn(h, "find"))
    BY <1>13 DEF CheckCount
  <2>2. \A g \in Handlers \ {h} : hpc'[g] = hpc[g] /\ hinst'[g] = hinst[g] /\ hkey'[g] = hkey[g]
    BY <1>13 DEF CheckCount, HandlersOK, EndHandler, GoOn
  <2>3. hinst[h] = e /\ queue[e] = <<>> => hinst'[h] = e /\ hpc'[h] = "find"
    BY <2>1 DEF GoOn, HandlersOK
  <2> QED
    BY <1>h, <2>1, <2>2, <2>3
<1>14. ASSUME NEW h \in Handlers, FindEntry(h) PROVE InUse(e)'
  BY <1>14 DEF FindEntry, HandlersOK, RegistryOK, WorkersOK, Run, EndHandler, GoOn, BeginDispose
<1>15. ASSUME NEW h \in Handlers, RemoveEntry(h) PROVE InUse(e)'
  <2>1. UNCHANGED <<queue, worker>> /\ hpc[h] = "remove"
        /\ (hinst[h] = e => hkey[h] # entry[e])
    BY <1>15 DEF RemoveEntry, HandlersOK, RegistryOK
  <2>2. \A g \in Handlers \ {h} : hpc'[g] = hpc[g] /\ hinst'[g] = hinst[g] /\ hkey'[g] = hkey[g]
    BY <1>15 DEF RemoveEntry, HandlersOK, GoOn
  <2>3. entry'[e] = entry[e]
    BY <1>15 DEF RemoveEntry, HandlersOK, RegistryOK
  <2> QED
    BY <1>h, <2>1, <2>2, <2>3
<1>16. ASSUME NEW h \in Handlers, ReviveEntry(h) PROVE InUse(e)'
  <2>1. UNCHANGED <<queue, worker>> /\ hpc[h] = "recount"
    BY <1>16 DEF ReviveEntry
  <2>2. \A g \in Handlers \ {h} : hpc'[g] = hpc[g] /\ hinst'[g] = hinst[g] /\ hkey'[g] = hkey[g]
    BY <1>16 DEF ReviveEntry, HandlersOK, EndHandler, GoOn
  <2>3. CASE hinst[h] = e /\ queue[e] # <<>>
    BY <2>1, <2>3
  <2>4. CASE hinst[h] # e \/ queue[e] = <<>>
    <3>1. entry'[e] = entry[e]
      BY <1>16, <2>4 DEF ReviveEntry, RegistryOK
    <3> QED
      BY <1>h, <2>1, <2>2, <3>1
  <2> QED
    BY <2>3, <2>4
<1>17. ASSUME NEW h \in Handlers, DisposeDispatcher(h) PROVE InUse(e)'
  BY <1>17 DEF DisposeDispatcher, HandlersOK, RegistryOK, WorkersOK, Run, EndHandler, GoOn, BeginDispose
<1>18. ASSUME NEW d \in Instances, DisposeWorker(d) PROVE InUse(e)'
  BY <1>18 DEF DisposeWorker
<1>19. ASSUME OwnerDisposes PROVE InUse(e)'
  BY <1>19 DEF OwnerDisposes
<1>20. ASSUME NEW d \in Instances, OwnerDisposesOne(d) PROVE InUse(e)'
  BY <1>20 DEF OwnerDisposesOne
<1>21. ASSUME OwnerClears PROVE InUse(e)'
  BY <1>21 DEF OwnerClears
<1>22. CASE UNCHANGED vars
  BY <1>22 DEF vars
<1> QED
  BY <1>1, <1>2, <1>3, <1>4, <1>5, <1>6, <1>7, <1>8, <1>9, <1>10, <1>11, <1>12,
     <1>13, <1>14, <1>15, <1>16, <1>17, <1>18, <1>19, <1>20, <1>21, <1>22
  DEF Next, Produce, Work, Complete, Close

(* One that was added gets its first item.                                   *)
LEMMA FirstItemStep ==
  ASSUME TypeOK, OwnersOnly, [Next]_vars, NEW e \in Instances, FirstItemComes(e), owner' = "up"
  PROVE  FirstItemComes(e)' \/ InUse(e)'
<1> DEFINE Goal == FirstItemComes(e)' \/ InUse(e)'
<1> USE DEF TypeOK, FirstItemComes, registry, workers, producers, handlers
<1>1. ASSUME NEW p \in Producers, NEW i \in Items, FindDispatcher(p, i) PROVE Goal
  BY <1>1 DEF FindDispatcher, ProducersOK, RegistryOK, WorkersOK, Answer, InUse
<1>2. ASSUME NEW p \in Producers, AddDispatcher(p) PROVE Goal
  <2>1. e # target[p]
    BY <1>2 DEF AddDispatcher, OwnersOnly
  <2> QED
    BY <1>2, <2>1 DEF AddDispatcher, ProducersOK, RegistryOK
<1>3. ASSUME NEW p \in Producers, RetryDispatcher(p) PROVE Goal
  BY <1>3 DEF RetryDispatcher, ProducersOK, RegistryOK, WorkersOK, Answer, InUse
<1>4. ASSUME NEW p \in Producers, CheckDisposed(p) PROVE Goal
  BY <1>4 DEF CheckDisposed, ProducersOK, RegistryOK, WorkersOK, Answer, InUse
<1>5. ASSUME NEW p \in Producers, Put(p) PROVE Goal
  <2>1. /\ UNCHANGED <<disposal, target, handlers>>
        /\ queue' = [queue EXCEPT ![target[p]] = Append(@, carried[p])]
        /\ pc' = [pc EXCEPT ![p] = "poke"] /\ pc[p] = "put"
    BY <1>5 DEF Put
  <2>2. CASE target[p] = e
    <3>1. carried[p] \in Items /\ queue \in [Instances -> Seq(Items)]
      BY <2>1 DEF ProducersOK, WorkersOK
    <3>2. Append(queue[e], carried[p]) # <<>>
      BY <3>1, AppendProperties
    <3>3. queue'[e] # <<>>
      BY <2>1, <2>2, <3>1, <3>2
    <3> QED
      BY <3>3 DEF InUse
  <2>3. CASE target[p] # e
    BY <2>1, <2>3 DEF ProducersOK
  <2> QED
    BY <2>2, <2>3
<1>6. ASSUME NEW p \in Producers, CheckRunning(p) PROVE Goal
  BY <1>6 DEF CheckRunning, ProducersOK, RegistryOK, WorkersOK, Answer, InUse
<1>7. ASSUME NEW p \in Producers, StartWorker(p) PROVE Goal
  BY <1>7 DEF StartWorker, ProducersOK, RegistryOK, WorkersOK, Answer, InUse
<1>8. ASSUME NEW d \in Instances, TakeItem(d) PROVE Goal
  BY <1>8 DEF TakeItem, WorkersOK, HandlersOK, InUse
<1>9. ASSUME NEW d \in Instances, HandlerReturns(d) PROVE Goal
  BY <1>9 DEF HandlerReturns, WorkersOK, HandlersOK, InUse
<1>10. ASSUME NEW d \in Instances, LoopEnds(d) PROVE Goal
  BY <1>10 DEF LoopEnds, WorkersOK, HandlersOK, InUse
<1>11. ASSUME NEW d \in Instances, NEW h \in Handlers, WorkCompleted(d, h) PROVE Goal
  BY <1>11 DEF WorkCompleted, WorkersOK, HandlersOK, InUse
<1>12. ASSUME NEW h \in Handlers, OnCompleted(h) PROVE Goal
  BY <1>12 DEF OnCompleted, HandlersOK, RegistryOK, EndHandler, GoOn, BeginDispose
<1>13. ASSUME NEW h \in Handlers, CheckCount(h) PROVE Goal
  BY <1>13 DEF CheckCount, HandlersOK, RegistryOK, EndHandler, GoOn, BeginDispose
<1>14. ASSUME NEW h \in Handlers, FindEntry(h) PROVE Goal
  BY <1>14 DEF FindEntry, HandlersOK, RegistryOK, EndHandler, GoOn, BeginDispose
<1>15. ASSUME NEW h \in Handlers, RemoveEntry(h) PROVE Goal
  BY <1>15 DEF RemoveEntry, HandlersOK, RegistryOK, EndHandler, GoOn, BeginDispose
<1>16. ASSUME NEW h \in Handlers, ReviveEntry(h) PROVE Goal
  BY <1>16 DEF ReviveEntry, HandlersOK, RegistryOK, EndHandler, GoOn, BeginDispose
<1>17. ASSUME NEW h \in Handlers, DisposeDispatcher(h) PROVE Goal
  BY <1>17 DEF DisposeDispatcher, HandlersOK, RegistryOK, EndHandler, GoOn, BeginDispose
<1>18. ASSUME NEW d \in Instances, DisposeWorker(d) PROVE Goal
  BY <1>18 DEF DisposeWorker, RegistryOK
<1>19. ASSUME OwnerDisposes PROVE Goal
  BY <1>19 DEF OwnerDisposes, RegistryOK, BeginDispose
<1>20. ASSUME NEW d \in Instances, OwnerDisposesOne(d) PROVE Goal
  BY <1>20 DEF OwnerDisposesOne, RegistryOK, BeginDispose
<1>21. ASSUME OwnerClears PROVE Goal
  BY <1>21 DEF OwnerClears, RegistryOK, BeginDispose
<1>22. CASE UNCHANGED vars
  BY <1>22 DEF vars
<1> QED
  BY <1>1, <1>2, <1>3, <1>4, <1>5, <1>6, <1>7, <1>8, <1>9, <1>10, <1>11, <1>12,
     <1>13, <1>14, <1>15, <1>16, <1>17, <1>18, <1>19, <1>20, <1>21, <1>22
  DEF Next, Produce, Work, Complete, Close

LEMMA RegisteredStep ==
  ASSUME TypeOK, OwnersOnly, RegisteredInv, [Next]_vars
  PROVE  RegisteredInv'
<1> SUFFICES ASSUME NEW e \in Instances, owner' = "up", entry'[e] # Nowhere
             PROVE  FirstItemComes(e)' \/ InUse(e)'
  BY DEF RegisteredInv
<1>1. owner = "up"
  BY DEF Next, Produce, Work, Complete, Close, vars,
      FindDispatcher, AddDispatcher, RetryDispatcher, CheckDisposed, Put, CheckRunning, StartWorker,
      TakeItem, HandlerReturns, LoopEnds, WorkCompleted, OnCompleted, CheckCount, FindEntry,
      RemoveEntry, ReviveEntry, DisposeDispatcher, DisposeWorker, OwnerDisposes, OwnerDisposesOne,
      OwnerClears
<1>2. CASE entry[e] # Nowhere
  BY <1>1, <1>2, InUseStep, FirstItemStep DEF RegisteredInv
<1>3. CASE entry[e] = Nowhere
  <2>1. ASSUME NEW p \in Producers, AddDispatcher(p) PROVE FirstItemComes(e)'
    <3>1. e = target[p] /\ entry' = [entry EXCEPT ![target[p]] = Name]
      BY <1>3, <2>1 DEF AddDispatcher, TypeOK, RegistryOK
    <3>2. Untouched(e)
      BY <2>1, <3>1 DEF AddDispatcher, OwnersOnly
    <3>3. UNCHANGED <<target, disposal, hinst>> /\ pc' = [pc EXCEPT ![p] = "check"]
      BY <1>3, <2>1 DEF AddDispatcher, handlers
    <3> QED
      BY <3>1, <3>2, <3>3 DEF FirstItemComes, Untouched, TypeOK, ProducersOK
  <2>2. ASSUME NEW h \in Handlers, ReviveEntry(h) PROVE InUse(e)'
    BY <1>3, <2>2 DEF ReviveEntry, InUse, workers, TypeOK, RegistryOK
  <2>3. ASSUME NEW h \in Handlers, RemoveEntry(h) PROVE FALSE
    BY <1>3, <2>3 DEF RemoveEntry, TypeOK, RegistryOK
  <2>4. ASSUME OwnerClears PROVE FALSE
    BY <2>4 DEF OwnerClears
  <2>5. ASSUME UNCHANGED entry PROVE FALSE
    BY <1>3, <2>5
  <2> QED
    BY <2>1, <2>2, <2>3, <2>4, <2>5
    DEF Next, Produce, Work, Complete, Close, vars, registry,
        FindDispatcher, RetryDispatcher, CheckDisposed, Put, CheckRunning, StartWorker,
        TakeItem, HandlerReturns, LoopEnds, WorkCompleted, OnCompleted, CheckCount, FindEntry,
        DisposeDispatcher, DisposeWorker, OwnerDisposes, OwnerDisposesOne
<1> QED
  BY <1>2, <1>3

(* KeyedDispatcher.IdleUnregistered: no idle dispatcher stays registered,    *)
(* under its key or a generated one: a producer brings its first item, and   *)
(* from then on there is an item, a worker or a handler that will find the   *)
(* entry it is under.                                                        *)
THEOREM IdleIsUnregistered == Spec => []IdleUnregistered
<1>1. Init => OwnersOnly /\ RegisteredInv
  BY NoneAssumption DEF Init, OwnersOnly, RegisteredInv, Untouched
<1>2. TypeOK /\ OwnersOnly /\ RegisteredInv /\ [Next]_vars => OwnersOnly' /\ RegisteredInv'
  BY OwnersStep, RegisteredStep
<1>3. RegisteredInv => IdleUnregistered
  BY DEF RegisteredInv, IdleUnregistered, FirstItemComes, InUse, Handling
<1> QED
  BY InitType, TypeStep, <1>1, <1>2, <1>3, PTL DEF Spec
-------------------------------------------------------------------------------
(* The queues.                                                               *)
LEMMA AppendQueue ==
  ASSUME NEW s \in Seq(Items), NEW x \in Items
  PROVE  /\ \A i : (\E n \in 1..Len(Append(s, x)) : Append(s, x)[n] = i)
                      <=> (i = x \/ \E n \in 1..Len(s) : s[n] = i)
<1>1. /\ Len(s) \in Nat /\ Len(Append(s, x)) = Len(s) + 1
      /\ \A n \in 1..Len(s) : Append(s, x)[n] = s[n]
      /\ Append(s, x)[Len(s) + 1] = x
  BY AppendProperties, LenProperties
<1>2. \A n \in 1..Len(s) + 1 : n \in 1..Len(s) \/ n = Len(s) + 1
  BY <1>1
<1>3. ASSUME NEW i
      PROVE  (\E n \in 1..Len(Append(s, x)) : Append(s, x)[n] = i)
                <=> (i = x \/ \E n \in 1..Len(s) : s[n] = i)
  <2>1. Len(s) + 1 \in 1..Len(Append(s, x)) /\ 1..Len(s) \subseteq 1..Len(Append(s, x))
    BY <1>1
  <2> QED
    BY <1>1, <1>2, <2>1
<1> QED
  BY <1>3

LEMMA AppendOnce ==
  ASSUME NEW s \in Seq(Items), NEW x \in Items,
         \A m, n \in 1..Len(s) : s[m] = s[n] => m = n, \A n \in 1..Len(s) : s[n] # x
  PROVE  \A m, n \in 1..Len(Append(s, x)) : Append(s, x)[m] = Append(s, x)[n] => m = n
<1>1. /\ Len(s) \in Nat /\ Len(Append(s, x)) = Len(s) + 1
      /\ \A n \in 1..Len(s) : Append(s, x)[n] = s[n]
      /\ Append(s, x)[Len(s) + 1] = x
  BY AppendProperties, LenProperties
<1>2. \A n \in 1..Len(s) + 1 : n \in 1..Len(s) \/ n = Len(s) + 1
  BY <1>1
<1> QED
  BY <1>1, <1>2

LEMMA TailQueue ==
  ASSUME NEW s \in Seq(Items), s # <<>>, \A m, n \in 1..Len(s) : s[m] = s[n] => m = n
  PROVE  /\ \E n \in 1..Len(s) : s[n] = Head(s)
         /\ \A i : (\E n \in 1..Len(Tail(s)) : Tail(s)[n] = i)
                      <=> (i # Head(s) /\ \E n \in 1..Len(s) : s[n] = i)
         /\ \A m, n \in 1..Len(Tail(s)) : Tail(s)[m] = Tail(s)[n] => m = n
<1>1. /\ Len(s) \in Nat /\ Len(s) >= 1 /\ Len(Tail(s)) = Len(s) - 1 /\ Head(s) = s[1]
      /\ \A n \in 1..Len(Tail(s)) : Tail(s)[n] = s[n + 1]
  BY HeadTailProperties, LenProperties, EmptySeq
<1>2. \A n \in 1..Len(s) : n = 1 \/ (n - 1 \in 1..Len(Tail(s)) /\ Tail(s)[n - 1] = s[n])
  BY <1>1
<1>3. \A n \in 1..Len(Tail(s)) : n + 1 \in 1..Len(s) /\ n + 1 # 1
  BY <1>1
<1>4. 1 \in 1..Len(s)
  BY <1>1
<1>5. ASSUME NEW i
      PROVE  (\E n \in 1..Len(Tail(s)) : Tail(s)[n] = i)
                <=> (i # Head(s) /\ \E n \in 1..Len(s) : s[n] = i)
  BY <1>1, <1>2, <1>3, <1>4
<1>6. ASSUME NEW m \in 1..Len(Tail(s)), NEW n \in 1..Len(Tail(s)), Tail(s)[m] = Tail(s)[n]
      PROVE  m = n
  <2>1. m + 1 = n + 1
    BY <1>1, <1>3, <1>6
  <2> QED
    BY <2>1
<1> QED
  BY <1>1, <1>4, <1>5, <1>6

LEMMA InQueuePut ==
  ASSUME NEW d, queue[d] \in Seq(Items), NEW i \in Items, queue'[d] = Append(queue[d], i)
  PROVE  \A j : InQueue(d, j)' <=> j = i \/ InQueue(d, j)
<1>1. \A j : (\E n \in 1..Len(Append(queue[d], i)) : Append(queue[d], i)[n] = j)
                <=> (j = i \/ \E n \in 1..Len(queue[d]) : queue[d][n] = j)
  BY AppendQueue
<1> QED
  BY <1>1 DEF InQueue

LEMMA InQueueTaken ==
  ASSUME NEW d, queue[d] \in Seq(Items), queue[d] # <<>>, queue'[d] = Tail(queue[d]),
         \A m, n \in 1..Len(queue[d]) : queue[d][m] = queue[d][n] => m = n
  PROVE  \A j : InQueue(d, j)' <=> j # Head(queue[d]) /\ InQueue(d, j)
<1>1. \A j : (\E n \in 1..Len(Tail(queue[d])) : Tail(queue[d])[n] = j)
                <=> (j # Head(queue[d]) /\ \E n \in 1..Len(queue[d]) : queue[d][n] = j)
  BY TailQueue
<1> QED
  BY <1>1 DEF InQueue

LEMMA ItemsInit == Init => ItemsInv
BY DEF Init, ItemsInv, Unseen, InQueue

(* An item is in one place at a time.                                        *)
LEMMA ItemsStep == TypeOK /\ ItemsInv /\ [Next]_vars => ItemsInv'
<1> SUFFICES ASSUME TypeOK, ItemsInv, [Next]_vars PROVE ItemsInv'
  OBVIOUS
<1> USE DEF registry, workers, producers, handlers
<1>0. WorkersOK /\ ProducersOK
  BY DEF TypeOK
<1>1. ASSUME UNCHANGED <<queue, current, done>>,
             \A d \in Instances : worker'[d] = "working" <=> worker[d] = "working",
             \A i \in Items :
                (answer'[i] = "none" /\ \A p \in Producers : carried'[p] = i => pc'[p] \notin {"poke", "run"})
                   => Unseen(i),
             \A p \in Producers : carried'[p] # None =>
                answer'[carried'[p]] = "none" /\ \A q \in Producers \ {p} : carried'[q] # carried'[p]
      PROVE  ItemsInv'
  <2>1. \A i : Unseen(i)' <=> Unseen(i)
    BY <1>1 DEF Unseen, InQueue
  <2>2. \A d, i : InQueue(d, i)' <=> InQueue(d, i)
    BY <1>1 DEF InQueue
  <2> QED
    BY <1>1, <2>1, <2>2 DEF ItemsInv
<1>2. ASSUME UNCHANGED <<queue, current, done, answer, carried>>,
             \A d \in Instances : worker'[d] = "working" <=> worker[d] = "working",
             \A p \in Producers : pc[p] \in {"poke", "run"} => pc'[p] \in {"poke", "run"}
      PROVE  ItemsInv'
  <2>1. \A i \in Items :
           (answer'[i] = "none" /\ \A p \in Producers : carried'[p] = i => pc'[p] \notin {"poke", "run"})
              => Unseen(i)
    BY <1>2 DEF ItemsInv
  <2>2. \A p \in Producers : carried'[p] # None =>
           answer'[carried'[p]] = "none" /\ \A q \in Producers \ {p} : carried'[q] # carried'[p]
    BY <1>2 DEF ItemsInv
  <2> QED
    BY <1>1, <1>2, <2>1, <2>2
<1>3. ASSUME UNCHANGED <<queue, current, done>>,
             \A d \in Instances : worker'[d] = "working" <=> worker[d] = "working",
             NEW p \in Producers, pc[p] # "idle", NEW a, a # "none", Answer(p, a)
      PROVE  ItemsInv'
  <2>1. carried[p] \in Items /\ carried[p] # None
    BY <1>0, <1>3 DEF ProducersOK
  <2>2. /\ answer' = [answer EXCEPT ![carried[p]] = a] /\ pc' = [pc EXCEPT ![p] = "idle"]
        /\ carried' = [carried EXCEPT ![p] = None]
    BY <1>3 DEF Answer
  <2>3. /\ answer'[carried[p]] # "none" /\ \A i \in Items : i # carried[p] => answer'[i] = answer[i]
        /\ carried'[p] = None
        /\ \A q \in Producers : q # p => carried'[q] = carried[q] /\ pc'[q] = pc[q]
    BY <1>0, <1>3, <2>1, <2>2 DEF WorkersOK, ProducersOK
  <2>4. ASSUME NEW i \in Items, answer'[i] = "none",
               \A q \in Producers : carried'[q] = i => pc'[q] \notin {"poke", "run"}
        PROVE  Unseen(i)
    <3>1. i # carried[p] /\ answer[i] = "none"
      BY <2>3, <2>4
    <3>2. \A q \in Producers : carried[q] = i => pc[q] \notin {"poke", "run"}
      BY <2>3, <2>4, <3>1
    <3> QED
      BY <3>1, <3>2 DEF ItemsInv
  <2>5. ASSUME NEW q \in Producers, carried'[q] # None
        PROVE  answer'[carried'[q]] = "none" /\ \A u \in Producers \ {q} : carried'[u] # carried'[q]
    <3>1. q # p /\ carried'[q] = carried[q] /\ carried[q] \in Items /\ carried[q] # carried[p]
      BY <1>0, <2>1, <2>3, <2>5 DEF ItemsInv, ProducersOK
    <3>2. answer[carried[q]] = "none" /\ \A u \in Producers \ {q} : carried[u] # carried[q]
      BY <2>5, <3>1 DEF ItemsInv
    <3> QED
      BY <2>3, <2>5, <3>1, <3>2
  <2> QED
    BY <1>1, <1>3, <2>4, <2>5
<1>4. ASSUME NEW p \in Producers, NEW i \in Items, FindDispatcher(p, i) PROVE ItemsInv'
  <2>1. /\ UNCHANGED <<queue, current, done, worker, answer>>
        /\ carried' = [carried EXCEPT ![p] = i]
        /\ pc[p] = "idle" /\ answer[i] = "none" /\ \A q \in Producers : carried[q] # i
    BY <1>4 DEF FindDispatcher
  <2>2. \E step \in {"check", "add"} : pc' = [pc EXCEPT ![p] = step]
    BY <1>4 DEF FindDispatcher
  <2>3. /\ carried'[p] = i /\ pc'[p] \in {"check", "add"}
        /\ \A q \in Producers : q # p => carried'[q] = carried[q] /\ pc'[q] = pc[q]
    BY <1>0, <2>1, <2>2 DEF ProducersOK
  <2>4. ASSUME NEW x \in Items, answer'[x] = "none",
               \A q \in Producers : carried'[q] = x => pc'[q] \notin {"poke", "run"}
        PROVE  Unseen(x)
    <3>1. \A q \in Producers : carried[q] = x => pc[q] \notin {"poke", "run"}
      BY <2>1, <2>3, <2>4
    <3> QED
      BY <2>1, <2>4, <3>1 DEF ItemsInv
  <2>5. ASSUME NEW q \in Producers, carried'[q] # None
        PROVE  answer'[carried'[q]] = "none" /\ \A u \in Producers \ {q} : carried'[u] # carried'[q]
    BY <2>1, <2>3, <2>5 DEF ItemsInv
  <2> QED
    BY <1>1, <2>1, <2>4, <2>5
<1>5. ASSUME NEW p \in Producers,
             AddDispatcher(p) \/ RetryDispatcher(p) \/ CheckDisposed(p) \/ CheckRunning(p)
      PROVE  ItemsInv'
  <2>1. UNCHANGED <<queue, current, done, worker>> /\ pc[p] # "idle"
    BY <1>5 DEF AddDispatcher, RetryDispatcher, CheckDisposed, CheckRunning
  <2>2. ASSUME UNCHANGED <<answer, carried>>, NEW step, pc' = [pc EXCEPT ![p] = step],
               pc[p] \in {"poke", "run"} => step \in {"poke", "run"}
        PROVE  ItemsInv'
    BY <1>0, <1>2, <2>1, <2>2 DEF ProducersOK
  <2>3. CASE AddDispatcher(p)
    BY <2>2, <2>3 DEF AddDispatcher
  <2>4. CASE RetryDispatcher(p)
    BY <1>3, <2>1, <2>2, <2>4 DEF RetryDispatcher
  <2>5. CASE CheckDisposed(p)
    BY <1>3, <2>1, <2>2, <2>5 DEF CheckDisposed
  <2>6. CASE CheckRunning(p)
    BY <1>3, <2>1, <2>2, <2>6 DEF CheckRunning
  <2> QED
    BY <1>5, <2>3, <2>4, <2>5, <2>6
<1>6. ASSUME NEW d, Run(d) PROVE \A e \in Instances : worker'[e] = "working" <=> worker[e] = "working"
  BY <1>0, <1>6 DEF Run, IsRunning, WorkersOK
<1>7. ASSUME NEW p \in Producers, StartWorker(p) PROVE ItemsInv'
  <2>1. UNCHANGED <<queue, current, done>> /\ pc[p] # "idle" /\ Answer(p, "true") /\ Run(target[p])
    BY <1>7 DEF StartWorker
  <2> QED
    BY <1>3, <1>6, <2>1
<1>8. ASSUME NEW p \in Producers, Put(p) PROVE ItemsInv'
  <2> PICK d \in Instances, i \in Items : d = target[p] /\ i = carried[p]
    BY <1>0, <1>8 DEF Put, ProducersOK
  <2>1. /\ UNCHANGED <<worker, current, done, answer, carried>>
        /\ queue'[d] = Append(queue[d], i) /\ queue[d] \in Seq(Items)
        /\ \A e \in Instances : e # d => queue'[e] = queue[e]
        /\ pc[p] = "put" /\ pc'[p] = "poke" /\ \A q \in Producers : q # p => pc'[q] = pc[q]
    BY <1>0, <1>8 DEF Put, WorkersOK, ProducersOK
  <2>2. answer[i] = "none" /\ \A q \in Producers \ {p} : carried[q] # i
    BY NoneAssumption DEF ItemsInv
  <2>3. Unseen(i)
    BY <2>1, <2>2 DEF ItemsInv
  <2>4. \A j : InQueue(d, j)' <=> j = i \/ InQueue(d, j)
    BY <2>1, InQueuePut
  <2>5. \A e \in Instances : \A j : e # d => (InQueue(e, j)' <=> InQueue(e, j))
    BY <2>1 DEF InQueue
  <2>6. ASSUME NEW x \in Items, answer'[x] = "none",
               \A q \in Producers : carried'[q] = x => pc'[q] \notin {"poke", "run"}
        PROVE  Unseen(x)'
    <3>1. x # i
      BY <2>1, <2>6
    <3>2. \A q \in Producers : carried[q] = x => pc[q] \notin {"poke", "run"}
      BY <2>1, <2>6, <3>1
    <3>3. Unseen(x)
      BY <2>1, <2>6, <3>2 DEF ItemsInv
    <3> QED
      BY <2>1, <2>4, <2>5, <3>1, <3>3 DEF Unseen
  <2>7. ASSUME NEW e \in Instances, NEW m \in 1..Len(queue'[e]), NEW n \in 1..Len(queue'[e]),
               queue'[e][m] = queue'[e][n]
        PROVE  m = n
    <3>1. CASE e # d
      BY <2>1, <2>7, <3>1 DEF ItemsInv
    <3>2. CASE e = d
      <4>1. \A k \in 1..Len(queue[d]) : queue[d][k] # i
        BY <2>3 DEF Unseen, InQueue
      <4>2. \A k, l \in 1..Len(queue[d]) : queue[d][k] = queue[d][l] => k = l
        BY DEF ItemsInv
      <4>3. \A k, l \in 1..Len(Append(queue[d], i)) :
               Append(queue[d], i)[k] = Append(queue[d], i)[l] => k = l
        BY <2>1, <4>1, <4>2, AppendOnce
      <4> QED
        BY <2>1, <2>7, <3>2, <4>3
    <3> QED
      BY <3>1, <3>2
  <2>8. ASSUME NEW e \in Instances, NEW j \in Items, InQueue(e, j)'
        PROVE  done[j] = None /\ \A g \in Instances : current[g] # j /\ (InQueue(g, j)' => g = e)
    <3>1. CASE j = i
      <4>1. \A g \in Instances : InQueue(g, j)' => g = d
        BY <2>3, <2>5, <3>1 DEF Unseen
      <4> QED
        BY <2>3, <2>8, <3>1, <4>1 DEF Unseen
    <3>2. CASE j # i
      <4>1. \A g \in Instances : InQueue(g, j)' <=> InQueue(g, j)
        BY <2>4, <2>5, <3>2
      <4> QED
        BY <2>8, <4>1 DEF ItemsInv
    <3> QED
      BY <3>1, <3>2
  <2> QED
    BY <2>1, <2>6, <2>7, <2>8 DEF ItemsInv
<1>9. ASSUME NEW d \in Instances, TakeItem(d) PROVE ItemsInv'
  <2> PICK i : i = Head(queue[d])
    OBVIOUS
  <2>1. /\ UNCHANGED <<done, answer, carried, pc>>
        /\ worker[d] = "dequeue" /\ worker'[d] = "working" /\ current'[d] = i
        /\ queue[d] # <<>> /\ queue[d] \in Seq(Items) /\ queue'[d] = Tail(queue[d])
        /\ \A e \in Instances : e # d =>
              queue'[e] = queue[e] /\ worker'[e] = worker[e] /\ current'[e] = current[e]
    BY <1>0, <1>9 DEF TakeItem, WorkersOK
  <2>2. current[d] = None /\ i \in Items /\ i # None
    BY <2>1, TakeFacts, NoneAssumption DEF ItemsInv
  <2>3. \A m, n \in 1..Len(queue[d]) : queue[d][m] = queue[d][n] => m = n
    BY DEF ItemsInv
  <2>4. InQueue(d, i)
    BY <2>1, <2>3, TailQueue DEF InQueue
  <2>5. \A j : InQueue(d, j)' <=> j # i /\ InQueue(d, j)
    BY <2>1, <2>3, InQueueTaken
  <2>6. \A e \in Instances : \A j : e # d => (InQueue(e, j)' <=> InQueue(e, j))
    BY <2>1 DEF InQueue
  <2>7. done[i] = None /\ \A e \in Instances : current[e] # i /\ (InQueue(e, i) => e = d)
    BY <2>2, <2>4 DEF ItemsInv
  <2>8. ASSUME NEW x \in Items, answer'[x] = "none",
               \A q \in Producers : carried'[q] = x => pc'[q] \notin {"poke", "run"}
        PROVE  Unseen(x)'
    <3>1. Unseen(x)
      BY <2>1, <2>8 DEF ItemsInv
    <3>2. x # i
      BY <2>4, <3>1 DEF Unseen
    <3> QED
      BY <2>1, <2>5, <2>6, <3>1, <3>2 DEF Unseen
  <2>9. ASSUME NEW e \in Instances, NEW m \in 1..Len(queue'[e]), NEW n \in 1..Len(queue'[e]),
               queue'[e][m] = queue'[e][n]
        PROVE  m = n
    <3>1. CASE e # d
      BY <2>1, <2>9, <3>1 DEF ItemsInv
    <3>2. CASE e = d
      <4>1. \A k, l \in 1..Len(Tail(queue[d])) : Tail(queue[d])[k] = Tail(queue[d])[l] => k = l
        BY <2>1, <2>3, TailQueue
      <4> QED
        BY <2>1, <2>9, <3>2, <4>1
    <3> QED
      BY <3>1, <3>2
  <2>10. ASSUME NEW e \in Instances, NEW j \in Items, InQueue(e, j)'
         PROVE  done[j] = None /\ \A g \in Instances : current'[g] # j /\ (InQueue(g, j)' => g = e)
    <3>1. InQueue(e, j) /\ j # i
      BY <2>5, <2>6, <2>7, <2>10
    <3>2. done[j] = None /\ \A g \in Instances : current[g] # j /\ (InQueue(g, j) => g = e)
      BY <3>1 DEF ItemsInv
    <3> QED
      BY <2>1, <2>5, <2>6, <3>1, <3>2
  <2>11. ASSUME NEW e \in Instances, current'[e] # None
         PROVE  done[current'[e]] = None /\ \A g \in Instances \ {e} : current'[g] # current'[e]
    <3>1. CASE e = d
      BY <2>1, <2>7, <3>1
    <3>2. CASE e # d
      <4>1. current'[e] = current[e] /\ current[e] # i
        BY <2>1, <2>7, <3>2
      <4>2. done[current[e]] = None /\ \A g \in Instances \ {e} : current[g] # current[e]
        BY <2>11, <4>1 DEF ItemsInv
      <4> QED
        BY <2>1, <4>1, <4>2
    <3> QED
      BY <3>1, <3>2
  <2>12. \A e \in Instances : current'[e] # None <=> worker'[e] = "working"
    BY <2>1, <2>2 DEF ItemsInv
  <2> QED
    BY <2>1, <2>8, <2>9, <2>10, <2>11, <2>12 DEF ItemsInv
<1>10. ASSUME NEW d \in Instances, HandlerReturns(d) PROVE ItemsInv'
  <2> PICK i : i = current[d]
    OBVIOUS
  <2>1. i # None /\ i \in Items /\ done[i] = None /\ \A e \in Instances \ {d} : current[e] # i
    BY <1>0, <1>10 DEF HandlerReturns, ItemsInv, WorkersOK
  <2>2. /\ UNCHANGED <<queue, answer, carried, pc>>
        /\ worker'[d] = "dequeue" /\ current'[d] = None /\ done'[i] = d
        /\ \A e \in Instances : e # d => worker'[e] = worker[e] /\ current'[e] = current[e]
        /\ \A j \in Items : j # i => done'[j] = done[j]
    BY <1>0, <1>10, <2>1 DEF HandlerReturns, WorkersOK
  <2>3. \A e, j : InQueue(e, j)' <=> InQueue(e, j)
    BY <2>2 DEF InQueue
  <2>4. ASSUME NEW x \in Items, answer'[x] = "none",
               \A q \in Producers : carried'[q] = x => pc'[q] \notin {"poke", "run"}
        PROVE  Unseen(x)'
    <3>1. Unseen(x)
      BY <2>2, <2>4 DEF ItemsInv
    <3> QED
      BY <2>2, <2>3, <3>1, NoneAssumption DEF Unseen
  <2>5. ASSUME NEW e \in Instances, NEW j \in Items, InQueue(e, j)'
        PROVE  done'[j] = None /\ \A g \in Instances : current'[g] # j /\ (InQueue(g, j)' => g = e)
    <3>1. done[j] = None /\ \A g \in Instances : current[g] # j /\ (InQueue(g, j) => g = e)
      BY <2>3, <2>5 DEF ItemsInv
    <3> QED
      BY <2>2, <2>3, <3>1, NoneAssumption
  <2>6. ASSUME NEW e \in Instances, current'[e] # None
        PROVE  done'[current'[e]] = None /\ \A g \in Instances \ {e} : current'[g] # current'[e]
    <3>1. e # d /\ current'[e] = current[e] /\ current[e] \in Items /\ current[e] # i
      BY <1>0, <2>1, <2>2, <2>6 DEF WorkersOK
    <3>2. done[current[e]] = None /\ \A g \in Instances \ {e} : current[g] # current[e]
      BY <2>6, <3>1 DEF ItemsInv
    <3> QED
      BY <2>2, <2>6, <3>1, <3>2
  <2>7. \A e \in Instances : current'[e] # None <=> worker'[e] = "working"
    BY <2>2 DEF ItemsInv
  <2>8. \A e \in Instances : \A m, n \in 1..Len(queue'[e]) : queue'[e][m] = queue'[e][n] => m = n
    BY <2>2 DEF ItemsInv
  <2>9. \A p \in Producers : carried'[p] # None =>
           answer'[carried'[p]] = "none" /\ \A q \in Producers \ {p} : carried'[q] # carried'[p]
    BY <2>2 DEF ItemsInv
  <2> QED
    BY <2>4, <2>5, <2>6, <2>7, <2>8, <2>9 DEF ItemsInv
<1>11. ASSUME UNCHANGED <<queue, current, done, answer, carried, pc, worker>> PROVE ItemsInv'
  BY <1>2, <1>11
<1>12. ASSUME NEW d \in Instances,
              LoopEnds(d) \/ (\E h \in Handlers : WorkCompleted(d, h)) \/ DisposeWorker(d)
       PROVE  ItemsInv'
  BY <1>0, <1>2, <1>12 DEF LoopEnds, WorkCompleted, DisposeWorker, WorkersOK
<1>13. ASSUME NEW h \in Handlers, OnCompleted(h) PROVE ItemsInv'
  BY <1>2, <1>6, <1>13 DEF OnCompleted
<1>14. ASSUME NEW h \in Handlers,
              CheckCount(h) \/ FindEntry(h) \/ RemoveEntry(h) \/ ReviveEntry(h) \/ DisposeDispatcher(h)
       PROVE  ItemsInv'
  BY <1>11, <1>14 DEF CheckCount, FindEntry, RemoveEntry, ReviveEntry, DisposeDispatcher
<1>15. ASSUME Close \/ UNCHANGED vars PROVE ItemsInv'
  BY <1>11, <1>15 DEF Close, OwnerDisposes, OwnerDisposesOne, OwnerClears, vars
<1> QED
  BY <1>4, <1>5, <1>7, <1>8, <1>9, <1>10, <1>12, <1>13, <1>14, <1>15
  DEF Next, Produce, Work, Complete

-------------------------------------------------------------------------------
(* The refinement: where the pool of a dispatcher sees an item, ...          *)
LEMMA StageIs ==
  ASSUME TypeOK, ItemsInv, NEW d \in Instances, NEW i \in Items
  PROVE  /\ StageIn(d)[i] = "active" <=> current[d] = i
         /\ StageIn(d)[i] = "done" <=> done[i] = d
         /\ StageIn(d)[i] = "waiting" <=> InQueue(d, i)
         /\ StageIn(d)[i] = "new" <=> current[d] # i /\ done[i] # d /\ ~InQueue(d, i)
<1>1. done[i] = d => current[d] # i /\ ~InQueue(d, i)
  BY NoneAssumption DEF ItemsInv
<1>2. InQueue(d, i) => current[d] # i
  BY DEF ItemsInv
<1> QED
  BY <1>1, <1>2 DEF StageIn

(* ... and what a step that moves one item does there.                       *)
LEMMA StageMoves ==
  ASSUME NEW d \in Instances, NEW x \in Items, NEW s,
         StageIn(d)'[x] = s, \A i \in Items : i # x => StageIn(d)'[i] = StageIn(d)[i]
  PROVE  StageIn(d)' = [StageIn(d) EXCEPT ![x] = s]
<1> DEFINE f == StageIn(d)' g == StageIn(d)
<1>1. f = [i \in Items |-> f[i]] /\ g = [i \in Items |-> g[i]]
  BY DEF StageIn
<1>2. f[x] = s /\ \A i \in Items : i # x => f[i] = g[i]
  OBVIOUS
<1> HIDE DEF f, g
<1>3. f = [i \in Items |-> IF i = x THEN s ELSE g[i]]
  BY <1>1, <1>2
<1>4. [g EXCEPT ![x] = s] = [i \in Items |-> IF i = x THEN s ELSE g[i]]
  BY <1>1
<1> QED
  BY <1>3, <1>4 DEF f, g

LEMMA StageNext ==
  ASSUME NEW d \in Instances, NEW i \in Items
  PROVE  /\ current'[d] = i /\ done'[i] # d /\ ~InQueue(d, i)' => StageIn(d)'[i] = "active"
         /\ current'[d] # i /\ done'[i] = d /\ ~InQueue(d, i)' => StageIn(d)'[i] = "done"
         /\ current'[d] # i /\ done'[i] # d /\ InQueue(d, i)' => StageIn(d)'[i] = "waiting"
<1>1. ASSUME current'[d] = i, done'[i] # d, ~InQueue(d, i)' PROVE StageIn(d)'[i] = "active"
  BY <1>1 DEF StageIn
<1>2. ASSUME current'[d] # i, done'[i] = d, ~InQueue(d, i)' PROVE StageIn(d)'[i] = "done"
  BY <1>2 DEF StageIn
<1>3. ASSUME current'[d] # i, done'[i] # d, InQueue(d, i)' PROVE StageIn(d)'[i] = "waiting"
  BY <1>3 DEF StageIn
<1> QED
  BY <1>1, <1>2, <1>3

LEMMA StageStays ==
  ASSUME NEW d \in Instances,
         current'[d] = current[d],
         \A i \in Items : done'[i] = d <=> done[i] = d,
         \A i \in Items : InQueue(d, i)' <=> InQueue(d, i)
  PROVE  StageIn(d)' = StageIn(d)
<1> DEFINE f == StageIn(d)' g == StageIn(d)
<1>1. f = [i \in Items |-> f[i]] /\ g = [i \in Items |-> g[i]]
  BY DEF StageIn
<1>2. \A i \in Items : f[i] = g[i]
  BY DEF StageIn
<1> HIDE DEF f, g
<1>3. f = g
  BY <1>1, <1>2
<1> QED
  BY <1>3 DEF f, g

LEMMA SameCount == \A S, d : Pool(d)!Cardinality(S) = Cardinality(S)
BY DEF Pool!Cardinality, Cardinality

PoolMoves(d) == Pool(d)!Next \/ UNCHANGED <<queue[d], StageIn(d)>>

LEMMA SubmitStep ==
  ASSUME TypeOK, ItemsInv, NEW p \in Producers, Put(p), NEW d \in Instances
  PROVE  PoolMoves(d)
<1> USE DEF registry, workers, producers, handlers
<1>0. WorkersOK /\ ProducersOK
  BY DEF TypeOK
<1> PICK t \in Instances, i \in Items : t = target[p] /\ i = carried[p]
  BY <1>0 DEF Put, ProducersOK
<1>1. /\ UNCHANGED <<current, done>>
      /\ queue'[t] = Append(queue[t], i) /\ queue[t] \in Seq(Items)
      /\ \A e \in Instances : e # t => queue'[e] = queue[e]
      /\ pc[p] = "put"
  BY <1>0 DEF Put, WorkersOK
<1>2. CASE d # t
  <2>1. \A j \in Items : InQueue(d, j)' <=> InQueue(d, j)
    BY <1>1, <1>2 DEF InQueue
  <2>2. StageIn(d)' = StageIn(d)
    BY <1>1, <2>1, StageStays
  <2> QED
    BY <1>1, <1>2, <2>2 DEF PoolMoves
<1>3. CASE d = t
  <2>1. answer[i] = "none" /\ \A q \in Producers \ {p} : carried[q] # i
    BY NoneAssumption DEF ItemsInv
  <2>2. Unseen(i)
    BY <1>1, <2>1 DEF ItemsInv
  <2>3. StageIn(d)[i] = "new"
    BY <2>2, StageIs, NoneAssumption DEF Unseen
  <2>4. \A j : InQueue(d, j)' <=> j = i \/ InQueue(d, j)
    BY <1>1, <1>3, InQueuePut
  <2>5. StageIn(d)'[i] = "waiting"
    <3>1. current'[d] # i /\ done'[i] # d /\ InQueue(d, i)'
      BY <1>1, <2>2, <2>4, NoneAssumption DEF Unseen
    <3> QED
      BY <3>1, StageNext
  <2>6. \A j \in Items : j # i => StageIn(d)'[j] = StageIn(d)[j]
    BY <1>1, <2>4 DEF StageIn
  <2>7. StageIn(d)' = [StageIn(d) EXCEPT ![i] = "waiting"]
    BY <2>5, <2>6, StageMoves
  <2>8. Pool(d)!Submit(i)
    BY <1>1, <1>3, <2>3, <2>7 DEF Pool!Submit
  <2> QED
    BY <2>8 DEF PoolMoves, Pool!Next
<1> QED
  BY <1>2, <1>3

LEMMA StartStep ==
  ASSUME TypeOK, ItemsInv, NEW t \in Instances, TakeItem(t), NEW d \in Instances
  PROVE  PoolMoves(d)
<1> USE DEF registry, workers, producers, handlers
<1>0. WorkersOK
  BY DEF TypeOK
<1> PICK i : i = Head(queue[t])
  OBVIOUS
<1>1. /\ done' = done
      /\ worker[t] = "dequeue" /\ current'[t] = i
      /\ queue[t] # <<>> /\ queue[t] \in Seq(Items) /\ queue'[t] = Tail(queue[t])
      /\ \A e \in Instances : e # t => queue'[e] = queue[e] /\ current'[e] = current[e]
  BY <1>0 DEF TakeItem, WorkersOK
<1>2. CASE d # t
  <2>1. \A j \in Items : InQueue(d, j)' <=> InQueue(d, j)
    BY <1>1, <1>2 DEF InQueue
  <2>2. StageIn(d)' = StageIn(d)
    BY <1>1, <1>2, <2>1, StageStays
  <2> QED
    BY <1>1, <1>2, <2>2 DEF PoolMoves
<1>3. CASE d = t
  <2>1. current[d] = None /\ i \in Items
    BY <1>1, <1>3, TakeFacts DEF ItemsInv
  <2>2. \A m, n \in 1..Len(queue[d]) : queue[d][m] = queue[d][n] => m = n
    BY DEF ItemsInv
  <2>3. \A j : InQueue(d, j)' <=> j # i /\ InQueue(d, j)
    BY <1>1, <1>3, <2>2, InQueueTaken
  <2>4. \A j \in Items : StageIn(d)[j] # "active"
    BY <2>1, StageIs, NoneAssumption
  <2>5. Pool(d)!Active = {}
    BY <2>4 DEF Pool!Active
  <2>6. Pool(d)!Cardinality(Pool(d)!Active) < 1
    BY <2>5, SameCount, FS_EmptySet
  <2>7. StageIn(d)'[i] = "active"
    <3>1. InQueue(d, i) /\ ~InQueue(d, i)'
      <4>1. \E n \in 1..Len(queue[t]) : queue[t][n] = i
        BY <1>1, <1>3, <2>2, TailQueue
      <4> QED
        BY <1>3, <2>3, <4>1 DEF InQueue
    <3>2. done'[i] # d
      BY <1>1, <2>1, <3>1, NoneAssumption DEF ItemsInv
    <3> QED
      BY <1>1, <1>3, <2>1, <3>1, <3>2, StageNext
  <2>8. \A j \in Items : j # i => StageIn(d)'[j] = StageIn(d)[j]
    BY <1>1, <1>3, <2>1, <2>3, NoneAssumption DEF StageIn
  <2>9. StageIn(d)' = [StageIn(d) EXCEPT ![i] = "active"]
    BY <2>1, <2>7, <2>8, StageMoves
  <2>10. Pool(d)!Start
    BY <1>1, <1>3, <2>6, <2>9 DEF Pool!Start
  <2> QED
    BY <2>10 DEF PoolMoves, Pool!Next
<1> QED
  BY <1>2, <1>3

LEMMA FinishStep ==
  ASSUME TypeOK, ItemsInv, NEW t \in Instances, HandlerReturns(t), NEW d \in Instances
  PROVE  PoolMoves(d)
<1> USE DEF registry, workers, producers, handlers
<1>0. WorkersOK
  BY DEF TypeOK
<1> PICK i : i = current[t]
  OBVIOUS
<1>1. i # None /\ i \in Items /\ done[i] = None
  BY <1>0 DEF HandlerReturns, ItemsInv, WorkersOK
<1>2. /\ queue' = queue
      /\ current'[t] = None /\ done'[i] = t
      /\ \A e \in Instances : e # t => current'[e] = current[e]
      /\ \A j \in Items : j # i => done'[j] = done[j]
  BY <1>0, <1>1 DEF HandlerReturns, WorkersOK
<1>3. \A j : InQueue(d, j)' <=> InQueue(d, j)
  BY <1>2 DEF InQueue
<1>4. CASE d # t
  <2>1. \A j \in Items : done'[j] = d <=> done[j] = d
    BY <1>1, <1>2, <1>4, NoneAssumption
  <2>2. StageIn(d)' = StageIn(d)
    BY <1>2, <1>3, <1>4, <2>1, StageStays
  <2> QED
    BY <1>2, <2>2 DEF PoolMoves
<1>5. CASE d = t
  <2>1. StageIn(d)[i] = "active"
    BY <1>1, <1>5, StageIs
  <2>2. StageIn(d)'[i] = "done"
    <3>1. ~InQueue(d, i)'
      <4>1. InQueue(t, i) => current[t] # i
        BY <1>1 DEF ItemsInv
      <4> QED
        BY <1>3, <1>5, <4>1
    <3> QED
      BY <1>1, <1>2, <1>5, <3>1, StageNext, NoneAssumption
  <2>3. \A j \in Items : j # i => StageIn(d)'[j] = StageIn(d)[j]
    BY <1>2, <1>3, <1>5, NoneAssumption DEF StageIn
  <2>4. StageIn(d)' = [StageIn(d) EXCEPT ![i] = "done"]
    BY <1>1, <2>2, <2>3, StageMoves
  <2>5. Pool(d)!Finish(i)
    BY <1>2, <2>1, <2>4 DEF Pool!Finish
  <2> QED
    BY <1>1, <2>5 DEF PoolMoves, Pool!Next
<1> QED
  BY <1>4, <1>5

LEMMA PoolStep ==
  TypeOK /\ ItemsInv /\ [Next]_vars => [\A d \in Instances : PoolMoves(d)]_vars
<1> SUFFICES ASSUME TypeOK, ItemsInv, Next, NEW d \in Instances PROVE PoolMoves(d)
  OBVIOUS
<1> USE DEF registry, workers, producers, handlers
<1>1. ASSUME UNCHANGED <<queue, current, done>> PROVE PoolMoves(d)
  <2>1. \A j \in Items : InQueue(d, j)' <=> InQueue(d, j)
    BY <1>1 DEF InQueue
  <2>2. StageIn(d)' = StageIn(d)
    BY <1>1, <2>1, StageStays
  <2> QED
    BY <1>1, <2>2 DEF PoolMoves
<1>2. ASSUME NEW p \in Producers, Produce(p) PROVE PoolMoves(d)
  BY <1>1, <1>2, SubmitStep
  DEF Produce, FindDispatcher, AddDispatcher, RetryDispatcher, CheckDisposed, CheckRunning, StartWorker
<1>3. ASSUME NEW t \in Instances, Work(t) PROVE PoolMoves(d)
  BY <1>1, <1>3, StartStep, FinishStep DEF Work, LoopEnds, WorkCompleted
<1>4. ASSUME NEW h \in Handlers, Complete(h) PROVE PoolMoves(d)
  BY <1>1, <1>4
  DEF Complete, OnCompleted, CheckCount, FindEntry, RemoveEntry, ReviveEntry, DisposeDispatcher
<1>5. ASSUME Close \/ \E t \in Instances : DisposeWorker(t) PROVE PoolMoves(d)
  BY <1>1, <1>5 DEF Close, OwnerDisposes, OwnerDisposesOne, OwnerClears, DisposeWorker
<1> QED
  BY <1>2, <1>3, <1>4, <1>5 DEF Next

(* KeyedDispatcher.PoolSpec: each dispatcher, disposed or not, is a          *)
(* first-in first-out pool that works on one item at a time: what its        *)
(* producers put is taken in that order, each item once, and the next only   *)
(* when the one before is through.                                           *)
THEOREM EachIsAPool == Spec => PoolSpec
<1>1. Init => \A d \in Instances : Pool(d)!Init
  BY DEF Init, Pool!Init, StageIn, InQueue
<1>2. TypeOK /\ ItemsInv /\ [Next]_vars =>
        [\A d \in Instances : Pool(d)!Next \/ UNCHANGED <<queue[d], StageIn(d)>>]_vars
  BY PoolStep DEF PoolMoves
<1> QED
  BY InitType, TypeStep, ItemsInit, ItemsStep, <1>1, <1>2, PTL DEF Spec, PoolSpec

===============================================================================

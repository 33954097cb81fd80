---------------------------- MODULE Workers_proofs ----------------------------
(* What TLAPS proves of Workers.tla for every number of jobs and of slots:   *)
(* its types, and that a worker is run by one job at a time as long as no    *)
(* lease is lost, Sys does not restart, and no two Enqueues are past the     *)
(* duplicate check at once.                                                  *)
EXTENDS Workers, FiniteSetTheorems, SequenceTheorems, TLAPS

USE ThreadsAssumption, BoundsAssumption, EmptyAssumption

-------------------------------------------------------------------------------
(* The plans of the threads: sequences of steps, closed under Tail.          *)
LEMMA PlansAreSequences == Plans \subseteq Seq(Steps)
<1>1. /\ {<<"store", "run">>, <<"run">>, <<"complete">>} \subseteq Seq(Steps)
      /\ {<<"error">>, <<"store", "settle">>, <<"settle">>} \subseteq Seq(Steps)
      /\ {<<>>, <<"check">>, <<"write", "store">>, <<"store">>} \subseteq Seq(Steps)
      /\ {<<"initialize">>, <<"orphan">>, <<"reset">>} \subseteq Seq(Steps)
      /\ {<<"store", "reschedule">>, <<"reschedule">>} \subseteq Seq(Steps)
  BY DEF Steps
<1>2. /\ <<"write", "store", "settle">> \in Seq(Steps)
      /\ <<"insert", "write", "store">> \in Seq(Steps)
      /\ <<"write", "store", "reschedule">> \in Seq(Steps)
  BY DEF Steps
<1> QED
  BY <1>1, <1>2 DEF Plans, Pending

LEMMA Concatenations ==
  /\ Update = <<"write", "store">>
  /\ <<"insert">> \o Update = <<"insert", "write", "store">>
  /\ Update \o <<"settle">> = <<"write", "store", "settle">>
  /\ Update \o <<"reschedule">> = <<"write", "store", "reschedule">>
<1>1. ASSUME NEW a, NEW b, NEW c
      PROVE  <<a>> \o <<b, c>> = <<a, b, c>> /\ <<a, b>> \o <<c>> = <<a, b, c>>
  <2> DEFINE T == {a, b, c}
  <2>1. <<a>> \in Seq(T) /\ <<c>> \in Seq(T) /\ <<a, b>> \in Seq(T) /\ <<b, c>> \in Seq(T)
        /\ <<a, b, c>> \in Seq(T)
    OBVIOUS
  <2>2. <<a>> \o <<b, c>> = <<a, b, c>>
    <3> DEFINE x == <<a>> \o <<b, c>>
    <3>1. x \in Seq(T) /\ Len(x) = 3 /\ x[1] = a /\ x[2] = b /\ x[3] = c
      BY <2>1, ConcatProperties
    <3>2. \A i \in 1..Len(x) : x[i] = <<a, b, c>>[i]
      BY <3>1
    <3>3. Len(x) = Len(<<a, b, c>>)
      BY <3>1
    <3> HIDE DEF x, T
    <3>4. x = <<a, b, c>>
      BY <2>1, <3>1, <3>2, <3>3, SeqEqual, Zenon
    <3> QED
      BY <3>4 DEF x
  <2>3. <<a, b>> \o <<c>> = <<a, b, c>>
    <3> DEFINE x == <<a, b>> \o <<c>>
    <3>1. x \in Seq(T) /\ Len(x) = 3 /\ x[1] = a /\ x[2] = b /\ x[3] = c
      BY <2>1, ConcatProperties
    <3>2. \A i \in 1..Len(x) : x[i] = <<a, b, c>>[i]
      BY <3>1
    <3>3. Len(x) = Len(<<a, b, c>>)
      BY <3>1
    <3> HIDE DEF x, T
    <3>4. x = <<a, b, c>>
      BY <2>1, <3>1, <3>2, <3>3, SeqEqual, Zenon
    <3> QED
      BY <3>4 DEF x
  <2> QED
    BY <2>2, <2>3
<1> QED
  BY <1>1 DEF Update

LEMMA Tails ==
  /\ Tail(<<"insert", "write", "store">>) = Update
  /\ Tail(<<"write", "store">>) = <<"store">>
  /\ Tail(<<"write", "store", "settle">>) = <<"store", "settle">>
  /\ Tail(<<"write", "store", "reschedule">>) = <<"store", "reschedule">>
  /\ Tail(<<"store">>) = <<>> /\ Tail(<<"store", "settle">>) = <<"settle">>
  /\ Tail(<<"store", "reschedule">>) = <<"reschedule">> /\ Tail(<<"store", "run">>) = <<"run">>
<1>1. Tail(<<"insert", "write", "store">>) = Update
  BY DEF Update
<1>2. Tail(<<"write", "store", "settle">>) = <<"store", "settle">>
  OBVIOUS
<1>3. Tail(<<"write", "store", "reschedule">>) = <<"store", "reschedule">>
  OBVIOUS
<1>4. Tail(<<"write", "store">>) = <<"store">> /\ Tail(<<"store", "settle">>) = <<"settle">>
  OBVIOUS
<1>5. Tail(<<"store", "reschedule">>) = <<"reschedule">> /\ Tail(<<"store", "run">>) = <<"run">>
  OBVIOUS
<1>6. Tail(<<"store">>) = <<>>
  OBVIOUS
<1> QED
  BY <1>1, <1>2, <1>3, <1>4, <1>5, <1>6

LEMMA PlanOfInsert ==
  ASSUME NEW s \in Plans, s # <<>>, Head(s) = "insert"
  PROVE  Tail(s) = Update
<1>1. s = <<"insert", "write", "store">>
  BY DEF Plans, Pending
<1> QED
  BY <1>1, Tails

LEMMA PlanOfWrite ==
  ASSUME NEW s \in Plans, s # <<>>, Head(s) = "write"
  PROVE  /\ Tail(s) \in Plans /\ Tail(s) # <<>> /\ Head(Tail(s)) = "store"
         /\ Tail(s) \in Pending => s \in Pending
<1>1. s \in {<<"write", "store">>, <<"write", "store", "settle">>, <<"write", "store", "reschedule">>}
  BY DEF Plans, Pending
<1>2. Tail(s) \in {<<"store">>, <<"store", "settle">>, <<"store", "reschedule">>}
  BY <1>1, Tails
<1>3. Tail(s) \in Plans /\ Tail(s) # <<>> /\ Head(Tail(s)) = "store"
  BY <1>2 DEF Plans, Pending
<1>4. CASE s = <<"write", "store", "settle">>
  BY <1>3, <1>4 DEF Pending
<1>5. CASE s = <<"write", "store">>
  <2>1. Tail(s) = <<"store">>
    BY <1>5, Tails
  <2> QED
    BY <1>3, <2>1 DEF Pending
<1>6. CASE s = <<"write", "store", "reschedule">>
  <2>1. Tail(s) = <<"store", "reschedule">>
    BY <1>6, Tails
  <2> QED
    BY <1>3, <2>1 DEF Pending
<1> QED
  BY <1>1, <1>4, <1>5, <1>6

LEMMA PlanOfStore ==
  ASSUME NEW s \in Plans, s # <<>>, Head(s) = "store"
  PROVE  /\ Tail(s) \in {<<>>, <<"reschedule">>, <<"settle">>, <<"run">>}
         /\ Tail(s) \in Pending => s \in Pending /\ Len(s) # 1
<1>1. s \in {<<"store">>, <<"store", "settle">>, <<"store", "reschedule">>, <<"store", "run">>}
  BY DEF Plans, Pending
<1>2. Tail(s) \in {<<>>, <<"reschedule">>, <<"settle">>, <<"run">>}
  BY <1>1, Tails
<1>3. CASE s = <<"store", "settle">> \/ s = <<"store", "run">>
  <2>1. s \in Pending /\ Len(s) # 1
    BY <1>3 DEF Pending
  <2> QED
    BY <1>2, <2>1
<1>4. CASE s = <<"store">> \/ s = <<"store", "reschedule">>
  <2>1. Tail(s) = <<>> \/ Tail(s) = <<"reschedule">>
    BY <1>4, Tails
  <2> QED
    BY <1>2, <2>1 DEF Pending
<1> QED
  BY <1>1, <1>3, <1>4

LEMMA PlanOfRun ==
  ASSUME NEW s \in Plans, s # <<>>, Head(s) \in {"run", "complete", "error", "settle"}
  PROVE  s \in Pending /\ s \in {<<"run">>, <<"complete">>, <<"error">>, <<"settle">>}
<1>1. CASE Head(s) = "run"
  BY <1>1 DEF Plans, Pending
<1>2. CASE Head(s) = "complete"
  BY <1>2 DEF Plans, Pending
<1>3. CASE Head(s) = "error"
  BY <1>3 DEF Plans, Pending
<1>4. CASE Head(s) = "settle"
  BY <1>4 DEF Plans, Pending
<1> QED
  BY <1>1, <1>2, <1>3, <1>4

LEMMA Heads ==
  /\ \A s \in {<<>>, <<"reschedule">>, <<"settle">>, <<"run">>, <<"complete">>, <<"error">>,
               <<"initialize">>, <<"orphan">>, <<"reset">>} :
        /\ s \in Plans
        /\ s = <<>> \/ Head(s) \notin {"check", "insert", "write", "store"}
  /\ \A s \in {<<"check">>, Update, <<"write", "store", "settle">>,
               <<"write", "store", "reschedule">>, <<"store", "run">>} :
        s \in Plans /\ s # <<>> /\ Head(s) \in {"check", "write", "store"}
  /\ <<"insert", "write", "store">> \in Plans /\ Head(<<"insert", "write", "store">>) = "insert"
  /\ \A s \in {<<>>, <<"check">>, Update, <<"reschedule">>, <<"initialize">>, <<"orphan">>,
               <<"reset">>, <<"insert", "write", "store">>, <<"write", "store", "reschedule">>} :
        s \notin Pending
<1>1. \A s \in {<<>>, <<"reschedule">>, <<"settle">>, <<"run">>, <<"complete">>, <<"error">>,
               <<"initialize">>, <<"orphan">>, <<"reset">>} :
        /\ s \in Plans
        /\ s = <<>> \/ Head(s) \notin {"check", "insert", "write", "store"}
  BY DEF Plans, Pending
<1>2. \A s \in {<<"check">>, Update, <<"write", "store", "settle">>,
               <<"write", "store", "reschedule">>, <<"store", "run">>} :
        s \in Plans /\ s # <<>> /\ Head(s) \in {"check", "write", "store"}
  BY DEF Plans, Pending, Update
<1>3. <<"insert", "write", "store">> \in Plans /\ Head(<<"insert", "write", "store">>) = "insert"
  BY DEF Plans
<1>4. \A s \in {<<>>, <<"check">>, Update, <<"reschedule">>, <<"initialize">>, <<"orphan">>,
               <<"reset">>, <<"insert", "write", "store">>, <<"write", "store", "reschedule">>} :
        s \notin Pending
  BY DEF Pending, Update
<1> QED
  BY <1>1, <1>2, <1>3, <1>4

-------------------------------------------------------------------------------
(* Types.                                                                    *)
LEMMA ProceedPlans ==
  ASSUME TypeOK, PlansInv, NEW t \in Threads, NEW steps \in Plans,
         NEW r \in Statuses \cup {NoStatus}, Proceed(t, steps, r),
         steps # <<>> /\ Head(steps) \in {"check", "insert", "write", "store"} => r \in Statuses
  PROVE  /\ PlansInv'
         /\ todo' \in [Threads -> Seq(Steps)]
         /\ own' \in [Threads -> Statuses \cup {NoStatus}]
<1>1. todo' \in [Threads -> Plans] /\ own' \in [Threads -> Statuses \cup {NoStatus}]
  BY DEF Proceed, PlansInv, TypeOK
<1>2. ASSUME NEW u \in Threads,
             At(u, "check")' \/ At(u, "insert")' \/ At(u, "write")' \/ At(u, "store")'
      PROVE  own'[u] \in Statuses
  <2>1. CASE u = t
    BY <1>2, <2>1 DEF Proceed, PlansInv, TypeOK, At
  <2>2. CASE u # t
    BY <1>2, <2>2 DEF Proceed, PlansInv, TypeOK, At
  <2> QED
    BY <2>1, <2>2
<1>3. todo' \in [Threads -> Seq(Steps)]
  BY <1>1, PlansAreSequences
<1> QED
  BY <1>1, <1>2, <1>3 DEF PlansInv

LEMMA PlansKept ==
  ASSUME TypeOK, PlansInv, UNCHANGED <<todo, own>>
  PROVE  /\ PlansInv'
         /\ todo' \in [Threads -> Seq(Steps)]
         /\ own' \in [Threads -> Statuses \cup {NoStatus}]
BY DEF TypeOK, PlansInv, At

LEMMA InitInv == Init => IInv
<1> SUFFICES ASSUME Init PROVE IInv
  OBVIOUS
<1>1. todo \in [Threads -> Plans] /\ \A t \in Threads : todo[t] \in {<<"initialize">>, <<>>}
  BY Heads DEF Init
<1>2. PlansInv
  <2>1. \A t \in Threads : todo[t] = <<>> \/ Head(todo[t]) \notin {"check", "insert", "write", "store"}
    BY <1>1, Heads
  <2> QED
    BY <1>1, <2>1 DEF PlansInv, At
<1>3. TypeOK
  <2>1. todo \in [Threads -> Seq(Steps)]
    BY <1>1, PlansAreSequences
  <2>2. row \in Statuses /\ cached \in Statuses /\ disturbances \in 0..MaxDisturbances
    BY DEF Init, Statuses
  <2> QED
    BY <2>1, <2>2 DEF Init, TypeOK
<1>4. OneMessage /\ NothingToInsert
  BY DEF Init, OneMessage, NothingToInsert, Present
<1>5. HeldByJob
  <2>1. \A j \in Jobs : todo[j] = <<>>
    BY DEF Init, Threads
  <2> QED
    BY <2>1, Heads DEF HeldByJob
<1> QED
  BY <1>2, <1>3, <1>4, <1>5 DEF IInv

LEMMA MessageParts ==
  ASSUME NEW x \in Message
  PROVE  [x EXCEPT !.visible = TRUE] \in Message /\ [x EXCEPT !.receipt = NoJob] \in Message
<1>1. [x EXCEPT !.visible = TRUE] \in Message
  BY DEF Message
<1>2. [x EXCEPT !.receipt = NoJob] \in Message
  BY DEF Message
<1> QED
  BY <1>1, <1>2

LEMMA TypeStep == TypeOK /\ PlansInv /\ [Next]_vars => TypeOK' /\ PlansInv'
<1> SUFFICES ASSUME TypeOK, PlansInv, [Next]_vars PROVE TypeOK' /\ PlansInv'
  OBVIOUS
<1> DEFINE Plan == /\ PlansInv'
                   /\ todo' \in [Threads -> Seq(Steps)]
                   /\ own' \in [Threads -> Statuses \cup {NoStatus}]
           Rest == /\ row' \in Statuses /\ cached' \in Statuses
                   /\ queue' \in [Slots -> Message \cup {NoMessage}]
                   /\ message' \in [Jobs -> Slots \cup {NoMessage}]
                   /\ disturbances' \in 0..MaxDisturbances
                   /\ blurred' \in BOOLEAN
<1>0. SUFFICES Plan /\ Rest
  BY DEF TypeOK
<1>a. Scheduler \in Threads /\ Management \in Threads /\ Jobs \subseteq Threads
  BY DEF Threads
<1>b. \A t \in Threads : todo[t] \in Plans
  BY DEF PlansInv
<1> DEFINE Open == {"check", "insert", "write", "store"}
<1>1. ASSUME NEW t \in Threads, Write(t) PROVE Plan /\ Rest
  <2>1. own[t] \in Statuses
    BY <1>1 DEF Write, PlansInv
  <2>2. Tail(todo[t]) \in Plans
    BY <1>1, <1>b, PlanOfWrite DEF Write, At
  <2>3. Plan
    BY <1>1, <2>1, <2>2, ProceedPlans DEF Write
  <2> QED
    BY <1>1, <2>1, <2>3 DEF Write, TypeOK
<1>2. ASSUME NEW t \in Threads, Store(t) PROVE Plan /\ Rest
  <2>1. own[t] \in Statuses
    BY <1>2 DEF Store, PlansInv
  <2>2. Tail(todo[t]) \in {<<>>, <<"reschedule">>, <<"settle">>, <<"run">>}
    BY <1>2, <1>b, PlanOfStore DEF Store, At
  <2>3. Plan
    <3>1. Tail(todo[t]) \in Plans /\ (Tail(todo[t]) = <<>> \/ Head(Tail(todo[t])) \notin Open)
      BY <2>2, Heads
    <3> QED
      BY <1>2, <3>1, ProceedPlans DEF Store
  <2> QED
    BY <1>2, <2>1, <2>3 DEF Store, TypeOK
<1>3. ASSUME NEW t \in Threads, CheckDuplicate(t) PROVE Plan /\ Rest
  <2>1. own[t] \in Statuses
    BY <1>3 DEF CheckDuplicate, PlansInv
  <2>2. /\ Update \in Plans
        /\ <<"insert">> \o Update \in Plans
    BY Heads, Concatenations
  <2>3. Plan
    <3> DEFINE steps == IF Duplicate THEN Update ELSE <<"insert">> \o Update
    <3>1. steps \in Plans /\ Proceed(t, steps, own[t])
      BY <1>3, <2>2 DEF CheckDuplicate
    <3> HIDE DEF steps
    <3> QED
      BY <2>1, <3>1, ProceedPlans
  <2> QED
    BY <1>3, <2>3 DEF CheckDuplicate, TypeOK
<1>4. ASSUME NEW t \in Threads, Insert(t) PROVE Plan /\ Rest
  <2>1. own[t] \in Statuses
    BY <1>4 DEF Insert, PlansInv
  <2>2. Tail(todo[t]) \in Plans
    BY <1>4, <1>b, PlanOfInsert, Heads DEF Insert, At
  <2>3. Plan
    BY <1>4, <2>1, <2>2, ProceedPlans DEF Insert
  <2>4. NewMessage \in Message
    BY DEF NewMessage, Message
  <2>5. blurred' \in BOOLEAN
    BY <1>4 DEF Insert, TypeOK
  <2> QED
    BY <1>4, <2>3, <2>4, <2>5 DEF Insert, TypeOK
<1>5. ASSUME NEW t \in Threads, ResetWorker(t) PROVE Plan /\ Rest
  <2>1. Plan
    BY <1>5, Heads, ProceedPlans DEF ResetWorker, Statuses
  <2> QED
    BY <1>5, <2>1 DEF ResetWorker, TypeOK
<1>6. ASSUME Initialize \/ CheckOrphan \/ FindOrphan PROVE Plan /\ Rest
  <2>1. PICK steps \in {<<"reset">>, <<"orphan">>, <<>>} : Proceed(Scheduler, steps, NoStatus)
    BY <1>6 DEF Initialize, CheckOrphan, FindOrphan
  <2>2. Plan
    BY <1>a, <2>1, Heads, ProceedPlans
  <2> QED
    BY <1>6, <2>2 DEF Initialize, CheckOrphan, FindOrphan, TypeOK
<1>7. ASSUME Schedule PROVE Plan /\ Rest
  <2>1. Plan
    BY <1>7, <1>a, Heads, ProceedPlans DEF Schedule, Enqueue, Statuses
  <2> QED
    BY <1>7, <2>1 DEF Schedule, TypeOK
<1>8. ASSUME Request PROVE Plan /\ Rest
  <2>1. PICK steps \in {<<"check">>, Update, <<"write", "store", "reschedule">>, <<"reset">>},
             r \in Statuses \cup {NoStatus} :
           /\ Proceed(Management, steps, r)
           /\ r = NoStatus => steps = <<"reset">>
    <3>1. CASE Run
      BY <3>1 DEF Run, Enqueue, Statuses
    <3>2. CASE Configure
      <4>1. cached \in Statuses /\ cached # NoStatus
        BY DEF TypeOK
      <4> QED
        BY <3>2, <4>1, Concatenations DEF Configure
    <3>3. CASE \E s \in {"Enabled", "Disabled"} : SetStatus(s)
      BY <3>3 DEF SetStatus, Statuses
    <3>4. CASE Proceed(Management, <<"reset">>, NoStatus)
      BY <3>4
    <3> QED
      BY <1>8, <3>1, <3>2, <3>3, <3>4 DEF Request
  <2>2. steps \in Plans /\ (r = NoStatus => Head(steps) \notin Open)
    BY <2>1, Heads
  <2>3. Plan
    BY <1>a, <2>1, <2>2, ProceedPlans
  <2> QED
    BY <1>8, <2>3 DEF Request, Disturb, TypeOK
<1>9. ASSUME Reschedule PROVE Plan /\ Rest
  <2>1. Plan
    BY <1>9, <1>a, Heads, ProceedPlans DEF Reschedule, TypeOK
  <2> QED
    BY <1>9, <2>1 DEF Reschedule, TypeOK
<1>10. ASSUME NEW j \in Jobs, Dequeue(j) PROVE Plan /\ Rest
  <2>1. Plan
    BY <1>10, <1>a, Heads, ProceedPlans DEF Dequeue, TypeOK
  <2>2. PICK m \in Present : /\ queue' = [queue EXCEPT ![m] = Hidden(@, j)]
                             /\ message' = [message EXCEPT ![j] = m]
    BY <1>10 DEF Dequeue
  <2>3. m \in Slots /\ queue[m] \in Message /\ Hidden(queue[m], j) \in Message
    BY DEF Present, TypeOK, Hidden, Message
  <2> QED
    BY <1>10, <2>1, <2>2, <2>3 DEF Dequeue, TypeOK
<1>11. ASSUME NEW j \in Jobs, Invoked(j) PROVE Plan /\ Rest
  <2>1. Plan
    BY <1>11, <1>a, Heads, ProceedPlans DEF Invoked
  <2> QED
    BY <1>11, <2>1 DEF Invoked, TypeOK
<1>12. ASSUME NEW j \in Jobs, Complete(j) PROVE Plan /\ Rest
  <2>1. Plan
    BY <1>12, <1>a, Heads, ProceedPlans DEF Complete, Statuses
  <2> QED
    BY <1>12, <2>1 DEF Complete, Remove, TypeOK
<1>13. ASSUME NEW j \in Jobs, Error(j) PROVE Plan /\ Rest
  <2>1. PICK steps \in {<<>>, <<"write", "store", "settle">>}, r \in Statuses \cup {NoStatus} :
           /\ Proceed(j, steps, r)
           /\ r = NoStatus => steps = <<>>
    BY <1>13, Concatenations DEF Error, Statuses
  <2>2. Plan
    BY <1>a, <2>1, Heads, ProceedPlans
  <2> QED
    BY <1>13, <2>2 DEF Error, TypeOK
<1>14. ASSUME NEW j \in Jobs, Settle(j) PROVE Plan /\ Rest
  <2>1. Plan
    BY <1>14, <1>a, Heads, ProceedPlans DEF Settle
  <2> QED
    BY <1>14, <2>1 DEF Settle, Remove, TypeOK
<1>15. ASSUME NEW m \in Slots, Lapse(m) PROVE Plan /\ Rest
  <2>1. queue[m] \in Message /\ [queue[m] EXCEPT !.visible = TRUE] \in Message
    <3>1. queue[m] \in Message
      BY <1>15 DEF Lapse, Present, TypeOK
    <3> QED
      BY <3>1, MessageParts
  <2>2. Plan
    BY <1>15, PlansKept DEF Lapse
  <2> QED
    BY <1>15, <2>1, <2>2 DEF Lapse, TypeOK
<1>16. ASSUME Fault PROVE Plan /\ Rest
  <2>0. disturbances' \in 0..MaxDisturbances /\ blurred' \in BOOLEAN
    BY <1>16 DEF Fault, Disturb, TypeOK
  <2>1. ASSUME NEW j \in Jobs, Stall(j) PROVE Plan /\ Rest
    <3>1. /\ message[j] \in Slots /\ queue[message[j]] \in Message
          /\ [queue[message[j]] EXCEPT !.visible = TRUE] \in Message
      <4>1. message[j] \in Slots /\ queue[message[j]] \in Message
        BY <2>1 DEF Stall, Holds, Present, TypeOK
      <4> QED
        BY <4>1, MessageParts
    <3>2. Plan
      BY <2>1, PlansKept DEF Stall
    <3> QED
      BY <2>0, <2>1, <3>1, <3>2 DEF Stall, TypeOK
  <2>2. ASSUME NEW j \in Jobs, Die(j) PROVE Plan /\ Rest
    <3>1. Holds(j) => /\ message[j] \in Slots
                      /\ [queue[message[j]] EXCEPT !.receipt = NoJob] \in Message
      <4>1. Holds(j) => message[j] \in Slots /\ queue[message[j]] \in Message
        BY DEF Holds, Present, TypeOK
      <4> QED
        BY <4>1, MessageParts
    <3>2. Plan
      BY <2>2, <1>a, Heads, ProceedPlans DEF Die
    <3> QED
      BY <2>0, <2>2, <3>1, <3>2 DEF Die, TypeOK
  <2>3. ASSUME NEW j \in Jobs, CompleteFails(j) PROVE Plan /\ Rest
    <3>1. Plan
      BY <2>3, <1>a, Heads, ProceedPlans DEF CompleteFails
    <3> QED
      BY <2>0, <2>3, <3>1 DEF CompleteFails, TypeOK
  <2>4. ASSUME NEW m \in Slots, Expire(m) PROVE Plan /\ Rest
    <3>1. Plan
      BY <2>4, PlansKept DEF Expire
    <3> QED
      BY <2>0, <2>4, <3>1 DEF Expire, TypeOK
  <2>5. ASSUME Restart PROVE Plan /\ Rest
    <3>0. PICK silent \in SUBSET Jobs :
            /\ \E kept \in SUBSET Present : \E old \in SUBSET (Slots \ kept) :
                  queue' = [m \in Slots |-> IF m \in kept THEN Left(queue[m], silent)
                                            ELSE IF m \in old THEN NewMessage ELSE NoMessage]
            /\ todo' = [t \in Threads |-> Resumed(t, silent)]
            /\ message' = [j \in Jobs |-> IF j \in silent THEN NoMessage ELSE message[j]]
      BY <2>5 DEF Restart
    <3>1. \A t \in Threads : Resumed(t, silent) \in {<<"initialize">>, <<>>, <<"error">>, <<"run">>}
      <4>1. ASSUME NEW t \in Threads, ~Interrupted(t)
            PROVE  todo[t] \in {<<>>, <<"run">>}
        BY <4>1, <1>b, PlanOfRun DEF Interrupted, Idle, At
      <4> QED
        BY <4>1 DEF Resumed
    <3>2. \A t \in Threads : /\ Resumed(t, silent) \in Plans
                             /\ Resumed(t, silent) = <<>> \/ Head(Resumed(t, silent)) \notin Open
      BY <3>1, Heads
    <3>3. /\ todo' = [t \in Threads |-> Resumed(t, silent)]
          /\ own' = [t \in Threads |-> NoStatus]
      BY <2>5, <3>0 DEF Restart
    <3>4. Plan
      <4>1. todo' \in [Threads -> Plans] /\ own' \in [Threads -> Statuses \cup {NoStatus}]
        BY <3>2, <3>3
      <4>2. \A t \in Threads : todo'[t] = <<>> \/ Head(todo'[t]) \notin Open
        BY <3>2, <3>3
      <4>3. PlansInv'
        BY <4>1, <4>2 DEF PlansInv, At
      <4> QED
        BY <4>1, <4>3, PlansAreSequences
    <3>5. queue' \in [Slots -> Message \cup {NoMessage}]
      <4>1. ASSUME NEW m \in Present PROVE Left(queue[m], silent) \in Message
        <5>1. queue[m] \in Message
          BY DEF Present, TypeOK
        <5> QED
          BY <5>1, MessageParts DEF Left
      <4>2. NewMessage \in Message
        BY DEF NewMessage, Message
      <4> QED
        BY <3>0, <4>1, <4>2
    <3>6. message' \in [Jobs -> Slots \cup {NoMessage}]
      BY <3>0 DEF TypeOK
    <3> QED
      BY <2>0, <2>5, <3>4, <3>5, <3>6 DEF Restart, TypeOK
  <2> QED
    BY <1>16, <2>1, <2>2, <2>3, <2>4, <2>5 DEF Fault
<1>17. CASE UNCHANGED vars
  BY <1>17, PlansKept DEF vars, TypeOK
<1> QED
  BY <1>a, <1>1, <1>2, <1>3, <1>4, <1>5, <1>6, <1>7, <1>8, <1>9, <1>10, <1>11, <1>12,
     <1>13, <1>14, <1>15, <1>16, <1>17
  DEF Next, SchedulerStep, ManagementStep, EnqueueStep, JobStep

(* Workers.TypeOK, for every number of jobs and of slots.                    *)
THEOREM TypeCorrect == Spec => []TypeOK
<1>1. Init => TypeOK /\ PlansInv
  BY InitInv DEF IInv
<1>2. TypeOK /\ PlansInv /\ [Next]_vars => TypeOK' /\ PlansInv'
  BY TypeStep
<1> QED
  BY <1>1, <1>2, PTL DEF Spec

-------------------------------------------------------------------------------
(* One job at a time.                                                        *)
Calm == OneMessage /\ NothingToInsert /\ HeldByJob

(* Steps that leave the queue alone, and give nobody a message to complete.  *)
LEMMA QuietStep ==
  ASSUME TypeOK, Calm, NEW t \in Threads, NEW steps \in Plans, NEW r, Proceed(t, steps, r),
         steps = <<>> \/ Head(steps) # "insert",
         steps \in Pending => todo[t] \in Pending,
         UNCHANGED queue,
         \A j \in Jobs : todo'[j] \in Pending => message'[j] = message[j]
  PROVE  Calm'
<1>1. todo'[t] = steps /\ \A u \in Threads : u # t => todo'[u] = todo[u]
  BY DEF Proceed, TypeOK
<1>2. Present' = Present
  BY DEF Present
<1>3. OneMessage'
  BY <1>2 DEF Calm, OneMessage
<1>4. NothingToInsert'
  BY <1>1, <1>2 DEF Calm, NothingToInsert, At
<1>5. HeldByJob'
  <2> SUFFICES ASSUME NEW j \in Jobs, todo'[j] \in Pending
               PROVE  Holds(j)' /\ ~queue'[message'[j]].visible
    BY DEF HeldByJob
  <2>1. todo[j] \in Pending
    <3>1. CASE j = t
      BY <1>1, <3>1
    <3>2. CASE j # t
      BY <1>1, <3>2 DEF Threads
    <3> QED
      BY <3>1, <3>2
  <2>2. Holds(j) /\ ~queue[message[j]].visible
    BY <2>1 DEF Calm, HeldByJob
  <2> QED
    BY <1>2, <2>2 DEF Holds
<1> QED
  BY <1>3, <1>4, <1>5 DEF Calm

(* A job that has run the worker takes its message out of the queue.         *)
LEMMA RemoveStep ==
  ASSUME TypeOK, Calm, NEW j \in Jobs, NEW steps \in {Update, <<>>}, NEW r, Remove(j),
         Proceed(j, steps, r), \A k \in Jobs : k # j => message'[k] = message[k]
  PROVE  Calm'
<1>1. todo'[j] = steps /\ \A u \in Threads : u # j => todo'[u] = todo[u]
  BY DEF Proceed, TypeOK, Threads
<1>2. Present' \subseteq Present
  BY DEF Remove, Holds, Present, TypeOK
<1>3. OneMessage'
  BY <1>2 DEF Calm, OneMessage
<1>4. NothingToInsert'
  <2>1. steps = <<>> \/ Head(steps) # "insert"
    BY Heads DEF Update
  <2> QED
    BY <1>1, <1>2, <2>1 DEF Calm, NothingToInsert, At
<1>5. HeldByJob'
  <2> SUFFICES ASSUME NEW k \in Jobs, todo'[k] \in Pending
               PROVE  Holds(k)' /\ ~queue'[message'[k]].visible
    BY DEF HeldByJob
  <2>1. k # j
    BY <1>1, Heads
  <2>2. /\ message'[k] = message[k] /\ message[k] \in Present
        /\ queue[message[k]].receipt = k /\ ~queue[message[k]].visible
    BY <1>1, <2>1 DEF Calm, HeldByJob, Holds, Threads
  <2>3. queue'[message[k]] = queue[message[k]]
    BY <2>1, <2>2 DEF Remove, Holds, Present, TypeOK
  <2> QED
    BY <2>2, <2>3 DEF Holds, Present
<1> QED
  BY <1>3, <1>4, <1>5 DEF Calm

LEMMA CalmStep ==
  ASSUME TypeOK, PlansInv, ~blurred => Calm, [Next]_vars, ~blurred'
  PROVE  Calm'
<1>a. Scheduler \in Threads /\ Management \in Threads /\ Jobs \subseteq Threads
  BY DEF Threads
<1>b. \A t \in Threads : todo[t] \in Plans
  BY DEF PlansInv
<1>c. \A s \in {<<>>, <<"check">>, Update, <<"reschedule">>, <<"initialize">>, <<"orphan">>,
                 <<"reset">>, <<"write", "store", "reschedule">>} :
         s \in Plans /\ s \notin Pending /\ (s = <<>> \/ Head(s) # "insert")
  BY Heads
<1>1. ASSUME NEW t \in Threads, Write(t) PROVE Calm'
  <2>1. /\ Tail(todo[t]) \in Plans /\ Head(Tail(todo[t])) # "insert"
        /\ Tail(todo[t]) \in Pending => todo[t] \in Pending
    BY <1>1, <1>b, PlanOfWrite DEF Write, At
  <2> QED
    BY <1>1, <2>1, QuietStep DEF Write
<1>2. ASSUME NEW t \in Threads, Store(t) PROVE Calm'
  <2>1. /\ Tail(todo[t]) \in {<<>>, <<"reschedule">>, <<"settle">>, <<"run">>}
        /\ Tail(todo[t]) \in Pending => todo[t] \in Pending /\ Len(todo[t]) # 1
    BY <1>2, <1>b, PlanOfStore DEF Store, At
  <2>2. /\ Tail(todo[t]) \in Plans
        /\ Tail(todo[t]) = <<>> \/ Head(Tail(todo[t])) # "insert"
    BY <2>1, Heads
  <2>3. todo'[t] = Tail(todo[t])
    BY <1>2 DEF Store, Proceed, TypeOK
  <2>4. \A j \in Jobs : todo'[j] \in Pending => message'[j] = message[j]
    BY <1>2, <2>1, <2>3 DEF Store, TypeOK
  <2> QED
    BY <1>2, <2>1, <2>2, <2>4, QuietStep DEF Store
<1>3. ASSUME NEW t \in Threads, CheckDuplicate(t) PROVE Calm'
  <2>1. CASE Duplicate
    BY <1>3, <1>c, <2>1, QuietStep DEF CheckDuplicate
  <2>2. CASE ~Duplicate
    <3>1. Present = {} /\ Present' = {}
      BY <1>3, <2>2 DEF CheckDuplicate, Duplicate, Present
    <3>2. todo'[t] = <<"insert", "write", "store">> /\ \A u \in Threads : u # t => todo'[u] = todo[u]
      BY <1>3, <2>2, Concatenations DEF CheckDuplicate, Proceed, TypeOK
    <3>3. \A j \in Jobs : todo'[j] \notin Pending
      <4>1. \A j \in Jobs : todo[j] \notin Pending
        BY <1>3, <3>1 DEF CheckDuplicate, Calm, HeldByJob, Holds
      <4> QED
        BY <1>a, <3>2, <4>1, Heads
    <3> QED
      BY <3>1, <3>3 DEF Calm, OneMessage, NothingToInsert, HeldByJob
  <2> QED
    BY <2>1, <2>2
<1>4. ASSUME NEW t \in Threads, Insert(t) PROVE Calm'
  <2>1. ~blurred /\ \A u \in Threads : u # t => ~At(u, "insert")
    BY <1>4 DEF Insert, TypeOK
  <2>2. Present = {}
    BY <1>4, <2>1 DEF Insert, Calm, NothingToInsert
  <2>3. todo'[t] = Update /\ \A u \in Threads : u # t => todo'[u] = todo[u]
    BY <1>4, <1>b, PlanOfInsert DEF Insert, At, Proceed, TypeOK
  <2>4. PICK m \in Slots \ Present : queue' = [queue EXCEPT ![m] = NewMessage]
    BY <1>4 DEF Insert
  <2>5. Present' \subseteq {m}
    BY <2>2, <2>4 DEF Present, TypeOK
  <2>6. \A u \in Threads : ~At(u, "insert")'
    BY <2>1, <2>3, Heads DEF At, Update
  <2>7. \A j \in Jobs : todo'[j] \notin Pending
    <3>1. \A j \in Jobs : todo[j] \notin Pending
      BY <2>1, <2>2 DEF Calm, HeldByJob, Holds
    <3> QED
      BY <1>a, <2>3, <3>1, Heads
  <2> QED
    BY <2>5, <2>6, <2>7 DEF Calm, OneMessage, NothingToInsert, HeldByJob
<1>5. ASSUME NEW t \in Threads, ResetWorker(t) PROVE Calm'
  BY <1>5, <1>c, QuietStep DEF ResetWorker
<1>6. ASSUME Initialize \/ CheckOrphan \/ FindOrphan PROVE Calm'
  <2>1. PICK steps \in {<<"reset">>, <<"orphan">>, <<>>} : Proceed(Scheduler, steps, NoStatus)
    BY <1>6 DEF Initialize, CheckOrphan, FindOrphan
  <2>2. UNCHANGED <<queue, message, blurred>>
    BY <1>6 DEF Initialize, CheckOrphan, FindOrphan
  <2> QED
    BY <1>a, <1>c, <2>1, <2>2, QuietStep
<1>7. ASSUME Schedule PROVE Calm'
  BY <1>7, <1>a, <1>c, QuietStep DEF Schedule, Enqueue
<1>8. ASSUME Request \/ Reschedule PROVE Calm'
  <2>1. PICK steps \in {<<"check">>, Update, <<"write", "store", "reschedule">>, <<"reset">>},
             r \in Statuses \cup {NoStatus} : Proceed(Management, steps, r)
    BY <1>8, Concatenations
    DEF Request, Reschedule, Run, Enqueue, Configure, SetStatus, Statuses, TypeOK
  <2>2. UNCHANGED <<queue, message, blurred>>
    BY <1>8 DEF Request, Reschedule
  <2> QED
    BY <1>a, <1>c, <2>1, <2>2, QuietStep
<1>9. ASSUME NEW j \in Jobs, Dequeue(j) PROVE Calm'
  <2>1. PICK m \in Present : /\ queue[m].visible
                             /\ queue' = [queue EXCEPT ![m] = Hidden(@, j)]
                             /\ message' = [message EXCEPT ![j] = m]
    BY <1>9 DEF Dequeue
  <2>2. ~blurred
    BY <1>9 DEF Dequeue
  <2>3. m \in Slots /\ queue[m] \in Message /\ queue[m] # NoMessage
    BY DEF Present, TypeOK
  <2>4. queue'[m] # NoMessage /\ queue'[m].receipt = j /\ ~queue'[m].visible
    <3>1. queue'[m] = Hidden(queue[m], j)
      BY <2>1, <2>3 DEF TypeOK
    <3>2. /\ Hidden(queue[m], j) \in Message
          /\ Hidden(queue[m], j).receipt = j /\ ~Hidden(queue[m], j).visible
      BY <2>3 DEF Hidden, Message
    <3> QED
      BY <3>1, <3>2
  <2>5. Present' = Present
    BY <2>1, <2>3, <2>4 DEF Present, TypeOK
  <2>6. todo'[j] = <<"store", "run">> /\ \A u \in Threads : u # j => todo'[u] = todo[u]
    BY <1>9, <1>a DEF Dequeue, Proceed, TypeOK
  <2>7. \A k \in Jobs : todo[k] \notin Pending
    BY <2>1, <2>2 DEF Calm, OneMessage, HeldByJob, Holds
  <2>8. HeldByJob'
    BY <1>a, <2>1, <2>4, <2>5, <2>6, <2>7 DEF HeldByJob, Holds, TypeOK
  <2>9. NothingToInsert'
    BY <2>2, <2>5, <2>6, Heads DEF Calm, NothingToInsert, At
  <2> QED
    BY <2>2, <2>5, <2>8, <2>9 DEF Calm, OneMessage
<1>10. ASSUME NEW j \in Jobs, Invoked(j) PROVE Calm'
  <2>1. PICK step \in {"complete", "error"} : Proceed(j, <<step>>, NoStatus)
    BY <1>10 DEF Invoked
  <2>2. <<step>> \in Plans /\ Head(<<step>>) # "insert"
    BY <2>1, Heads
  <2>3. todo[j] \in Pending
    BY <1>10, <1>a, <1>b, PlanOfRun DEF Invoked, At
  <2> QED
    BY <1>10, <1>a, <2>1, <2>2, <2>3, QuietStep DEF Invoked
<1>11. ASSUME NEW j \in Jobs, Complete(j) PROVE Calm'
  BY <1>11, RemoveStep DEF Complete
<1>12. ASSUME NEW j \in Jobs, Error(j) PROVE Calm'
  <2>1. todo[j] \in Pending
    BY <1>12, <1>a, <1>b, PlanOfRun DEF Error, At
  <2>2. CASE Holds(j)
    <3>1. PICK s \in Statuses : Proceed(j, <<"write", "store", "settle">>, s)
      BY <1>12, <2>2, Concatenations DEF Error, Statuses
    <3>2. <<"write", "store", "settle">> \in Plans /\ Head(<<"write", "store", "settle">>) # "insert"
      BY Heads
    <3> QED
      BY <1>12, <1>a, <2>1, <2>2, <3>1, <3>2, QuietStep DEF Error
  <2>3. CASE ~Holds(j)
    <3>1. todo'[j] = <<>> /\ \A k \in Jobs : k # j => message'[k] = message[k]
      BY <1>12, <1>a, <2>3 DEF Error, Proceed, TypeOK
    <3> QED
      BY <1>12, <1>a, <1>c, <2>3, <3>1, QuietStep DEF Error
  <2> QED
    BY <2>2, <2>3
<1>13. ASSUME NEW j \in Jobs, Settle(j) PROVE Calm'
  <2>1. \A k \in Jobs : k # j => message'[k] = message[k]
    BY <1>13 DEF Settle, TypeOK
  <2> QED
    BY <1>13, <2>1, RemoveStep DEF Settle
<1>14. ASSUME NEW m \in Slots, Lapse(m) PROVE Calm'
  <2>1. Present' = Present
    BY <1>14 DEF Lapse, Present, TypeOK, Message
  <2>2. \A j \in Jobs : Holds(j) => message[j] # m
    BY <1>14 DEF Lapse, Holds
  <2>3. HeldByJob'
    BY <1>14, <2>1, <2>2 DEF Lapse, Calm, HeldByJob, Holds, TypeOK
  <2> QED
    BY <1>14, <2>1, <2>3 DEF Lapse, Calm, OneMessage, NothingToInsert, At
<1>15. ASSUME Fault PROVE FALSE
  BY <1>15 DEF Fault
<1>16. CASE UNCHANGED vars
  BY <1>16 DEF vars, Calm, OneMessage, NothingToInsert, HeldByJob, Holds, Present, At
<1> QED
  BY <1>a, <1>1, <1>2, <1>3, <1>4, <1>5, <1>6, <1>7, <1>8, <1>9, <1>10, <1>11, <1>12,
     <1>13, <1>14, <1>15, <1>16
  DEF Next, SchedulerStep, ManagementStep, EnqueueStep, JobStep

(* Workers.OneRun: whatever the scheduler, the management and the jobs write  *)
(* and store in between, a worker is run by one job at a time.  The induction *)
(* needs IInv: the duplicate check keeps the messages to one, and a job that  *)
(* has not completed its message has it hidden.                               *)
THEOREM OneRunHolds == Spec => []OneRun
<1>1. IInv /\ [Next]_vars => IInv'
  <2> SUFFICES ASSUME IInv, [Next]_vars PROVE IInv'
    OBVIOUS
  <2>1. TypeOK' /\ PlansInv'
    BY TypeStep DEF IInv
  <2>2. ~blurred' => Calm'
    BY CalmStep DEF IInv, Calm
  <2> QED
    BY <2>1, <2>2 DEF IInv, Calm
<1>2. IInv => OneRun
  <2> SUFFICES ASSUME IInv, ~blurred PROVE Cardinality(Running) <= 1
    BY DEF OneRun
  <2>1. \A j, k \in Running : j = k
    <3> SUFFICES ASSUME NEW j \in Running, NEW k \in Running PROVE j = k
      OBVIOUS
    <3>1. j \in Jobs /\ k \in Jobs /\ todo[j] \in Pending /\ todo[k] \in Pending
      <4>1. ASSUME NEW i \in Running PROVE i \in Jobs /\ todo[i] \in Pending
        <5>1. i \in Jobs /\ todo[i] \in Plans /\ todo[i] # <<>> /\ Head(todo[i]) = "run"
          BY DEF Running, IInv, PlansInv, At, Threads
        <5> QED
          BY <5>1, PlanOfRun
      <4> QED
        BY <4>1
    <3>2. Holds(j) /\ Holds(k) /\ OneMessage
      BY <3>1 DEF IInv, HeldByJob
    <3> QED
      BY <3>2 DEF Holds, OneMessage
  <2>2. CASE Running = {}
    BY <2>2, FS_EmptySet
  <2>3. CASE Running # {}
    <3>1. PICK j : Running = {j}
      BY <2>1, <2>3
    <3>2. Cardinality({j}) = 1
      BY FS_Singleton, Zenon
    <3> QED
      BY <3>1, <3>2
  <2> QED
    BY <2>2, <2>3
<1> QED
  BY InitInv, <1>1, <1>2, PTL DEF Spec
===============================================================================

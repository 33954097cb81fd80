----------------------------- MODULE BigData_proofs -----------------------------
(* What TLAPS proves of BigData.tla for all rows, batches, servers, threads, *)
(* blocks and numbers of faults: its types, that a row a client has brought  *)
(* is never lost but where a thread makes a new block of it, and that no row *)
(* is merged twice as long as nothing goes wrong.                            *)
EXTENDS BigData, SequenceTheorems, TLAPS

USE NamesAssumption, BoundsAssumption

-------------------------------------------------------------------------------
(* The parts of the records.                                                 *)
LEMMA Live ==
  ASSUME TypeOK, NEW d \in Deliveries, ~At(d, "free")
  PROVE  /\ delivery[d] \in Delivery
         /\ delivery[d].step \in WorkSteps \cup {"queued"}
         /\ delivery[d].block \in Blocks /\ Server(d) \in Servers
         /\ delivery[d].rows \in SUBSET Rows /\ delivery[d].locked \in SUBSET Rows
         /\ delivery[d].merged \in BOOLEAN
<1>1. delivery[d] \in Delivery
  BY DEF TypeOK, At, Free
<1> QED
  BY <1>1 DEF Delivery, Server

LEMMA Busy ==
  ASSUME TypeOK, NEW j \in Jobs, job[j] # Idle
  PROVE  /\ job[j] \in Job
         /\ job[j].step \in {"query", "create"} /\ job[j].server \in Servers
         /\ job[j].chunks \in SUBSET Chunk /\ job[j].last \in 0..MaxChunks
<1>1. job[j] \in Job
  BY DEF TypeOK
<1> QED
  BY <1>1 DEF Job

LEMMA StepsApart ==
  /\ "free" \notin WorkSteps \cup {"queued"}
  /\ WorkSteps = {"ping", "load", "merge", "settle", "prepare"}
  /\ Free.step = "free" /\ Idle.step = "idle"
BY DEF WorkSteps, Free, Idle

LEMMA MessageParts ==
  ASSUME NEW m \in Message, NEW d
  PROVE  /\ m.holder \in Deliveries \cup {Nobody} /\ m.visible \in BOOLEAN /\ m.queued \in BOOLEAN
         /\ Forget(m, d) \in Message
         /\ Forget(m, d).holder = (IF m.holder = d THEN Nobody ELSE m.holder)
         /\ Forget(m, d).visible = m.visible /\ Forget(m, d).queued = m.queued
BY DEF Message, Forget

LEMMA NewMessages == NoMessage \in Message /\ NewMessage \in Message /\ NoRows \in Block
BY DEF NoMessage, NewMessage, Message, NoRows, Block

-------------------------------------------------------------------------------
(* What the operations of a delivery do to messages and blocks.              *)
LEMMA PingedFacts ==
  ASSUME TypeOK, NEW d \in Deliveries, ~At(d, "free")
  PROVE  /\ Pinged(d) \in [Blocks -> Message]
         /\ \A b \in Blocks : /\ Pinged(d)[b].queued = message[b].queued
                              /\ Pinged(d)[b].holder = message[b].holder
                              /\ Pinged(d)[b].visible => message[b].visible
<1>1. delivery[d].block \in Blocks /\ message \in [Blocks -> Message]
  BY Live DEF TypeOK
<1>2. /\ [message[delivery[d].block] EXCEPT !.visible = FALSE] \in Message
      /\ [message[delivery[d].block] EXCEPT !.visible = FALSE].queued
            = message[delivery[d].block].queued
      /\ [message[delivery[d].block] EXCEPT !.visible = FALSE].holder
            = message[delivery[d].block].holder
      /\ [message[delivery[d].block] EXCEPT !.visible = FALSE].visible = FALSE
  BY <1>1 DEF Message
<1>3. CASE Holds(d)
  <2>1. Pinged(d) = [message EXCEPT ![delivery[d].block] =
                        [message[delivery[d].block] EXCEPT !.visible = FALSE]]
    BY <1>1, <1>3 DEF Pinged
  <2> QED
    BY <1>1, <1>2, <2>1
<1>4. CASE ~Holds(d)
  BY <1>1, <1>4 DEF Pinged
<1> QED
  BY <1>3, <1>4

LEMMA CompletedFacts ==
  ASSUME TypeOK, NEW d \in Deliveries, ~At(d, "free")
  PROVE  /\ CompletedMessage(d) \in [Blocks -> Message]
         /\ CompletedBlock(d) \in [Blocks -> Block]
         /\ Holds(d) => CompletedMessage(d)[delivery[d].block] = NoMessage
         /\ \A b \in Blocks :
               /\ CompletedBlock(d)[b].rows = block[b].rows
               /\ ~(Holds(d) /\ b = delivery[d].block) =>
                     CompletedMessage(d)[b] = message[b] /\ CompletedBlock(d)[b] = block[b]
<1>1. /\ delivery[d].block \in Blocks /\ message \in [Blocks -> Message]
      /\ block \in [Blocks -> Block]
  BY Live DEF TypeOK
<1>2. /\ [block[delivery[d].block] EXCEPT !.exists = FALSE] \in Block
      /\ [block[delivery[d].block] EXCEPT !.exists = FALSE].rows = block[delivery[d].block].rows
  BY <1>1 DEF Block
<1>3. CASE Holds(d)
  <2>1. CompletedBlock(d) = [block EXCEPT ![delivery[d].block] =
                                [block[delivery[d].block] EXCEPT !.exists = FALSE]]
    BY <1>1, <1>3 DEF CompletedBlock
  <2> QED
    BY <1>1, <1>2, <1>3, <2>1, NewMessages DEF CompletedMessage
<1>4. CASE ~Holds(d)
  BY <1>1, <1>4 DEF CompletedMessage, CompletedBlock
<1> QED
  BY <1>3, <1>4

LEMMA EndFacts ==
  ASSUME TypeOK, NEW d \in Deliveries, ~At(d, "free"),
         NEW msgs \in [Blocks -> Message], End(d, msgs)
  PROVE  /\ delivery' = [delivery EXCEPT ![d] = Free]
         /\ delivery' \in [Deliveries -> Delivery \cup {Free}]
         /\ message' \in [Blocks -> Message]
         /\ \A b \in Blocks :
               /\ message'[b].queued = msgs[b].queued
               /\ message'[b].visible = msgs[b].visible
               /\ message'[b].holder = IF msgs[b].holder = d /\ b = delivery[d].block
                                       THEN Nobody ELSE msgs[b].holder
<1>1. delivery[d].block \in Blocks
  BY Live
<1>2. message' = [msgs EXCEPT ![delivery[d].block] = Forget(msgs[delivery[d].block], d)]
  BY <1>1 DEF End
<1>3. delivery' = [delivery EXCEPT ![d] = Free]
  BY DEF End
<1>4. delivery' \in [Deliveries -> Delivery \cup {Free}]
  BY <1>3 DEF TypeOK
<1> QED
  BY <1>1, <1>2, <1>3, <1>4, MessageParts

(* A delivery goes on to another step of its block.                          *)
GoesOn(d, step, rows, locked, merged) ==
    /\ delivery' \in [Deliveries -> Delivery \cup {Free}]
    /\ delivery'[d].step = step
    /\ delivery'[d].block = delivery[d].block /\ delivery'[d].server = delivery[d].server
    /\ delivery'[d].rows = rows /\ delivery'[d].locked = locked /\ delivery'[d].merged = merged
    /\ \A e \in Deliveries \ {d} : delivery'[e] = delivery[e]

LEMMA GoesOnFacts ==
  ASSUME TypeOK, NEW d \in Deliveries, ~At(d, "free"), NEW new \in Delivery,
         delivery' = [delivery EXCEPT ![d] = new],
         new.block = delivery[d].block, new.server = delivery[d].server
  PROVE  GoesOn(d, new.step, new.rows, new.locked, new.merged)
<1>1. delivery \in [Deliveries -> Delivery \cup {Free}]
  BY DEF TypeOK
<1> QED
  BY <1>1 DEF GoesOn

LEMMA RecordUpdates ==
  ASSUME NEW rec \in Delivery, NEW s \in WorkSteps, NEW x \in SUBSET Rows, NEW y \in SUBSET Rows
  PROVE  /\ [rec EXCEPT !.step = s] \in Delivery
         /\ [rec EXCEPT !.step = s, !.rows = x] \in Delivery
         /\ [rec EXCEPT !.rows = x, !.merged = TRUE] \in Delivery
         /\ [rec EXCEPT !.rows = x, !.locked = y] \in Delivery
         /\ [rec EXCEPT !.locked = y] \in Delivery
BY DEF Delivery

LEMMA StepFacts ==
  ASSUME TypeOK, NEW d \in Deliveries
  PROVE  /\ Ping(d) => GoesOn(d, "load", delivery[d].rows, delivery[d].locked, delivery[d].merged)
         /\ LoadData(d) => GoesOn(d, "merge", block[delivery[d].block].rows,
                                  delivery[d].locked, delivery[d].merged)
         /\ \A r \in Rows : Merge(d, r) =>
               GoesOn(d, "merge", delivery[d].rows \ {r}, delivery[d].locked, TRUE)
         /\ \A r \in Rows : Locked(d, r) =>
               GoesOn(d, "merge", delivery[d].rows \ {r}, delivery[d].locked \cup {r},
                      delivery[d].merged)
         /\ Complete(d) => GoesOn(d, "settle", delivery[d].rows, delivery[d].locked,
                                  delivery[d].merged)
         /\ Settle(d) /\ Again(d) => GoesOn(d, "prepare", delivery[d].rows, delivery[d].locked,
                                            delivery[d].merged)
         /\ PrepareLocked(d) => GoesOn(d, "prepare", delivery[d].rows, {}, delivery[d].merged)
<1>1. /\ delivery \in [Deliveries -> Delivery \cup {Free}]
      /\ "load" \in WorkSteps /\ "merge" \in WorkSteps /\ "settle" \in WorkSteps
      /\ "prepare" \in WorkSteps
  BY DEF TypeOK, WorkSteps
<1>2. ASSUME ~At(d, "free")
      PROVE  /\ delivery[d] \in Delivery /\ delivery[d].merged \in BOOLEAN
             /\ delivery[d].rows \in SUBSET Rows /\ delivery[d].locked \in SUBSET Rows
             /\ block[delivery[d].block].rows \in SUBSET Rows
  BY <1>2, Live DEF TypeOK, Block
<1>4. ASSUME Ping(d)
      PROVE  GoesOn(d, "load", delivery[d].rows, delivery[d].locked, delivery[d].merged)
  <2> DEFINE new == [delivery[d] EXCEPT !.step = "load"]
  <2>1. ~At(d, "free")
    BY <1>4 DEF Ping, At
  <2>2. delivery' = [delivery EXCEPT ![d] = new]
    BY <1>4, <1>1, <1>2, <2>1 DEF Ping
  <2>3. new \in Delivery
    BY <1>1, <1>2, <2>1, RecordUpdates
  <2>4. /\ new.step = "load" /\ new.rows = delivery[d].rows
        /\ new.locked = delivery[d].locked /\ new.merged = delivery[d].merged
        /\ new.block = delivery[d].block /\ new.server = delivery[d].server
    BY <1>2, <2>1 DEF Delivery
  <2> HIDE DEF new
  <2>5. GoesOn(d, new.step, new.rows, new.locked, new.merged)
    BY <2>1, <2>2, <2>3, <2>4, GoesOnFacts
  <2> QED
    BY <2>1, <2>4, <2>5
<1>5. ASSUME LoadData(d)
      PROVE  GoesOn(d, "merge", block[delivery[d].block].rows, delivery[d].locked,
                    delivery[d].merged)
  <2> DEFINE new == [delivery[d] EXCEPT !.step = "merge", !.rows = block[delivery[d].block].rows]
  <2>1. ~At(d, "free")
    BY <1>5 DEF LoadData, At
  <2>2. delivery' = [delivery EXCEPT ![d] = new]
    BY <1>5, <1>1, <1>2, <2>1 DEF LoadData
  <2>3. new \in Delivery
    BY <1>1, <1>2, <2>1, RecordUpdates
  <2>4. /\ new.step = "merge" /\ new.rows = block[delivery[d].block].rows
        /\ new.locked = delivery[d].locked /\ new.merged = delivery[d].merged
        /\ new.block = delivery[d].block /\ new.server = delivery[d].server
    BY <1>2, <2>1 DEF Delivery
  <2> HIDE DEF new
  <2>5. GoesOn(d, new.step, new.rows, new.locked, new.merged)
    BY <2>1, <2>2, <2>3, <2>4, GoesOnFacts
  <2> QED
    BY <2>1, <2>4, <2>5
<1>6. ASSUME NEW r \in Rows, Merge(d, r)
      PROVE  GoesOn(d, "merge", delivery[d].rows \ {r}, delivery[d].locked, TRUE)
  <2> DEFINE new == [delivery[d] EXCEPT !.rows = delivery[d].rows \ {r}, !.merged = TRUE]
  <2>1. ~At(d, "free") /\ delivery[d].step = "merge"
    BY <1>6 DEF Merge, At
  <2>2. delivery' = [delivery EXCEPT ![d] = new]
    BY <1>6, <1>1, <1>2, <2>1 DEF Merge
  <2>3. new \in Delivery
    BY <1>1, <1>2, <2>1, RecordUpdates
  <2>4. /\ new.step = delivery[d].step /\ new.rows = delivery[d].rows \ {r}
        /\ new.locked = delivery[d].locked /\ new.merged = TRUE
        /\ new.block = delivery[d].block /\ new.server = delivery[d].server
    BY <1>2, <2>1 DEF Delivery
  <2> HIDE DEF new
  <2>5. GoesOn(d, new.step, new.rows, new.locked, new.merged)
    BY <2>1, <2>2, <2>3, <2>4, GoesOnFacts
  <2> QED
    BY <2>1, <2>4, <2>5
<1>7. ASSUME NEW r \in Rows, Locked(d, r)
      PROVE  GoesOn(d, "merge", delivery[d].rows \ {r}, delivery[d].locked \cup {r},
                    delivery[d].merged)
  <2> DEFINE new == [delivery[d] EXCEPT !.rows = delivery[d].rows \ {r},
                                     !.locked = delivery[d].locked \cup {r}]
  <2>1. ~At(d, "free") /\ delivery[d].step = "merge"
    BY <1>7 DEF Locked, At
  <2>2. delivery' = [delivery EXCEPT ![d] = new]
    BY <1>7, <1>1, <1>2, <2>1 DEF Locked
  <2>3. new \in Delivery
    <3>1. delivery[d].rows \ {r} \in SUBSET Rows /\ delivery[d].locked \cup {r} \in SUBSET Rows
      BY <1>2, <2>1
    <3>2. delivery[d] \in Delivery /\ "merge" \in WorkSteps
      BY <1>1, <1>2, <2>1
    <3> QED
      BY <3>1, <3>2, RecordUpdates
  <2>4. /\ new.step = delivery[d].step /\ new.rows = delivery[d].rows \ {r}
        /\ new.locked = delivery[d].locked \cup {r} /\ new.merged = delivery[d].merged
        /\ new.block = delivery[d].block /\ new.server = delivery[d].server
    BY <1>2, <2>1 DEF Delivery
  <2> HIDE DEF new
  <2>5. GoesOn(d, new.step, new.rows, new.locked, new.merged)
    BY <2>1, <2>2, <2>3, <2>4, GoesOnFacts
  <2> QED
    BY <2>1, <2>4, <2>5
<1>8. ASSUME Complete(d)
      PROVE  GoesOn(d, "settle", delivery[d].rows, delivery[d].locked, delivery[d].merged)
  <2> DEFINE new == [delivery[d] EXCEPT !.step = "settle"]
  <2>1. ~At(d, "free")
    BY <1>8 DEF Complete, At
  <2>2. delivery' = [delivery EXCEPT ![d] = new]
    BY <1>8, <1>1, <1>2, <2>1 DEF Complete
  <2>3. new \in Delivery
    BY <1>1, <1>2, <2>1, RecordUpdates
  <2>4. /\ new.step = "settle" /\ new.rows = delivery[d].rows
        /\ new.locked = delivery[d].locked /\ new.merged = delivery[d].merged
        /\ new.block = delivery[d].block /\ new.server = delivery[d].server
    BY <1>2, <2>1 DEF Delivery
  <2> HIDE DEF new
  <2>5. GoesOn(d, new.step, new.rows, new.locked, new.merged)
    BY <2>1, <2>2, <2>3, <2>4, GoesOnFacts
  <2> QED
    BY <2>1, <2>4, <2>5
<1>9. ASSUME Settle(d), Again(d)
      PROVE  GoesOn(d, "prepare", delivery[d].rows, delivery[d].locked, delivery[d].merged)
  <2> DEFINE new == [delivery[d] EXCEPT !.step = "prepare"]
  <2>1. ~At(d, "free")
    BY <1>9 DEF Settle, At
  <2>2. delivery' = [delivery EXCEPT ![d] = new]
    BY <1>9, <1>1, <1>2, <2>1 DEF Settle
  <2>3. new \in Delivery
    BY <1>1, <1>2, <2>1, RecordUpdates
  <2>4. /\ new.step = "prepare" /\ new.rows = delivery[d].rows
        /\ new.locked = delivery[d].locked /\ new.merged = delivery[d].merged
        /\ new.block = delivery[d].block /\ new.server = delivery[d].server
    BY <1>2, <2>1 DEF Delivery
  <2> HIDE DEF new
  <2>5. GoesOn(d, new.step, new.rows, new.locked, new.merged)
    BY <2>1, <2>2, <2>3, <2>4, GoesOnFacts
  <2> QED
    BY <2>1, <2>4, <2>5
<1>10. ASSUME PrepareLocked(d)
      PROVE  GoesOn(d, "prepare", delivery[d].rows, {}, delivery[d].merged)
  <2> DEFINE new == [delivery[d] EXCEPT !.locked = {}]
  <2>1. ~At(d, "free") /\ delivery[d].step = "prepare"
    BY <1>10 DEF PrepareLocked, At
  <2>2. delivery' = [delivery EXCEPT ![d] = new]
    BY <1>10, <1>1, <1>2, <2>1 DEF PrepareLocked
  <2>3. new \in Delivery
    BY <1>1, <1>2, <2>1, RecordUpdates
  <2>4. /\ new.step = delivery[d].step /\ new.rows = delivery[d].rows
        /\ new.locked = {} /\ new.merged = delivery[d].merged
        /\ new.block = delivery[d].block /\ new.server = delivery[d].server
    BY <1>2, <2>1 DEF Delivery
  <2> HIDE DEF new
  <2>5. GoesOn(d, new.step, new.rows, new.locked, new.merged)
    BY <2>1, <2>2, <2>3, <2>4, GoesOnFacts
  <2> QED
    BY <2>1, <2>4, <2>5
<1> QED
  BY <1>4, <1>5, <1>6, <1>7, <1>8, <1>9, <1>10
(* The pools.                                                                *)
LEMMA WithoutFacts ==
  ASSUME NEW q \in Seq(Deliveries), NEW n \in 1..Len(q)
  PROVE  /\ Without(q, n) \in Seq(Deliveries)
         /\ Len(Without(q, n)) = Len(q) - 1
         /\ \A m \in 1..Len(q) - 1 : Without(q, n)[m] = q[IF m < n THEN m ELSE m + 1]
<1>1. Len(q) \in Nat /\ n \in Nat /\ n <= Len(q) /\ \A m \in 1..Len(q) : q[m] \in Deliveries
  BY LenProperties, ElementOfSeq
<1> DEFINE a == SubSeq(q, 1, n - 1)
           b == SubSeq(q, n + 1, Len(q))
<1>2. /\ a \in Seq(Deliveries) /\ Len(a) = n - 1
      /\ \A m \in 1..n - 1 : a[m] = q[m]
  <2>1. n - 1 \in Int /\ \A m \in 1..n - 1 : q[m] \in Deliveries
    BY <1>1
  <2>2. /\ SubSeq(q, 1, n - 1) \in Seq(Deliveries)
        /\ Len(SubSeq(q, 1, n - 1)) = IF 1 <= n - 1 THEN (n - 1) - 1 + 1 ELSE 0
        /\ \A m \in 1..(n - 1) - 1 + 1 : SubSeq(q, 1, n - 1)[m] = q[1 + m - 1]
    BY <2>1, SubSeqProperties
  <2> QED
    BY <1>1, <2>2
<1>3. /\ b \in Seq(Deliveries) /\ Len(b) = Len(q) - n
      /\ \A m \in 1..Len(q) - n : b[m] = q[n + m]
  <2>1. n + 1 \in Int /\ Len(q) \in Int /\ \A m \in n + 1..Len(q) : q[m] \in Deliveries
    BY <1>1
  <2>2. /\ SubSeq(q, n + 1, Len(q)) \in Seq(Deliveries)
        /\ Len(SubSeq(q, n + 1, Len(q))) = IF n + 1 <= Len(q) THEN Len(q) - (n + 1) + 1 ELSE 0
        /\ \A m \in 1..Len(q) - (n + 1) + 1 : SubSeq(q, n + 1, Len(q))[m] = q[(n + 1) + m - 1]
    BY <2>1, SubSeqProperties
  <2>3. /\ Len(q) - (n + 1) + 1 = Len(q) - n
        /\ \A m \in 1..Len(q) - n : (n + 1) + m - 1 = n + m
        /\ n + 1 <= Len(q) \/ Len(q) - n = 0
    BY <1>1
  <2>4. Len(b) = Len(q) - n
    BY <1>1, <2>2, <2>3
  <2> QED
    BY <2>2, <2>3, <2>4
<1>4. Without(q, n) = a \o b
  BY DEF Without
<1> HIDE DEF a, b
<1>5. /\ a \o b \in Seq(Deliveries) /\ Len(a \o b) = Len(a) + Len(b)
      /\ \A m \in 1..Len(a) + Len(b) : (a \o b)[m] = IF m <= Len(a) THEN a[m] ELSE b[m - Len(a)]
  <2>1. a \in Seq(Deliveries) /\ b \in Seq(Deliveries)
    BY <1>2, <1>3
  <2> QED
    BY <2>1, ConcatProperties
<1>6. Len(Without(q, n)) = Len(q) - 1
  BY <1>1, <1>2, <1>3, <1>4, <1>5
<1>7. ASSUME NEW m \in 1..Len(q) - 1
      PROVE  Without(q, n)[m] = q[IF m < n THEN m ELSE m + 1]
  <2>1. CASE m < n
    BY <1>1, <1>2, <1>3, <1>4, <1>5, <2>1
  <2>2. CASE ~(m < n)
    <3>1. m - (n - 1) \in 1..Len(q) - n /\ n + (m - (n - 1)) = m + 1
      BY <1>1, <2>2
    <3>2. (a \o b)[m] = b[m - (n - 1)]
      BY <1>1, <1>2, <1>3, <1>5, <2>2
    <3> QED
      BY <1>3, <1>4, <2>2, <3>1, <3>2
  <2> QED
    BY <2>1, <2>2
<1> QED
  BY <1>4, <1>5, <1>6, <1>7

LEMMA QueueOf ==
  ASSUME TypeOK, PoolInv, NEW s \in Servers, pool[s] # <<>>
  PROVE  /\ Next1(s) \in Deliveries /\ At(Next1(s), "queued") /\ Server(Next1(s)) = s
         /\ Tail(pool[s]) \in Seq(Deliveries) /\ Len(Tail(pool[s])) = Len(pool[s]) - 1
         /\ Next1(s) = pool[s][1] /\ Len(pool[s]) \in Nat \ {0}
         /\ \A n \in 1..Len(pool[s]) - 1 : Tail(pool[s])[n] = pool[s][n + 1]
<1>1. pool[s] \in Seq(Deliveries)
  BY DEF TypeOK
<1>2. Len(pool[s]) \in Nat \ {0} /\ Head(pool[s]) = pool[s][1]
  BY <1>1
<1>3. 1 \in 1..Len(pool[s])
  BY <1>2
<1> QED
  BY <1>1, <1>2, <1>3, HeadTailProperties DEF Next1, PoolInv

LEMMA PrepareFacts ==
  ASSUME TypeOK, NEW t \in Makers, NEW rows \in SUBSET Rows, Prepare(t, rows)
  PROVE  /\ making' \in [Makers -> MakingRecord] /\ identity' \in 0..MaxChunks
         /\ buffer' \subseteq Chunk /\ identity <= identity' /\ buffer \subseteq buffer'
         /\ making'[t].block = making[t].block
         /\ \A u \in Makers \ {t} : making'[u] = making[u]
         /\ \/ /\ identity' = identity + 1 /\ making' = making
               /\ buffer' = buffer \cup {[id |-> identity + 1, rows |-> rows]}
            \/ /\ making'[t].rows = rows
               /\ buffer' = buffer /\ identity' = identity
<1>1. making \in [Makers -> MakingRecord] /\ identity \in 0..MaxChunks /\ buffer \subseteq Chunk
  BY DEF TypeOK
<1>2. CASE InsertData(rows) /\ UNCHANGED making
  <2>1. [id |-> identity + 1, rows |-> rows] \in Chunk
    BY <1>1, <1>2 DEF InsertData, Chunk
  <2> QED
    BY <1>1, <1>2, <2>1 DEF InsertData
<1>3. CASE making' = [making EXCEPT ![t].rows = rows] /\ UNCHANGED <<buffer, identity>>
  <2>1. /\ [making[t] EXCEPT !.rows = rows] \in MakingRecord
        /\ [making[t] EXCEPT !.rows = rows].rows = rows
        /\ [making[t] EXCEPT !.rows = rows].block = making[t].block
    BY <1>1 DEF MakingRecord
  <2>2. making' = [making EXCEPT ![t] = [making[t] EXCEPT !.rows = rows]]
    BY <1>3
  <2> QED
    BY <1>1, <1>3, <2>1, <2>2
<1> QED
  BY <1>2, <1>3 DEF Prepare

LEMMA NothingIsRecord == Nothing \in MakingRecord /\ Nothing.rows = {} /\ Nothing.block = NoBlock
BY DEF Nothing, MakingRecord

LEMMA MakersAre == Requests \subseteq Makers /\ Jobs \subseteq Makers /\ Deliveries \subseteq Makers
BY DEF Makers

(* A new block, and its message.                                             *)
LEMMA InsertFacts ==
  ASSUME TypeOK, NEW t \in Makers, InsertBlock(t)
  PROVE  /\ block' \in [Blocks -> Block] /\ making' \in [Makers -> MakingRecord]
         /\ \A u \in Makers \ {t} : making'[u] = making[u]
         /\ making'[t].rows = making[t].rows /\ making'[t].block \in Blocks
         /\ Fresh(making'[t].block)
         /\ block'[making'[t].block] = [exists |-> TRUE, rows |-> making[t].rows]
         /\ \A b \in Blocks \ {making'[t].block} : block'[b] = block[b]
<1>1. PICK b \in Blocks :
         /\ Fresh(b)
         /\ block' = [block EXCEPT ![b] = [exists |-> TRUE, rows |-> making[t].rows]]
         /\ making' = [making EXCEPT ![t].block = b]
  <2> DEFINE b == CHOOSE x \in Blocks : Fresh(x)
  <2>1. b \in Blocks /\ Fresh(b)
    BY DEF InsertBlock
  <2> QED
    BY <2>1 DEF InsertBlock
<1>2. making[t] \in MakingRecord /\ making \in [Makers -> MakingRecord]
      /\ block \in [Blocks -> Block]
  BY DEF TypeOK
<1>3. /\ [making[t] EXCEPT !.block = b] \in MakingRecord
      /\ [making[t] EXCEPT !.block = b].rows = making[t].rows
      /\ [making[t] EXCEPT !.block = b].block = b
  BY <1>2 DEF MakingRecord
<1>4. [exists |-> TRUE, rows |-> making[t].rows] \in Block
  BY <1>2 DEF MakingRecord, Block
<1>5. making' = [making EXCEPT ![t] = [making[t] EXCEPT !.block = b]]
  BY <1>1
<1> QED
  BY <1>1, <1>2, <1>3, <1>4, <1>5

LEMMA ActivateFacts ==
  ASSUME TypeOK, NEW t \in Makers, Activate(t)
  PROVE  /\ making[t].block \in Blocks /\ message' \in [Blocks -> Message]
         /\ making' \in [Makers -> MakingRecord] /\ making'[t] = Nothing
         /\ \A u \in Makers \ {t} : making'[u] = making[u]
         /\ message'[making[t].block] = NewMessage
         /\ \A b \in Blocks \ {making[t].block} : message'[b] = message[b]
BY NewMessages, NothingIsRecord DEF Activate, TypeOK, MakingRecord

(* A job goes on.                                                            *)
LEMMA JobFacts ==
  ASSUME TypeOK, NEW j \in Jobs
  PROVE  /\ QueryData(j) =>
               /\ job' \in [Jobs -> Job \cup {Idle}] /\ \A k \in Jobs \ {j} : job'[k] = job[k]
               /\ job[j] # Idle /\ job'[j].step = "create" /\ job'[j] # Idle
               /\ job'[j].server = job[j].server /\ job'[j].chunks = buffer
               /\ job'[j].last = identity
         /\ CreateTransactions(j) =>
               /\ job' \in [Jobs -> Job \cup {Idle}] /\ \A k \in Jobs \ {j} : job'[k] = job[k]
               /\ job[j] # Idle /\ job'[j].step = "create" /\ job'[j] # Idle
               /\ job'[j].server = job[j].server /\ job'[j].last = job[j].last
               /\ making' \in [Makers -> MakingRecord]
               /\ \A t \in Makers \ {j} : making'[t] = making[t]
               /\ \E c \in job[j].chunks :
                     /\ job'[j].chunks = job[j].chunks \ {c}
                     /\ making'[j].rows = c.rows /\ making'[j].block = making[j].block
<1>1. job \in [Jobs -> Job \cup {Idle}] /\ buffer \in SUBSET Chunk /\ identity \in 0..MaxChunks
      /\ making \in [Makers -> MakingRecord] /\ j \in Makers
  BY MakersAre DEF TypeOK
<1>2. ASSUME QueryData(j)
      PROVE  /\ job' \in [Jobs -> Job \cup {Idle}] /\ \A k \in Jobs \ {j} : job'[k] = job[k]
             /\ job[j] # Idle /\ job'[j].step = "create" /\ job'[j] # Idle
             /\ job'[j].server = job[j].server /\ job'[j].chunks = buffer
             /\ job'[j].last = identity
  <2> DEFINE new == [job[j] EXCEPT !.step = "create", !.chunks = buffer, !.last = identity]
  <2>1. job[j] # Idle
    BY <1>2, StepsApart DEF QueryData
  <2>2. job[j] \in Job
    BY <1>1, <2>1
  <2>3. /\ new \in Job /\ new.step = "create" /\ new.server = job[j].server
        /\ new.chunks = buffer /\ new.last = identity
    BY <1>1, <2>2 DEF Job
  <2>4. job' = [job EXCEPT ![j] = new]
    BY <1>1, <1>2 DEF QueryData
  <2> HIDE DEF new
  <2>5. job'[j] # Idle
    BY <1>1, <2>3, <2>4, StepsApart
  <2> QED
    BY <1>1, <2>1, <2>3, <2>4, <2>5
<1>3. ASSUME CreateTransactions(j)
      PROVE  /\ job' \in [Jobs -> Job \cup {Idle}] /\ \A k \in Jobs \ {j} : job'[k] = job[k]
             /\ job[j] # Idle /\ job'[j].step = "create" /\ job'[j] # Idle
             /\ job'[j].server = job[j].server /\ job'[j].last = job[j].last
             /\ making' \in [Makers -> MakingRecord]
             /\ \A t \in Makers \ {j} : making'[t] = making[t]
             /\ \E c \in job[j].chunks :
                   /\ job'[j].chunks = job[j].chunks \ {c}
                   /\ making'[j].rows = c.rows /\ making'[j].block = making[j].block
  <2>1. PICK c \in job[j].chunks : /\ making' = [making EXCEPT ![j].rows = c.rows]
                                   /\ job' = [job EXCEPT ![j].chunks = @ \ {c}]
    BY <1>3 DEF CreateTransactions
  <2>2. job[j] # Idle /\ job[j].step = "create"
    BY <1>3, StepsApart DEF CreateTransactions
  <2>3. job[j] \in Job /\ c \in Chunk
    BY <2>2, Busy
  <2> DEFINE new == [job[j] EXCEPT !.chunks = job[j].chunks \ {c}]
  <2>4. /\ new \in Job /\ new.step = "create" /\ new.server = job[j].server
        /\ new.chunks = job[j].chunks \ {c} /\ new.last = job[j].last
    BY <2>2, <2>3 DEF Job
  <2>5. job' = [job EXCEPT ![j] = new]
    BY <1>1, <2>1
  <2> DEFINE rec == [making[j] EXCEPT !.rows = c.rows]
  <2>6. rec \in MakingRecord /\ rec.rows = c.rows /\ rec.block = making[j].block
    BY <1>1, <2>3 DEF MakingRecord, Chunk
  <2>7. making' = [making EXCEPT ![j] = rec]
    BY <1>1, <2>1
  <2> HIDE DEF new, rec
  <2>8. job'[j] # Idle
    BY <1>1, <2>4, <2>5, StepsApart
  <2>9. /\ job' \in [Jobs -> Job \cup {Idle}] /\ \A k \in Jobs \ {j} : job'[k] = job[k]
        /\ job'[j] = new
    BY <1>1, <2>4, <2>5
  <2>10. /\ making' \in [Makers -> MakingRecord] /\ making'[j] = rec
         /\ \A t \in Makers \ {j} : making'[t] = making[t]
    BY <1>1, <2>6, <2>7
  <2> QED
    BY <2>2, <2>4, <2>6, <2>8, <2>9, <2>10
<1> QED
  BY <1>2, <1>3

(* A dequeued message.                                                       *)
LEMMA DequeueFacts ==
  ASSUME TypeOK, NEW s \in Servers, NEW b \in Blocks, Dequeue(s, b)
  PROVE  /\ message' \in [Blocks -> Message] /\ pool' \in [Servers -> Seq(Deliveries)]
         /\ ensuring' \in [Servers -> 0..StorageJobs]
         /\ \E d \in Deliveries :
               /\ delivery[d] = Free
               /\ delivery' \in [Deliveries -> Delivery \cup {Free}]
               /\ delivery'[d] = [step |-> "queued", block |-> b, server |-> s,
                                  rows |-> {}, locked |-> {}, merged |-> FALSE]
               /\ \A e \in Deliveries \ {d} : delivery'[e] = delivery[e]
               /\ message'[b].holder = d /\ ~message'[b].visible /\ message'[b].queued
               /\ pool' = [pool EXCEPT ![s] = Append(pool[s], d)]
         /\ \A x \in Blocks \ {b} : message'[x] = message[x]
<1>1. PICK d \in Deliveries :
         /\ delivery[d] = Free
         /\ message' = [message EXCEPT ![b] = [@ EXCEPT !.holder = d, !.visible = FALSE]]
         /\ delivery' = [delivery EXCEPT ![d] = [step |-> "queued", block |-> b, server |-> s,
                                               rows |-> {}, locked |-> {}, merged |-> FALSE]]
         /\ pool' = [pool EXCEPT ![s] = Append(@, d)]
  <2> DEFINE d == CHOOSE x \in Deliveries : delivery[x] = Free
  <2>1. d \in Deliveries /\ delivery[d] = Free
    BY DEF Dequeue
  <2> QED
    BY <2>1 DEF Dequeue
<1>2. /\ message \in [Blocks -> Message] /\ delivery \in [Deliveries -> Delivery \cup {Free}]
      /\ pool \in [Servers -> Seq(Deliveries)] /\ ensuring \in [Servers -> 0..StorageJobs]
  BY DEF TypeOK
<1> DEFINE new == [message[b] EXCEPT !.holder = d, !.visible = FALSE]
<1>3. /\ new \in Message /\ new.holder = d /\ new.visible = FALSE
      /\ new.queued = message[b].queued /\ message[b].queued
  BY <1>2 DEF Message, Dequeue
<1>4. message' = [message EXCEPT ![b] = new]
  BY <1>1, <1>2
<1> HIDE DEF new
<1>5. [step |-> "queued", block |-> b, server |-> s, rows |-> {}, locked |-> {}, merged |-> FALSE]
         \in Delivery
  BY DEF Delivery
<1>6. Append(pool[s], d) \in Seq(Deliveries)
  BY <1>2, AppendProperties
<1>7. ensuring' \in [Servers -> 0..StorageJobs]
  BY <1>2 DEF Dequeue
<1>8. /\ message' \in [Blocks -> Message] /\ message'[b] = new
      /\ \A x \in Blocks \ {b} : message'[x] = message[x]
  BY <1>2, <1>3, <1>4
<1>9. pool' \in [Servers -> Seq(Deliveries)] /\ pool' = [pool EXCEPT ![s] = Append(pool[s], d)]
  BY <1>1, <1>2, <1>6
<1> QED
  BY <1>1, <1>2, <1>3, <1>5, <1>7, <1>8, <1>9

(* A delivery is over, whatever became of its message.                       *)
Over(d) ==
    /\ ~At(d, "free")
    /\ delivery' = [delivery EXCEPT ![d] = Free]
    /\ delivery' \in [Deliveries -> Delivery \cup {Free}]
    /\ message' \in [Blocks -> Message]
    /\ \A b \in Blocks :
          /\ message'[b].holder \in {message[b].holder, Nobody} \ {d}
          /\ message'[b].queued => message[b].queued
          /\ message[b].queued /\ ~message'[b].queued => Holds(d) /\ b = delivery[d].block
          /\ message'[b].holder # Nobody => message'[b].queued = message[b].queued

LEMMA OverFacts ==
  ASSUME TypeOK, HolderInv, NEW d \in Deliveries, ~At(d, "free"),
         NEW msgs \in [Blocks -> Message], End(d, msgs),
         \/ \A b \in Blocks : msgs[b].holder = message[b].holder /\ msgs[b].queued = message[b].queued
         \/ msgs = CompletedMessage(d)
  PROVE  Over(d)
<1>1. /\ delivery' = [delivery EXCEPT ![d] = Free]
      /\ delivery' \in [Deliveries -> Delivery \cup {Free}]
      /\ message' \in [Blocks -> Message]
      /\ \A b \in Blocks :
            /\ message'[b].queued = msgs[b].queued
            /\ message'[b].holder = IF msgs[b].holder = d /\ b = delivery[d].block
                                    THEN Nobody ELSE msgs[b].holder
  BY EndFacts
<1>2. delivery[d].block \in Blocks /\ d # Nobody
  BY Live
<1>3. \A b \in Blocks : message[b].holder = d => delivery[d].block = b
  BY <1>2 DEF HolderInv
<1>4. CASE \A b \in Blocks : msgs[b].holder = message[b].holder /\ msgs[b].queued = message[b].queued
  BY <1>1, <1>2, <1>3, <1>4 DEF Over
<1>5. CASE msgs = CompletedMessage(d)
  <2>1. \A b \in Blocks :
           /\ Holds(d) /\ b = delivery[d].block => msgs[b].holder = Nobody /\ ~msgs[b].queued
           /\ ~(Holds(d) /\ b = delivery[d].block) =>
                 msgs[b].holder = message[b].holder /\ msgs[b].queued = message[b].queued
    BY <1>5, CompletedFacts DEF NoMessage
  <2> QED
    BY <1>1, <1>2, <1>3, <2>1 DEF Over, Holds
<1> QED
  BY <1>4, <1>5

LEMMA VisibleFacts ==
  ASSUME TypeOK, NEW b \in Blocks, NEW v \in BOOLEAN
  PROVE  LET new == [message EXCEPT ![b].visible = v]
         IN /\ new \in [Blocks -> Message]
            /\ \A x \in Blocks : new[x].holder = message[x].holder
                                 /\ new[x].queued = message[x].queued
                                 /\ x # b => new[x].visible = message[x].visible
            /\ new[b].visible = v
<1>1. message \in [Blocks -> Message]
  BY DEF TypeOK
<1>2. /\ [message[b] EXCEPT !.visible = v] \in Message
      /\ [message[b] EXCEPT !.visible = v].holder = message[b].holder
      /\ [message[b] EXCEPT !.visible = v].queued = message[b].queued
      /\ [message[b] EXCEPT !.visible = v].visible = v
  BY <1>1 DEF Message
<1> QED
  BY <1>1, <1>2

LEMMA VisibleNext ==
  ASSUME TypeOK, NEW b \in Blocks, NEW v \in BOOLEAN, message' = [message EXCEPT ![b].visible = v]
  PROVE  \A x \in Blocks : /\ message'[x].holder = message[x].holder
                           /\ x # b => message'[x] = message[x]
<1>1. message \in [Blocks -> Message]
  BY DEF TypeOK
<1>2. message'[b] = [message[b] EXCEPT !.visible = v] /\ \A x \in Blocks : x # b => message'[x] = message[x]
  BY <1>1
<1>3. message'[b].holder = message[b].holder
  BY <1>1, <1>2 DEF Message
<1> QED
  BY <1>2, <1>3

LEMMA Overs ==
  ASSUME TypeOK, HolderInv, NEW d \in Deliveries,
         \/ PingLate(d) \/ Postpone(d) \/ (Settle(d) /\ ~Again(d)) \/ Prepared(d)
         \/ TooLate(d) \/ Throws(d)
  PROVE  Over(d)
<1>1. ~At(d, "free")
  BY DEF PingLate, Postpone, Settle, Prepared, TooLate, Throws, At
<1>2. delivery[d].block \in Blocks /\ message \in [Blocks -> Message]
  BY <1>1, Live DEF TypeOK
<1>3. message[delivery[d].block].visible \in BOOLEAN
  BY <1>2, MessageParts
<1>4. ASSUME NEW v \in BOOLEAN, End(d, [message EXCEPT ![delivery[d].block].visible = v])
      PROVE  Over(d)
  <2> DEFINE new == [message EXCEPT ![delivery[d].block].visible = v]
  <2>1. /\ new \in [Blocks -> Message]
        /\ \A b \in Blocks : new[b].holder = message[b].holder /\ new[b].queued = message[b].queued
    BY <1>2, VisibleFacts
  <2>2. End(d, new)
    BY <1>4
  <2> HIDE DEF new
  <2> QED
    BY <1>1, <2>1, <2>2, OverFacts
<1>5. CASE PingLate(d)
  <2>1. PICK visible \in BOOLEAN :
           End(d, [message EXCEPT ![delivery[d].block].visible = IF Holds(d) THEN visible ELSE @])
    BY <1>5 DEF PingLate
  <2> DEFINE v == IF Holds(d) THEN visible ELSE message[delivery[d].block].visible
  <2>2. v \in BOOLEAN /\ End(d, [message EXCEPT ![delivery[d].block].visible = v])
    BY <1>2, <1>3, <2>1
  <2> QED
    BY <1>4, <2>2
<1>6. CASE TooLate(d)
  <2> DEFINE v == message[delivery[d].block].visible \/ Holds(d)
  <2>1. v \in BOOLEAN /\ End(d, [message EXCEPT ![delivery[d].block].visible = v])
    BY <1>2, <1>6 DEF TooLate
  <2> QED
    BY <1>4, <2>1
<1>7. ASSUME End(d, Pinged(d)) PROVE Over(d)
  BY <1>1, <1>7, PingedFacts, OverFacts
<1>8. ASSUME End(d, CompletedMessage(d)) PROVE Over(d)
  BY <1>1, <1>8, CompletedFacts, OverFacts
<1>9. ASSUME End(d, message) PROVE Over(d)
  BY <1>1, <1>2, <1>9, OverFacts
<1>10. CASE Postpone(d)
  BY <1>7, <1>10 DEF Postpone
<1>11. CASE Settle(d) /\ ~Again(d)
  BY <1>8, <1>11 DEF Settle
<1>12. CASE Prepared(d)
  BY <1>9, <1>12 DEF Prepared
<1>13. CASE Throws(d)
  BY <1>7, <1>8, <1>9, <1>13 DEF Throws
<1> QED
  BY <1>5, <1>6, <1>10, <1>11, <1>12, <1>13

(* What the death of a server leaves behind.                                 *)
LEMMA CrashFacts ==
  ASSUME TypeOK, NEW s \in Servers, Crash(s)
  PROVE  /\ delivery' \in [Deliveries -> Delivery \cup {Free}]
         /\ \A d \in Deliveries :
               delivery'[d] = IF d \in DeadDeliveries(s) THEN Free ELSE delivery[d]
         /\ message' \in [Blocks -> Message]
         /\ \A b \in Blocks :
               /\ message'[b].queued = message[b].queued
               /\ message'[b].visible = message[b].visible
               /\ message'[b].holder = IF message[b].holder \in DeadDeliveries(s)
                                       THEN Nobody ELSE message[b].holder
         /\ block' \in [Blocks -> Block]
         /\ \A b \in Blocks :
               block'[b] = IF \E t \in DeadDeliveries(s) \cup DeadJobs(s) : making[t].block = b
                           THEN NoRows ELSE block[b]
         /\ making' \in [Makers -> MakingRecord]
         /\ \A t \in Makers : making'[t] = IF t \in DeadDeliveries(s) \cup DeadJobs(s)
                                           THEN Nothing ELSE making[t]
         /\ job' \in [Jobs -> Job \cup {Idle}]
         /\ \A j \in Jobs : job'[j] = IF j \in DeadJobs(s) THEN Idle ELSE job[j]
         /\ risked' \subseteq Rows /\ risked \subseteq risked'
         /\ \A d \in DeadDeliveries(s) : InHand(d) \cup making[d].rows \subseteq risked'
         /\ DeadDeliveries(s) \subseteq Deliveries /\ DeadJobs(s) \subseteq Jobs
<1> DEFINE dead == DeadDeliveries(s)
<1>1. dead \subseteq Deliveries /\ DeadJobs(s) \subseteq Jobs /\ Jobs \cap Deliveries = {}
  BY DEF DeadDeliveries, DeadJobs
<1>2. /\ delivery' = [d \in Deliveries |-> IF d \in dead THEN Free ELSE delivery[d]]
      /\ message' = [b \in Blocks |->
            IF message[b].holder \in dead THEN [message[b] EXCEPT !.holder = Nobody]
            ELSE message[b]]
      /\ block' = [b \in Blocks |->
            IF \E t \in dead \cup DeadJobs(s) : making[t].block = b THEN NoRows ELSE block[b]]
      /\ making' = [t \in Makers |-> IF t \in dead \cup DeadJobs(s) THEN Nothing ELSE making[t]]
      /\ job' = [j \in Jobs |-> IF j \in dead \cup DeadJobs(s) THEN Idle ELSE job[j]]
      /\ risked' = risked \cup UNION {InHand(d) \cup making[d].rows : d \in dead}
  BY DEF Crash
<1> HIDE DEF dead
<1>3. /\ message \in [Blocks -> Message] /\ delivery \in [Deliveries -> Delivery \cup {Free}]
      /\ block \in [Blocks -> Block] /\ making \in [Makers -> MakingRecord]
      /\ job \in [Jobs -> Job \cup {Idle}] /\ risked \subseteq Rows
  BY DEF TypeOK
<1>4. \A m \in Message : /\ [m EXCEPT !.holder = Nobody] \in Message
                         /\ [m EXCEPT !.holder = Nobody].holder = Nobody
                         /\ [m EXCEPT !.holder = Nobody].visible = m.visible
                         /\ [m EXCEPT !.holder = Nobody].queued = m.queued
  BY DEF Message
<1>5. ASSUME NEW d \in dead
      PROVE  InHand(d) \subseteq Rows /\ making[d].rows \subseteq Rows
  <2>1. d \in Deliveries /\ d \in Makers /\ ~At(d, "free")
    BY <1>1, <1>5, MakersAre DEF dead, DeadDeliveries
  <2> QED
    BY <1>3, <2>1, Live DEF InHand, MakingRecord
<1>6. risked' \subseteq Rows /\ risked \subseteq risked'
      /\ \A d \in dead : InHand(d) \cup making[d].rows \subseteq risked'
  <2>1. UNION {InHand(d) \cup making[d].rows : d \in dead} \subseteq Rows
    BY <1>5
  <2>2. \A d \in dead : InHand(d) \cup making[d].rows
                           \subseteq UNION {InHand(x) \cup making[x].rows : x \in dead}
    OBVIOUS
  <2> QED
    BY <1>2, <1>3, <2>1, <2>2
<1>7. delivery' \in [Deliveries -> Delivery \cup {Free}]
      /\ \A d \in Deliveries : delivery'[d] = IF d \in dead THEN Free ELSE delivery[d]
  BY <1>2, <1>3
<1>8. /\ message' \in [Blocks -> Message]
      /\ \A b \in Blocks :
            /\ message'[b].queued = message[b].queued
            /\ message'[b].visible = message[b].visible
            /\ message'[b].holder = IF message[b].holder \in dead
                                    THEN Nobody ELSE message[b].holder
  BY <1>2, <1>3, <1>4
<1>9. /\ block' \in [Blocks -> Block]
      /\ \A b \in Blocks :
            block'[b] = IF \E t \in dead \cup DeadJobs(s) : making[t].block = b
                        THEN NoRows ELSE block[b]
  BY <1>2, <1>3, NewMessages
<1>10. /\ making' \in [Makers -> MakingRecord]
       /\ \A t \in Makers : making'[t] = IF t \in dead \cup DeadJobs(s)
                                         THEN Nothing ELSE making[t]
  BY <1>2, <1>3, NothingIsRecord
<1>11. /\ job' \in [Jobs -> Job \cup {Idle}]
       /\ \A j \in Jobs : job'[j] = IF j \in DeadJobs(s) THEN Idle ELSE job[j]
  BY <1>1, <1>2, <1>3
<1> QED
  BY <1>1, <1>6, <1>7, <1>8, <1>9, <1>10, <1>11 DEF dead

LEMMA CreateFailsFacts ==
  ASSUME TypeOK, NEW t \in Makers, CreateFails(t)
  PROVE  /\ making' \in [Makers -> MakingRecord] /\ making'[t] = Nothing
         /\ \A u \in Makers \ {t} : making'[u] = making[u]
         /\ block' \in [Blocks -> Block] /\ message' \in [Blocks -> Message]
         /\ \A b \in Blocks : b # making[t].block => block'[b] = block[b] /\ message'[b] = message[b]
         /\ making[t].block \in Blocks =>
               /\ block'[making[t].block] = NoRows
               /\ message'[making[t].block] \in {message[making[t].block], NewMessage}
         /\ risked' = risked \cup making[t].rows /\ risked' \subseteq Rows
<1>1. /\ message \in [Blocks -> Message] /\ block \in [Blocks -> Block]
      /\ making \in [Makers -> MakingRecord] /\ risked \subseteq Rows
      /\ making[t].rows \subseteq Rows /\ making[t].block \in Blocks \cup {NoBlock}
  BY DEF TypeOK, MakingRecord
<1>2. making' = [making EXCEPT ![t] = Nothing] /\ risked' = risked \cup making[t].rows
  BY DEF CreateFails
<1>3. CASE making[t].block = NoBlock
  BY <1>1, <1>2, <1>3, NothingIsRecord DEF CreateFails, Undone
<1>4. CASE making[t].block \in Blocks
  <2>1. making[t].block # NoBlock
    BY <1>4
  <2>2. block' = [block EXCEPT ![making[t].block] = NoRows]
    BY <2>1 DEF CreateFails, Undone
  <2>3. message' = message \/ message' = [message EXCEPT ![making[t].block] = NewMessage]
    BY DEF CreateFails
  <2> QED
    BY <1>1, <1>2, <1>4, <2>2, <2>3, NothingIsRecord, NewMessages
<1> QED
  BY <1>1, <1>3, <1>4

LEMMA DeleteBlobFacts ==
  ASSUME TypeOK, NEW d \in Deliveries, ~At(d, "free")
  PROVE  /\ DeleteBlob(d) \in [Blocks -> Block]
         /\ \A b \in Blocks : DeleteBlob(d)[b].exists = block[b].exists
         /\ \A b \in Blocks \ {delivery[d].block} : DeleteBlob(d)[b] = block[b]
         /\ DeleteBlob(d)[delivery[d].block].rows =
               IF block[delivery[d].block].exists THEN {} ELSE block[delivery[d].block].rows
<1>1. delivery[d].block \in Blocks /\ block \in [Blocks -> Block]
  BY Live DEF TypeOK
<1> DEFINE x == delivery[d].block
           rows == IF block[x].exists THEN {} ELSE block[x].rows
           new == [block[x] EXCEPT !.rows = rows]
<1>2. block[x].rows \in SUBSET Rows /\ block[x] \in Block
  BY <1>1 DEF Block
<1>3. new \in Block /\ new.exists = block[x].exists /\ new.rows = rows
  BY <1>2 DEF Block
<1>4. DeleteBlob(d) = [block EXCEPT ![x] = new]
  BY <1>1 DEF DeleteBlob
<1> HIDE DEF new
<1> QED
  BY <1>1, <1>3, <1>4

-------------------------------------------------------------------------------
(* Every step keeps the types.                                               *)
LEMMA TypeStep ==
  ASSUME TypeOK, PoolInv, HolderInv, [Next]_vars
  PROVE  TypeOK'
<1> USE DEF sysVars, poolVars
<1>1. ASSUME NEW q \in Requests, Write(q) PROVE TypeOK'
  <2>1. PICK rows \in arriving : Prepare(q, rows) /\ arriving' = arriving \ {rows}
    BY <1>1 DEF Write
  <2>2. rows \in SUBSET Rows /\ q \in Makers
    BY BatchesAssumption, MakersAre DEF TypeOK
  <2>3. making' \in [Makers -> MakingRecord] /\ identity' \in 0..MaxChunks /\ buffer' \subseteq Chunk
    BY <2>1, <2>2, PrepareFacts
  <2> QED
    BY <1>1, <2>1, <2>3 DEF TypeOK, Write
<1>2. ASSUME NEW t \in Makers, InsertBlock(t) PROVE TypeOK'
  <2>1. block' \in [Blocks -> Block] /\ making' \in [Makers -> MakingRecord]
    BY <1>2, InsertFacts
  <2> QED
    BY <1>2, <2>1 DEF TypeOK, InsertBlock
<1>3. ASSUME NEW t \in Makers, Activate(t) PROVE TypeOK'
  <2>1. message' \in [Blocks -> Message] /\ making' \in [Makers -> MakingRecord]
    BY <1>3, ActivateFacts
  <2> QED
    BY <1>3, <2>1 DEF TypeOK, Activate
<1>4. ASSUME NEW t \in Makers, CreateFails(t) PROVE TypeOK'
  <2>1. /\ message' \in [Blocks -> Message] /\ making' \in [Makers -> MakingRecord]
        /\ block' \in [Blocks -> Block] /\ risked' \subseteq Rows
    BY <1>4, CreateFailsFacts
  <2> QED
    BY <1>4, <2>1 DEF TypeOK, CreateFails, Fault
<1>5. ASSUME NEW j \in Jobs, QueryData(j) PROVE TypeOK'
  <2>1. job' \in [Jobs -> Job \cup {Idle}]
    BY <1>5, JobFacts
  <2> QED
    BY <1>5, <2>1 DEF TypeOK, QueryData
<1>6. ASSUME NEW j \in Jobs, CreateTransactions(j) PROVE TypeOK'
  <2>1. job' \in [Jobs -> Job \cup {Idle}] /\ making' \in [Makers -> MakingRecord]
    BY <1>6, JobFacts
  <2> QED
    BY <1>6, <2>1 DEF TypeOK, CreateTransactions
<1>7. ASSUME NEW j \in Jobs, ClearData(j) PROVE TypeOK'
  <2>1. /\ job' \in [Jobs -> Job \cup {Idle}] /\ buffer' \subseteq Chunk
        /\ identity' \in 0..MaxChunks
    BY <1>7 DEF TypeOK, ClearData, Kept
  <2> QED
    BY <1>7, <2>1 DEF TypeOK, ClearData
<1>8. ASSUME NEW j \in Jobs, JobFails(j) PROVE TypeOK'
  <2>1. job' \in [Jobs -> Job \cup {Idle}] /\ faults' \in 0..MaxFaults
    BY <1>8 DEF TypeOK, JobFails, Fault
  <2> QED
    BY <1>8, <2>1 DEF TypeOK, JobFails
<1>9. ASSUME NEW j \in Jobs, NEW s \in Servers, DequeueBuffer(j, s) PROVE TypeOK'
  <2>1. [step |-> "query", server |-> s, chunks |-> {}, last |-> 0] \in Job
    BY DEF Job
  <2> QED
    BY <1>9, <2>1 DEF TypeOK, DequeueBuffer
<1>10. ASSUME NEW s \in Servers, EnsureWorker(s) PROVE TypeOK'
  BY <1>10 DEF TypeOK, EnsureWorker
<1>11. ASSUME NEW s \in Servers, Take(s) PROVE TypeOK'
  <2>1. /\ Next1(s) \in Deliveries /\ delivery[Next1(s)] \in Delivery
        /\ Tail(pool[s]) \in Seq(Deliveries) /\ "ping" \in WorkSteps
    BY <1>11, QueueOf, Live DEF Take, At, WorkSteps
  <2>2. [delivery[Next1(s)] EXCEPT !.step = "ping"] \in Delivery
    BY <2>1 DEF Delivery
  <2>3. /\ delivery' = [delivery EXCEPT ![Next1(s)] = [delivery[Next1(s)] EXCEPT !.step = "ping"]]
        /\ pool' = [pool EXCEPT ![s] = Tail(pool[s])]
    BY <1>11 DEF Take
  <2> QED
    BY <1>11, <2>1, <2>2, <2>3 DEF TypeOK, Take
<1>12. ASSUME NEW s \in Servers, LoopEnds(s) \/ OnWorkerCompleted(s) PROVE TypeOK'
  BY <1>12 DEF TypeOK, LoopEnds, OnWorkerCompleted
<1>13. ASSUME NEW s \in Servers, Crash(s) PROVE TypeOK'
  <2>1. /\ delivery' \in [Deliveries -> Delivery \cup {Free}] /\ message' \in [Blocks -> Message]
        /\ block' \in [Blocks -> Block] /\ making' \in [Makers -> MakingRecord]
        /\ job' \in [Jobs -> Job \cup {Idle}] /\ risked' \subseteq Rows
    BY <1>13, CrashFacts
  <2>2. pool' \in [Servers -> Seq(Deliveries)] /\ ensuring' \in [Servers -> 0..StorageJobs]
        /\ worker' \in [Servers -> {"none", "running", "ended"}]
    BY <1>13 DEF TypeOK, Crash
  <2> QED
    BY <1>13, <2>1, <2>2 DEF TypeOK, Crash, Fault
<1>14. ASSUME NEW s \in Servers, NEW b \in Blocks, Dequeue(s, b) PROVE TypeOK'
  <2>1. /\ message' \in [Blocks -> Message] /\ pool' \in [Servers -> Seq(Deliveries)]
        /\ ensuring' \in [Servers -> 0..StorageJobs]
        /\ delivery' \in [Deliveries -> Delivery \cup {Free}]
    BY <1>14, DequeueFacts
  <2> QED
    BY <1>14, <2>1 DEF TypeOK, Dequeue
<1>15. ASSUME NEW d \in Deliveries, Ping(d) PROVE TypeOK'
  <2>1. delivery' \in [Deliveries -> Delivery \cup {Free}] /\ message' \in [Blocks -> Message]
    BY <1>15, StepFacts, PingedFacts DEF Ping, At, GoesOn
  <2> QED
    BY <1>15, <2>1 DEF TypeOK, Ping
<1>16. ASSUME NEW d \in Deliveries, PingLate(d) \/ Postpone(d) \/ Prepared(d) PROVE TypeOK'
  <2>1. delivery' \in [Deliveries -> Delivery \cup {Free}] /\ message' \in [Blocks -> Message]
    BY <1>16, Overs DEF Over
  <2> QED
    BY <1>16, <2>1 DEF TypeOK, PingLate, Postpone, Prepared
<1>17. ASSUME NEW d \in Deliveries, LoadData(d) PROVE TypeOK'
  <2>1. delivery' \in [Deliveries -> Delivery \cup {Free}]
    BY <1>17, StepFacts DEF GoesOn
  <2> QED
    BY <1>17, <2>1 DEF TypeOK, LoadData
<1>18. ASSUME NEW d \in Deliveries, NEW r \in Rows, Merge(d, r) PROVE TypeOK'
  <2>1. delivery' \in [Deliveries -> Delivery \cup {Free}]
    BY <1>18, StepFacts DEF GoesOn
  <2>2. stored' \in [Rows -> 0..2]
    BY <1>18 DEF TypeOK, Merge, More
  <2> QED
    BY <1>18, <2>1, <2>2 DEF TypeOK, Merge
<1>19. ASSUME NEW d \in Deliveries, NEW r \in Rows, Locked(d, r) PROVE TypeOK'
  <2>1. delivery' \in [Deliveries -> Delivery \cup {Free}]
    BY <1>19, StepFacts DEF GoesOn
  <2> QED
    BY <1>19, <2>1 DEF TypeOK, Locked
<1>20. ASSUME NEW d \in Deliveries, Complete(d) PROVE TypeOK'
  <2>1. delivery' \in [Deliveries -> Delivery \cup {Free}] /\ block' \in [Blocks -> Block]
    BY <1>20, StepFacts, DeleteBlobFacts DEF GoesOn, Complete, At
  <2> QED
    BY <1>20, <2>1 DEF TypeOK, Complete
<1>21. ASSUME NEW d \in Deliveries, Settle(d) PROVE TypeOK'
  <2>1. ~At(d, "free") /\ block' = CompletedBlock(d)
    BY <1>21 DEF Settle, At
  <2>2. CASE Again(d)
    <3>1. delivery' \in [Deliveries -> Delivery \cup {Free}]
      BY <1>21, <2>2, StepFacts DEF GoesOn
    <3>2. message' \in [Blocks -> Message] /\ block' \in [Blocks -> Block]
      BY <1>21, <2>1, <2>2, CompletedFacts DEF Settle
    <3> QED
      BY <1>21, <3>1, <3>2 DEF TypeOK, Settle
  <2>3. CASE ~Again(d)
    BY <1>21, <2>1, <2>3, Overs, CompletedFacts DEF TypeOK, Settle, Over
  <2> QED
    BY <2>2, <2>3
<1>22. ASSUME NEW d \in Deliveries, PrepareLocked(d) PROVE TypeOK'
  <2>1. d \in Makers /\ delivery[d].locked \in SUBSET Rows /\ Prepare(d, delivery[d].locked)
    BY <1>22, MakersAre, Live DEF PrepareLocked, At
  <2>2. making' \in [Makers -> MakingRecord] /\ identity' \in 0..MaxChunks /\ buffer' \subseteq Chunk
    BY <2>1, PrepareFacts
  <2>3. delivery' \in [Deliveries -> Delivery \cup {Free}]
    BY <1>22, StepFacts DEF GoesOn
  <2> QED
    BY <1>22, <2>2, <2>3 DEF TypeOK, PrepareLocked
<1>23. ASSUME NEW d \in Deliveries, TooLate(d), faults' \in 0..MaxFaults PROVE TypeOK'
  <2>1. delivery' \in [Deliveries -> Delivery \cup {Free}] /\ message' \in [Blocks -> Message]
    BY <1>23, Overs DEF Over
  <2>2. Server(d) \in Servers
    BY <1>23, Live DEF TooLate, At
  <2>3. pool' \in [Servers -> Seq(Deliveries)]
    BY <1>23, <2>2, WithoutFacts DEF TypeOK, TooLate
  <2> QED
    BY <1>23, <2>1, <2>3 DEF TypeOK, TooLate
<1>24. ASSUME NEW d \in Deliveries, Unattended(d), Fault PROVE TypeOK'
  <2>1. ~At(d, "free")
    BY <1>24 DEF Unattended, At
  <2>2. message' \in [Blocks -> Message]
    BY <1>24, <2>1, Live, VisibleFacts DEF Unattended
  <2> QED
    BY <1>24, <2>2 DEF TypeOK, Unattended, Fault
<1>25. ASSUME NEW d \in Deliveries, Throws(d) PROVE TypeOK'
  <2>1. /\ delivery' \in [Deliveries -> Delivery \cup {Free}] /\ message' \in [Blocks -> Message]
        /\ ~At(d, "free")
    BY <1>25, Overs DEF Over
  <2>2. /\ InHand(d) \subseteq Rows /\ delivery[d].locked \subseteq Rows
        /\ delivery[d].block \in Blocks /\ Server(d) \in Servers
    BY <2>1, Live DEF InHand
  <2>3. block' \in [Blocks -> Block] /\ risked' \subseteq Rows
    BY <1>25, <2>2, NewMessages DEF Throws, TypeOK
  <2>4. worker' \in [Servers -> {"none", "running", "ended"}]
    BY <1>25, <2>2 DEF TypeOK, Throws
  <2> QED
    BY <1>25, <2>1, <2>3, <2>4 DEF TypeOK, Throws, Fault
<1>26. ASSUME NEW b \in Blocks, Drop(b) PROVE TypeOK'
  BY <1>26, NewMessages DEF TypeOK, Drop
<1>27. ASSUME NEW b \in Blocks, Lapse(b) PROVE TypeOK'
  <2>1. message' \in [Blocks -> Message]
    BY <1>27, VisibleFacts DEF Lapse
  <2> QED
    BY <1>27, <2>1 DEF TypeOK, Lapse
<1>28. ASSUME BufferTimeout \/ Overrun PROVE TypeOK'
  <2>1. faults' \in 0..MaxFaults
    BY <1>28 DEF TypeOK, BufferTimeout, Overrun, Fault
  <2> QED
    BY <1>28, <2>1 DEF TypeOK, BufferTimeout, Overrun, BufferLapses
<1>29. CASE UNCHANGED vars
  BY <1>29 DEF TypeOK, vars
<1>30. ASSUME NEW d \in Deliveries, WaitsTooLong(d) \/ Stall(d) PROVE TypeOK'
  BY <1>23, <1>24, <1>30 DEF WaitsTooLong, Stall, Fault, TypeOK
<1>31. ASSUME NEW d \in Deliveries, DeliveryStep(d) PROVE TypeOK'
  BY <1>15, <1>16, <1>17, <1>18, <1>19, <1>20, <1>21, <1>22, <1>31 DEF DeliveryStep
<1>32. ASSUME NEW b \in Blocks, Expire(b) PROVE TypeOK'
  <2>1. block[b].rows \subseteq Rows
    BY DEF TypeOK, Block
  <2>2. message' \in [Blocks -> Message] /\ faults' \in 0..MaxFaults
    BY <1>32, NewMessages DEF TypeOK, Expire, Fault
  <2> QED
    BY <1>32, <2>1, <2>2 DEF TypeOK, Expire
<1> QED
  BY <1>1, <1>2, <1>3, <1>4, <1>5, <1>6, <1>7, <1>8, <1>9, <1>10, <1>11, <1>12, <1>13, <1>14,
     <1>25, <1>26, <1>27, <1>28, <1>29, <1>30, <1>31, <1>32
  DEF Next, Making, JobStep, WorkerStep

-------------------------------------------------------------------------------
(* What is in a pool waits there, once.                                      *)
LEMMA PoolStep ==
  ASSUME TypeOK, PoolInv, HolderInv, [Next]_vars
  PROVE  PoolInv'
<1> USE DEF sysVars, poolVars
<1>1. ASSUME UNCHANGED <<delivery, pool>> PROVE PoolInv'
  BY <1>1 DEF PoolInv, At, Server
<1>2. ASSUME NEW d \in Deliveries, ~At(d, "queued"), pool' = pool,
             \A e \in Deliveries \ {d} : delivery'[e] = delivery[e]
      PROVE  PoolInv'
  <2>1. \A s \in Servers : \A n \in 1..Len(pool[s]) :
            pool[s][n] \in Deliveries /\ pool[s][n] # d
    <3>1. \A s \in Servers : \A n \in 1..Len(pool[s]) : pool[s][n] \in Deliveries
      BY ElementOfSeq DEF TypeOK
    <3>2. \A s \in Servers : \A n \in 1..Len(pool[s]) : At(pool[s][n], "queued")
      BY DEF PoolInv
    <3> QED
      BY <1>2, <3>1, <3>2
  <2>2. ASSUME NEW s \in Servers, NEW m \in 1..Len(pool[s]), NEW n \in 1..Len(pool[s])
        PROVE  /\ At(pool[s][n], "queued")' /\ Server(pool[s][n])' = s
               /\ pool[s][m] = pool[s][n] => m = n
    <3>1. delivery'[pool[s][n]] = delivery[pool[s][n]]
      BY <1>2, <2>1
    <3> QED
      BY <1>2, <3>1 DEF PoolInv, At, Server
  <2> QED
    BY <1>2, <2>2 DEF PoolInv
<1>3. ASSUME NEW d \in Deliveries,
             Ping(d) \/ LoadData(d) \/ (\E r \in Rows : Merge(d, r) \/ Locked(d, r)) \/ Complete(d)
             \/ (Settle(d) /\ Again(d)) \/ PrepareLocked(d)
      PROVE  PoolInv'
  <2>1. ~At(d, "queued") /\ pool' = pool
    BY <1>3 DEF Ping, LoadData, Merge, Locked, Complete, Settle, PrepareLocked, At
  <2>2. \A e \in Deliveries \ {d} : delivery'[e] = delivery[e]
    BY <1>3, StepFacts DEF GoesOn
  <2> QED
    BY <1>2, <2>1, <2>2
<1>4. ASSUME NEW d \in Deliveries,
             PingLate(d) \/ Postpone(d) \/ (Settle(d) /\ ~Again(d)) \/ Prepared(d) \/ Throws(d)
      PROVE  PoolInv'
  <2>1. ~At(d, "queued") /\ pool' = pool
    BY <1>4 DEF PingLate, Postpone, Settle, Prepared, Throws, At
  <2>2. delivery' = [delivery EXCEPT ![d] = Free]
    BY <1>4, Overs DEF Over
  <2>3. \A e \in Deliveries \ {d} : delivery'[e] = delivery[e]
    BY <2>2 DEF TypeOK
  <2> QED
    BY <1>2, <2>1, <2>3
<1>5. ASSUME NEW s \in Servers, Take(s) PROVE PoolInv'
  <2> DEFINE d == Next1(s)
  <2>1. /\ d \in Deliveries /\ Tail(pool[s]) \in Seq(Deliveries)
        /\ Len(Tail(pool[s])) = Len(pool[s]) - 1 /\ d = pool[s][1] /\ Len(pool[s]) \in Nat \ {0}
        /\ \A n \in 1..Len(pool[s]) - 1 : Tail(pool[s])[n] = pool[s][n + 1]
        /\ Server(d) = s
    BY <1>5, QueueOf DEF Take
  <2>2. /\ \A e \in Deliveries \ {d} : delivery'[e] = delivery[e]
        /\ pool' = [pool EXCEPT ![s] = Tail(pool[s])]
    BY <1>5 DEF Take, TypeOK
  <2>3. /\ pool'[s] = Tail(pool[s]) /\ \A z \in Servers \ {s} : pool'[z] = pool[z]
    BY <2>2 DEF TypeOK
  <2>4. \A z \in Servers : \A n \in 1..Len(pool[z]) : pool[z][n] \in Deliveries
    BY ElementOfSeq DEF TypeOK
  <2> HIDE DEF d
  <2>5. ASSUME NEW z \in Servers \ {s}, NEW m \in 1..Len(pool'[z]), NEW n \in 1..Len(pool'[z])
        PROVE  /\ At(pool[z][n], "queued")' /\ Server(pool[z][n])' = z
               /\ pool[z][m]' = pool[z][n]' => m = n
    <3>1. pool[z][n] # d /\ pool[z][n] \in Deliveries
      BY <2>1, <2>3, <2>4, <2>5 DEF PoolInv
    <3> QED
      BY <2>2, <2>3, <2>5, <3>1 DEF PoolInv, At, Server
  <2>6. ASSUME NEW m \in 1..Len(pool'[s]), NEW n \in 1..Len(pool'[s])
        PROVE  /\ At(pool[s][n], "queued")' /\ Server(pool[s][n])' = s
               /\ pool[s][m]' = pool[s][n]' => m = n
    <3>1. /\ m + 1 \in 1..Len(pool[s]) /\ n + 1 \in 1..Len(pool[s]) /\ 1 \in 1..Len(pool[s])
          /\ pool'[s][m] = pool[s][m + 1] /\ pool'[s][n] = pool[s][n + 1] /\ n + 1 # 1
      BY <2>1, <2>3
    <3>2. pool[s][n + 1] # d /\ pool[s][n + 1] \in Deliveries
      BY <2>1, <2>4, <3>1 DEF PoolInv
    <3>3. pool[s][m + 1] = pool[s][n + 1] => m + 1 = n + 1
      BY <3>1 DEF PoolInv
    <3>4. At(pool[s][n + 1], "queued") /\ Server(pool[s][n + 1]) = s
      BY <3>1 DEF PoolInv
    <3> QED
      BY <2>2, <3>1, <3>2, <3>3, <3>4 DEF At, Server
  <2> QED
    BY <2>5, <2>6 DEF PoolInv
<1>6. ASSUME NEW d \in Deliveries, TooLate(d) PROVE PoolInv'
  <2> PICK s \in Servers : s = Server(d)
    BY <1>6, Live DEF TooLate, At
  <2>1. PICK k \in 1..Len(pool[s]) : pool[s][k] = d /\ pool' = [pool EXCEPT ![s] = Without(@, k)]
    BY <1>6 DEF TooLate
  <2>2. pool \in [Servers -> Seq(Deliveries)] /\ Len(pool[s]) \in Nat
    BY DEF TypeOK
  <2>3. delivery' = [delivery EXCEPT ![d] = Free]
    BY <1>6, Overs DEF Over
  <2>4. \A e \in Deliveries \ {d} : delivery'[e] = delivery[e]
    BY <2>3 DEF TypeOK
  <2>5. pool'[s] = Without(pool[s], k) /\ \A z \in Servers \ {s} : pool'[z] = pool[z]
    BY <2>1, <2>2
  <2>6. \A z \in Servers : \A n \in 1..Len(pool[z]) : pool[z][n] \in Deliveries
    BY ElementOfSeq DEF TypeOK
  <2>7. /\ Len(pool'[s]) = Len(pool[s]) - 1
        /\ \A m \in 1..Len(pool[s]) - 1 : pool'[s][m] = pool[s][IF m < k THEN m ELSE m + 1]
    BY <2>1, <2>2, <2>5, WithoutFacts
  <2>8. ASSUME NEW z \in Servers \ {s}, NEW m \in 1..Len(pool'[z]), NEW n \in 1..Len(pool'[z])
        PROVE  /\ At(pool[z][n], "queued")' /\ Server(pool[z][n])' = z
               /\ pool[z][m]' = pool[z][n]' => m = n
    <3>1. pool[z][n] # d /\ pool[z][n] \in Deliveries
      BY <2>5, <2>6, <2>8 DEF PoolInv
    <3> QED
      BY <2>4, <2>5, <2>8, <3>1 DEF PoolInv, At, Server
  <2>9. ASSUME NEW m \in 1..Len(pool'[s]), NEW n \in 1..Len(pool'[s])
        PROVE  /\ At(pool[s][n], "queued")' /\ Server(pool[s][n])' = s
               /\ pool[s][m]' = pool[s][n]' => m = n
    <3> DEFINE x == IF m < k THEN m ELSE m + 1
               y == IF n < k THEN n ELSE n + 1
    <3>1. /\ x \in 1..Len(pool[s]) /\ y \in 1..Len(pool[s]) /\ y # k
          /\ pool'[s][m] = pool[s][x] /\ pool'[s][n] = pool[s][y]
          /\ x = y => m = n
      BY <2>2, <2>7
    <3> HIDE DEF x, y
    <3>2. pool[s][y] # d /\ pool[s][y] \in Deliveries
      BY <2>1, <2>2, <2>6, <3>1 DEF PoolInv
    <3>3. pool[s][x] = pool[s][y] => x = y
      BY <2>2, <3>1 DEF PoolInv
    <3>4. At(pool[s][y], "queued") /\ Server(pool[s][y]) = s
      BY <2>2, <3>1 DEF PoolInv
    <3> QED
      BY <2>4, <3>1, <3>2, <3>3, <3>4 DEF At, Server
  <2> QED
    BY <2>8, <2>9 DEF PoolInv
<1>7. ASSUME NEW s \in Servers, NEW b \in Blocks, Dequeue(s, b) PROVE PoolInv'
  <2>1. PICK d \in Deliveries :
               /\ delivery[d] = Free
               /\ delivery'[d] = [step |-> "queued", block |-> b, server |-> s,
                                  rows |-> {}, locked |-> {}, merged |-> FALSE]
               /\ \A e \in Deliveries \ {d} : delivery'[e] = delivery[e]
               /\ pool' = [pool EXCEPT ![s] = Append(pool[s], d)]
    BY <1>7, DequeueFacts
  <2>2. pool'[s] = Append(pool[s], d) /\ \A z \in Servers \ {s} : pool'[z] = pool[z]
    BY <2>1 DEF TypeOK
  <2>3. \A z \in Servers : \A n \in 1..Len(pool[z]) : pool[z][n] \in Deliveries /\ pool[z][n] # d
    BY <2>1, ElementOfSeq DEF TypeOK, PoolInv, At, Free
  <2>4. /\ Len(pool[s]) \in Nat /\ Len(pool'[s]) = Len(pool[s]) + 1
        /\ pool'[s][Len(pool[s]) + 1] = d
        /\ \A n \in 1..Len(pool[s]) : pool'[s][n] = pool[s][n]
    BY <2>2, AppendProperties DEF TypeOK
  <2>5. ASSUME NEW z \in Servers \ {s}, NEW m \in 1..Len(pool'[z]), NEW n \in 1..Len(pool'[z])
        PROVE  /\ At(pool[z][n], "queued")' /\ Server(pool[z][n])' = z
               /\ pool[z][m]' = pool[z][n]' => m = n
    BY <2>1, <2>2, <2>3, <2>5 DEF PoolInv, At, Server
  <2>6. ASSUME NEW m \in 1..Len(pool'[s]), NEW n \in 1..Len(pool'[s])
        PROVE  /\ At(pool[s][n], "queued")' /\ Server(pool[s][n])' = s
               /\ pool[s][m]' = pool[s][n]' => m = n
    <3>1. \A i \in 1..Len(pool'[s]) : i \in 1..Len(pool[s]) \/ i = Len(pool[s]) + 1
      BY <2>4
    <3>2. pool'[s][n] \in Deliveries /\ At(pool[s][n], "queued")' /\ Server(pool[s][n])' = s
      <4>1. CASE n \in 1..Len(pool[s])
        BY <2>1, <2>3, <2>4, <4>1 DEF PoolInv, At, Server
      <4>2. CASE n = Len(pool[s]) + 1
        BY <2>1, <2>4, <4>2 DEF At, Server
      <4> QED
        BY <3>1, <4>1, <4>2
    <3>3. pool'[s][m] = pool'[s][n] => m = n
      BY <2>3, <2>4, <3>1 DEF PoolInv
    <3> QED
      BY <3>2, <3>3
  <2> QED
    BY <2>5, <2>6 DEF PoolInv
<1>8. ASSUME NEW s \in Servers, Crash(s) PROVE PoolInv'
  <2>1. pool'[s] = <<>> /\ \A z \in Servers \ {s} : pool'[z] = pool[z]
    BY <1>8 DEF Crash, TypeOK
  <2>2. \A d \in Deliveries : delivery'[d] = IF d \in DeadDeliveries(s) THEN Free ELSE delivery[d]
    BY <1>8, CrashFacts
  <2>3. \A z \in Servers : \A n \in 1..Len(pool[z]) : pool[z][n] \in Deliveries
    BY ElementOfSeq DEF TypeOK
  <2>4. ASSUME NEW z \in Servers \ {s}, NEW m \in 1..Len(pool'[z]), NEW n \in 1..Len(pool'[z])
        PROVE  /\ At(pool[z][n], "queued")' /\ Server(pool[z][n])' = z
               /\ pool[z][m]' = pool[z][n]' => m = n
    <3>1. pool[z][n] \in Deliveries /\ Server(pool[z][n]) = z /\ At(pool[z][n], "queued")
      BY <2>1, <2>3, <2>4 DEF PoolInv
    <3>2. pool[z][n] \notin DeadDeliveries(s)
      BY <3>1 DEF DeadDeliveries
    <3> QED
      BY <2>1, <2>2, <2>4, <3>1, <3>2 DEF PoolInv, At, Server
  <2> QED
    BY <2>1, <2>4 DEF PoolInv
<1>9. ASSUME NEW d \in Deliveries, DeliveryStep(d) PROVE PoolInv'
  BY <1>3, <1>4, <1>9 DEF DeliveryStep
<1>10. ASSUME NEW d \in Deliveries, WaitsTooLong(d) \/ Stall(d) PROVE PoolInv'
  BY <1>1, <1>6, <1>10 DEF WaitsTooLong, Stall, Unattended
<1>11. ASSUME \/ \E q \in Requests : Write(q)
              \/ \E t \in Makers : Making(t) \/ CreateFails(t)
              \/ \E j \in Jobs : JobStep(j) \/ JobFails(j) \/ (\E s \in Servers : DequeueBuffer(j, s))
              \/ \E s \in Servers : EnsureWorker(s) \/ LoopEnds(s) \/ OnWorkerCompleted(s)
              \/ \E b \in Blocks : Drop(b) \/ Lapse(b) \/ Expire(b)
              \/ BufferTimeout \/ Overrun \/ UNCHANGED vars
       PROVE  PoolInv'
  <2>1. CASE \/ \E q \in Requests : Write(q)
             \/ \E t \in Makers : Making(t) \/ CreateFails(t)
    BY <1>1, <2>1 DEF Write, Making, InsertBlock, Activate, CreateFails
  <2>2. CASE \E j \in Jobs : JobStep(j) \/ JobFails(j) \/ (\E s \in Servers : DequeueBuffer(j, s))
    BY <1>1, <2>2 DEF JobStep, QueryData, CreateTransactions, ClearData, JobFails, DequeueBuffer
  <2>3. CASE \E s \in Servers : EnsureWorker(s) \/ LoopEnds(s) \/ OnWorkerCompleted(s)
    BY <1>1, <2>3 DEF EnsureWorker, LoopEnds, OnWorkerCompleted
  <2>4. CASE \/ \E b \in Blocks : Drop(b) \/ Lapse(b) \/ Expire(b)
             \/ BufferTimeout \/ Overrun \/ UNCHANGED vars
    BY <1>1, <2>4 DEF Drop, Lapse, Expire, BufferTimeout, Overrun, BufferLapses, vars
  <2> QED
    BY <1>11, <2>1, <2>2, <2>3, <2>4
<1> QED
  BY <1>4, <1>5, <1>7, <1>8, <1>9, <1>10, <1>11 DEF Next, WorkerStep

-------------------------------------------------------------------------------
(* Who holds a message works on its block.                                   *)
LEMMA HolderStep ==
  ASSUME TypeOK, PoolInv, HolderInv, MakingInv, [Next]_vars
  PROVE  HolderInv'
<1> USE DEF sysVars, poolVars
<1>1. ASSUME UNCHANGED delivery,
             \A b \in Blocks : message'[b].holder # Nobody =>
                /\ message'[b].holder = message[b].holder
                /\ message'[b].queued = message[b].queued
                /\ block[b].exists => block'[b].exists
      PROVE  HolderInv'
  BY <1>1 DEF HolderInv, OnItsBlock
<1>2. ASSUME NEW d \in Deliveries, delivery'[d].block = delivery[d].block,
             \A e \in Deliveries \ {d} : delivery'[e] = delivery[e],
             OnItsBlock(d)' \/ \A b \in Blocks : message'[b].holder # d,
             \A b \in Blocks : message'[b].holder # Nobody =>
                /\ message'[b].holder = message[b].holder
                /\ message'[b].queued = message[b].queued
                /\ block[b].exists => block'[b].exists
      PROVE  HolderInv'
  <2>1. ASSUME NEW b \in Blocks, message'[b].holder # Nobody
        PROVE  /\ OnItsBlock(message[b].holder)' /\ delivery'[message'[b].holder].block = b
               /\ message'[b].queued /\ block'[b].exists
    <3>1. message'[b].holder = message[b].holder /\ message[b].holder \in Deliveries
      BY <1>2, <2>1, MessageParts DEF TypeOK
    <3>2. CASE message[b].holder = d
      BY <1>2, <2>1, <3>1, <3>2 DEF HolderInv, OnItsBlock
    <3>3. CASE message[b].holder # d
      BY <1>2, <2>1, <3>1, <3>3 DEF HolderInv, OnItsBlock
    <3> QED
      BY <3>2, <3>3
  <2> QED
    BY <2>1 DEF HolderInv
<1>3. ASSUME NEW d \in Deliveries, Over(d),
             \A b \in Blocks : message'[b].holder # Nobody => block'[b] = block[b]
      PROVE  HolderInv'
  <2>1. ASSUME NEW b \in Blocks, message'[b].holder # Nobody
        PROVE  /\ OnItsBlock(message[b].holder)' /\ delivery'[message'[b].holder].block = b
               /\ message'[b].queued /\ block'[b].exists
    <3>1. /\ message'[b].holder = message[b].holder /\ message[b].holder # d
          /\ message'[b].queued = message[b].queued
      BY <1>3, <2>1 DEF Over
    <3>2. message[b].holder \in Deliveries
      BY <2>1, <3>1, MessageParts DEF TypeOK
    <3>3. delivery'[message[b].holder] = delivery[message[b].holder]
      BY <1>3, <3>1, <3>2 DEF Over, TypeOK
    <3> QED
      BY <1>3, <2>1, <3>1, <3>2, <3>3 DEF HolderInv, OnItsBlock
  <2> QED
    BY <2>1 DEF HolderInv
<1>4. ASSUME NEW t \in Makers, InsertBlock(t) PROVE HolderInv'
  <2>1. /\ making'[t].block \in Blocks
        /\ block'[making'[t].block] = [exists |-> TRUE, rows |-> making[t].rows]
        /\ \A b \in Blocks \ {making'[t].block} : block'[b] = block[b]
    BY <1>4, InsertFacts
  <2> QED
    BY <1>1, <1>4, <2>1 DEF InsertBlock
<1>5. ASSUME NEW t \in Makers, Activate(t) PROVE HolderInv'
  <2>1. /\ \A b \in Blocks \ {making[t].block} : message'[b] = message[b]
        /\ message'[making[t].block].holder = Nobody
    BY <1>5, ActivateFacts DEF NewMessage
  <2> QED
    BY <1>1, <1>5, <2>1 DEF Activate
<1>6. ASSUME NEW t \in Makers, CreateFails(t) PROVE HolderInv'
  <2>1. /\ \A b \in Blocks : b # making[t].block =>
                                block'[b] = block[b] /\ message'[b] = message[b]
        /\ making[t].block \in Blocks =>
              message'[making[t].block] \in {message[making[t].block], NewMessage}
    BY <1>6, CreateFailsFacts
  <2>2. making[t].block \in Blocks => message[making[t].block].holder = Nobody
    <3>1. making[t].block \in Blocks => ~message[making[t].block].queued
      BY DEF MakingInv
    <3> QED
      BY <3>1 DEF HolderInv
  <2>3. \A b \in Blocks : message'[b].holder # Nobody => b # making[t].block
    BY <2>1, <2>2 DEF NewMessage
  <2> QED
    BY <1>1, <1>6, <2>1, <2>3 DEF CreateFails
<1>7. ASSUME NEW d \in Deliveries, Ping(d) PROVE HolderInv'
  <2>1. GoesOn(d, "load", delivery[d].rows, delivery[d].locked, delivery[d].merged)
    BY <1>7, StepFacts
  <2>2. \A b \in Blocks : /\ message'[b].queued = message[b].queued
                          /\ message'[b].holder = message[b].holder
    BY <1>7, PingedFacts DEF Ping, At
  <2> QED
    BY <1>2, <1>7, <2>1, <2>2 DEF Ping, GoesOn, OnItsBlock
<1>8. ASSUME NEW d \in Deliveries, LoadData(d) \/ (\E r \in Rows : Merge(d, r) \/ Locked(d, r))
      PROVE  HolderInv'
  <2>1. /\ delivery'[d].step = "merge" /\ delivery'[d].block = delivery[d].block
        /\ \A e \in Deliveries \ {d} : delivery'[e] = delivery[e]
    BY <1>8, StepFacts DEF GoesOn
  <2>2. UNCHANGED <<message, block>>
    BY <1>8 DEF LoadData, Merge, Locked
  <2> QED
    BY <1>2, <2>1, <2>2 DEF OnItsBlock
<1>9. ASSUME NEW d \in Deliveries, Complete(d) PROVE HolderInv'
  <2>1. GoesOn(d, "settle", delivery[d].rows, delivery[d].locked, delivery[d].merged)
    BY <1>9, StepFacts
  <2>2. \A b \in Blocks : block'[b].exists = block[b].exists
    BY <1>9, DeleteBlobFacts DEF Complete, At
  <2>3. message' = message
    BY <1>9 DEF Complete
  <2> QED
    BY <1>2, <2>1, <2>2, <2>3 DEF GoesOn, OnItsBlock
<1>10. ASSUME NEW d \in Deliveries, Settle(d) PROVE HolderInv'
  <2>1. ~At(d, "free") /\ block' = CompletedBlock(d)
    BY <1>10 DEF Settle, At
  <2>2. /\ Holds(d) => CompletedMessage(d)[delivery[d].block].holder = Nobody
        /\ \A b \in Blocks : ~(Holds(d) /\ b = delivery[d].block) =>
              CompletedMessage(d)[b] = message[b] /\ CompletedBlock(d)[b] = block[b]
    BY <2>1, CompletedFacts DEF NoMessage
  <2>3. CASE Again(d)
    <3>1. GoesOn(d, "prepare", delivery[d].rows, delivery[d].locked, delivery[d].merged)
      BY <1>10, <2>3, StepFacts
    <3>2. message' = CompletedMessage(d)
      BY <1>10, <2>3 DEF Settle
    <3>3. \A b \in Blocks : message'[b].holder # d
      BY <2>2, <3>2 DEF HolderInv, Holds
    <3>4. \A b \in Blocks : message'[b].holder # Nobody =>
             message'[b] = message[b] /\ block'[b] = block[b]
      BY <2>1, <2>2, <3>2
    <3> QED
      BY <1>2, <3>1, <3>3, <3>4 DEF GoesOn
  <2>4. CASE ~Again(d)
    <3>1. Over(d)
      BY <1>10, <2>4, Overs
    <3>2. \A b \in Blocks : message'[b].holder # Nobody => ~(Holds(d) /\ b = delivery[d].block)
      BY <3>1 DEF Over, Holds
    <3> QED
      BY <1>3, <2>1, <2>2, <3>1, <3>2
  <2> QED
    BY <2>3, <2>4
<1>11. ASSUME NEW d \in Deliveries, PrepareLocked(d) PROVE HolderInv'
  <2>1. GoesOn(d, "prepare", delivery[d].rows, {}, delivery[d].merged)
    BY <1>11, StepFacts
  <2>2. UNCHANGED <<message, block>> /\ \A b \in Blocks : message[b].holder # d
    BY <1>11 DEF PrepareLocked, HolderInv, OnItsBlock, At
  <2> QED
    BY <1>2, <2>1, <2>2 DEF GoesOn
<1>12. ASSUME NEW d \in Deliveries,
              PingLate(d) \/ Postpone(d) \/ Prepared(d) \/ TooLate(d) \/ Throws(d)
       PROVE  HolderInv'
  <2>1. Over(d)
    BY <1>12, Overs
  <2>2. \/ block' = block
        \/ block' = IF Holds(d) THEN [block EXCEPT ![delivery[d].block] = NoRows] ELSE block
    BY <1>12 DEF PingLate, Postpone, Prepared, TooLate, Throws
  <2>3. \A b \in Blocks : message'[b].holder # Nobody => ~(Holds(d) /\ b = delivery[d].block)
    BY <2>1 DEF Over, Holds
  <2>4. \A b \in Blocks : message'[b].holder # Nobody => block'[b] = block[b]
    BY <2>2, <2>3 DEF TypeOK
  <2> QED
    BY <1>3, <2>1, <2>4
<1>13. ASSUME NEW s \in Servers, Take(s) PROVE HolderInv'
  <2>1. Next1(s) \in Deliveries /\ delivery[Next1(s)] \in Delivery
    BY <1>13, QueueOf, Live DEF Take, At
  <2>2. delivery' = [delivery EXCEPT ![Next1(s)] = [delivery[Next1(s)] EXCEPT !.step = "ping"]]
    BY <1>13 DEF Take
  <2>3. /\ delivery'[Next1(s)].step = "ping"
        /\ delivery'[Next1(s)].block = delivery[Next1(s)].block
        /\ \A e \in Deliveries \ {Next1(s)} : delivery'[e] = delivery[e]
    BY <2>1, <2>2 DEF TypeOK, Delivery
  <2>4. UNCHANGED <<message, block>>
    BY <1>13 DEF Take
  <2> QED
    BY <1>2, <2>1, <2>3, <2>4 DEF OnItsBlock
<1>14. ASSUME NEW s \in Servers, NEW x \in Blocks, Dequeue(s, x) PROVE HolderInv'
  <2>1. PICK d \in Deliveries :
               /\ delivery[d] = Free
               /\ delivery'[d] = [step |-> "queued", block |-> x, server |-> s,
                                  rows |-> {}, locked |-> {}, merged |-> FALSE]
               /\ \A e \in Deliveries \ {d} : delivery'[e] = delivery[e]
               /\ message'[x].holder = d /\ message'[x].queued
    BY <1>14, DequeueFacts
  <2>2. block' = block /\ block[x].exists /\ \A b \in Blocks \ {x} : message'[b] = message[b]
    BY <1>14, DequeueFacts DEF Dequeue
  <2>3. \A b \in Blocks : message[b].holder # d
    BY <2>1 DEF HolderInv, OnItsBlock, Free
  <2>4. ASSUME NEW b \in Blocks \ {x}, message'[b].holder # Nobody
        PROVE  /\ OnItsBlock(message[b].holder)' /\ delivery'[message'[b].holder].block = b
               /\ message'[b].queued /\ block'[b].exists
    <3>1. message[b].holder \in Deliveries \ {d} /\ message'[b] = message[b]
      BY <2>2, <2>3, <2>4, MessageParts DEF TypeOK
    <3> QED
      BY <2>1, <2>2, <2>4, <3>1 DEF HolderInv, OnItsBlock
  <2>5. OnItsBlock(message[x].holder)' /\ delivery'[message'[x].holder].block = x
    BY <2>1 DEF OnItsBlock
  <2> QED
    BY <2>1, <2>2, <2>4, <2>5 DEF HolderInv
<1>15. ASSUME NEW s \in Servers, Crash(s) PROVE HolderInv'
  <2>1. ASSUME NEW b \in Blocks, message'[b].holder # Nobody
        PROVE  /\ OnItsBlock(message[b].holder)' /\ delivery'[message'[b].holder].block = b
               /\ message'[b].queued /\ block'[b].exists
    <3>1. /\ message'[b].holder = message[b].holder /\ message[b].holder \notin DeadDeliveries(s)
          /\ message'[b].queued = message[b].queued
      BY <1>15, <2>1, CrashFacts
    <3>2. message[b].holder \in Deliveries
      BY <2>1, <3>1, MessageParts DEF TypeOK
    <3>3. delivery'[message[b].holder] = delivery[message[b].holder]
      BY <1>15, <3>1, <3>2, CrashFacts
    <3>4. /\ message[b].queued /\ block[b].exists /\ OnItsBlock(message[b].holder)
          /\ delivery[message[b].holder].block = b
      BY <2>1, <3>1 DEF HolderInv
    <3>5. ASSUME NEW t \in DeadDeliveries(s) \cup DeadJobs(s) PROVE making[t].block # b
      <4>1. t \in Makers
        BY MakersAre DEF DeadDeliveries, DeadJobs
      <4>2. making[t].block # NoBlock => ~message[making[t].block].queued
        BY <4>1 DEF MakingInv
      <4> QED
        BY <3>4, <4>2
    <3>6. block'[b] = block[b]
      BY <1>15, <3>5, CrashFacts
    <3> QED
      BY <3>1, <3>3, <3>4, <3>6 DEF OnItsBlock
  <2> QED
    BY <2>1 DEF HolderInv
<1>16. ASSUME NEW b \in Blocks, Drop(b) \/ Lapse(b) \/ Expire(b) PROVE HolderInv'
  <2>1. UNCHANGED <<delivery, block>>
    BY <1>16 DEF Drop, Lapse, Expire
  <2>2. CASE Drop(b) \/ Expire(b)
    <3>1. message' = [message EXCEPT ![b] = NoMessage]
      BY <2>2 DEF Drop, Expire
    <3> QED
      BY <1>1, <2>1, <3>1 DEF NoMessage, TypeOK
  <2>3. CASE Lapse(b)
    <3>1. \A x \in Blocks : message'[x].holder = message[x].holder
                            /\ message'[x].queued = message[x].queued
      BY <2>3, VisibleFacts DEF Lapse
    <3> QED
      BY <1>1, <2>1, <3>1
  <2> QED
    BY <1>16, <2>2, <2>3
<1>17. ASSUME NEW d \in Deliveries, Unattended(d) PROVE HolderInv'
  <2>1. delivery[d].block \in Blocks
    BY <1>17, Live DEF Unattended, At
  <2>2. \A b \in Blocks : message'[b].holder = message[b].holder
                          /\ message'[b].queued = message[b].queued
    BY <1>17, <2>1, VisibleFacts DEF Unattended
  <2> QED
    BY <1>1, <1>17, <2>2 DEF Unattended
<1>18. ASSUME UNCHANGED <<delivery, message, block>> PROVE HolderInv'
  BY <1>1, <1>18
<1>19. ASSUME \/ \E q \in Requests : Write(q)
              \/ \E j \in Jobs : JobStep(j) \/ JobFails(j) \/ (\E s \in Servers : DequeueBuffer(j, s))
              \/ \E s \in Servers : EnsureWorker(s) \/ LoopEnds(s) \/ OnWorkerCompleted(s)
              \/ BufferTimeout \/ Overrun \/ UNCHANGED vars
       PROVE  HolderInv'
  <2>1. CASE \/ \E q \in Requests : Write(q)
             \/ \E s \in Servers : EnsureWorker(s) \/ LoopEnds(s) \/ OnWorkerCompleted(s)
    BY <1>18, <2>1 DEF Write, EnsureWorker, LoopEnds, OnWorkerCompleted
  <2>2. CASE \E j \in Jobs : JobStep(j) \/ JobFails(j) \/ (\E s \in Servers : DequeueBuffer(j, s))
    BY <1>18, <2>2 DEF JobStep, QueryData, CreateTransactions, ClearData, JobFails, DequeueBuffer
  <2>3. CASE BufferTimeout \/ Overrun \/ UNCHANGED vars
    BY <1>18, <2>3 DEF BufferTimeout, Overrun, BufferLapses, vars
  <2> QED
    BY <1>19, <2>1, <2>2, <2>3
<1>20. ASSUME NEW d \in Deliveries, DeliveryStep(d) PROVE HolderInv'
  BY <1>7, <1>8, <1>9, <1>10, <1>11, <1>12, <1>20 DEF DeliveryStep
<1>21. ASSUME NEW d \in Deliveries, WaitsTooLong(d) \/ Stall(d) PROVE HolderInv'
  BY <1>12, <1>17, <1>21 DEF WaitsTooLong, Stall
<1> QED
  BY <1>4, <1>5, <1>6, <1>12, <1>13, <1>14, <1>15, <1>16, <1>19, <1>20, <1>21
  DEF Next, Making, WorkerStep

-------------------------------------------------------------------------------
(* A block in the making is its maker's alone, and a job or a delivery that  *)
(* makes a block stays what it is.                                           *)
LEMMA MakersStep ==
  ASSUME TypeOK, PoolInv, HolderInv, MakersInv, [Next]_vars
  PROVE  MakersInv'
<1> USE DEF sysVars, poolVars
<1>1. ASSUME \A t \in Deliveries \cup Jobs : making'[t] \in {making[t], Nothing},
             \A d \in Deliveries : At(d, "prepare") /\ delivery[d].locked = {} /\ making'[d] # Nothing
                                      => delivery'[d] = delivery[d],
             \A j \in Jobs : job[j].step = "create" /\ making'[j] # Nothing =>
                                job'[j].step = "create"
      PROVE  MakersInv'
  BY <1>1 DEF MakersInv, At
<1>2. ASSUME UNCHANGED <<making, delivery, job>> PROVE MakersInv'
  BY <1>1, <1>2
<1>3. ASSUME NEW q \in Requests, Write(q) PROVE MakersInv'
  <2>1. PICK rows \in arriving : Prepare(q, rows)
    BY <1>3 DEF Write
  <2>2. rows \in SUBSET Rows /\ q \in Makers
    BY BatchesAssumption, MakersAre DEF TypeOK
  <2>3. \A t \in Makers \ {q} : making'[t] = making[t]
    BY <2>1, <2>2, PrepareFacts
  <2>4. \A t \in Deliveries \cup Jobs : making'[t] = making[t]
    BY <2>3, MakersAre
  <2> QED
    BY <1>1, <1>3, <2>4 DEF Write
<1>4. ASSUME NEW t \in Makers, InsertBlock(t) PROVE MakersInv'
  <2>1. \A u \in Makers \ {t} : making'[u] = making[u]
    BY <1>4, InsertFacts
  <2>2. making[t] # Nothing /\ UNCHANGED <<delivery, job>>
    BY <1>4, NothingIsRecord DEF InsertBlock
  <2> QED
    BY <2>1, <2>2, MakersAre DEF MakersInv, At
<1>5. ASSUME NEW t \in Makers, Activate(t) \/ CreateFails(t) PROVE MakersInv'
  <2>1. /\ making'[t] = Nothing /\ \A u \in Makers \ {t} : making'[u] = making[u]
    BY <1>5, ActivateFacts, CreateFailsFacts
  <2>2. UNCHANGED <<delivery, job>>
    BY <1>5 DEF Activate, CreateFails
  <2> QED
    BY <1>1, <2>1, <2>2, MakersAre
<1>6. ASSUME NEW j \in Jobs, QueryData(j) PROVE MakersInv'
  <2>1. /\ job'[j].step = "create" /\ \A k \in Jobs \ {j} : job'[k] = job[k]
        /\ UNCHANGED <<making, delivery>>
    BY <1>6, JobFacts DEF QueryData
  <2> QED
    BY <1>1, <2>1
<1>7. ASSUME NEW j \in Jobs, CreateTransactions(j) PROVE MakersInv'
  <2>1. /\ job'[j].step = "create" /\ \A k \in Jobs \ {j} : job'[k] = job[k]
        /\ \A t \in Makers \ {j} : making'[t] = making[t]
    BY <1>7, JobFacts
  <2>2. \A d \in Deliveries : making'[d] = making[d] /\ delivery'[d] = delivery[d]
    BY <1>7, <2>1, MakersAre DEF CreateTransactions
  <2> QED
    BY <2>1, <2>2, MakersAre DEF MakersInv, At
<1>8. ASSUME NEW j \in Jobs, ClearData(j) \/ JobFails(j) \/ \E s \in Servers : DequeueBuffer(j, s)
      PROVE  MakersInv'
  <2>1. making[j] = Nothing
    BY <1>8, StepsApart DEF ClearData, JobFails, DequeueBuffer, MakersInv
  <2>2. UNCHANGED <<making, delivery>> /\ \A k \in Jobs \ {j} : job'[k] = job[k]
    BY <1>8 DEF ClearData, JobFails, DequeueBuffer, TypeOK
  <2> QED
    BY <1>1, <2>1, <2>2
<1>9. ASSUME NEW d \in Deliveries, ~At(d, "prepare"), UNCHANGED <<making, job>>,
             \A e \in Deliveries \ {d} : delivery'[e] = delivery[e]
      PROVE  MakersInv'
  BY <1>1, <1>9
<1>10. ASSUME NEW d \in Deliveries,
              Ping(d) \/ LoadData(d) \/ (\E r \in Rows : Merge(d, r) \/ Locked(d, r)) \/ Complete(d)
              \/ (Settle(d) /\ Again(d))
       PROVE  MakersInv'
  <2>1. ~At(d, "prepare") /\ UNCHANGED <<making, job>>
    BY <1>10 DEF Ping, LoadData, Merge, Locked, Complete, Settle, At
  <2>2. \A e \in Deliveries \ {d} : delivery'[e] = delivery[e]
    BY <1>10, StepFacts DEF GoesOn
  <2> QED
    BY <1>9, <2>1, <2>2
<1>11. ASSUME NEW d \in Deliveries,
              PingLate(d) \/ Postpone(d) \/ (Settle(d) /\ ~Again(d)) \/ Prepared(d)
              \/ TooLate(d) \/ Throws(d)
       PROVE  MakersInv'
  <2>1. delivery' = [delivery EXCEPT ![d] = Free]
    BY <1>11, Overs DEF Over
  <2>2. \A e \in Deliveries \ {d} : delivery'[e] = delivery[e]
    BY <2>1 DEF TypeOK
  <2>3. making[d] = Nothing /\ UNCHANGED <<making, job>>
    BY <1>11 DEF PingLate, Postpone, Settle, Prepared, TooLate, Throws, At, MakersInv
  <2> QED
    BY <1>1, <2>2, <2>3
<1>12. ASSUME NEW d \in Deliveries, PrepareLocked(d) PROVE MakersInv'
  <2>1. GoesOn(d, "prepare", delivery[d].rows, {}, delivery[d].merged)
    BY <1>12, StepFacts
  <2>2. d \in Makers /\ delivery[d].locked \in SUBSET Rows /\ Prepare(d, delivery[d].locked)
    BY <1>12, MakersAre, Live DEF PrepareLocked, At
  <2>3. \A t \in Makers \ {d} : making'[t] = making[t]
    BY <2>2, PrepareFacts
  <2>4. job' = job
    BY <1>12 DEF PrepareLocked
  <2> QED
    BY <2>1, <2>3, <2>4, MakersAre DEF MakersInv, GoesOn, At
<1>13. ASSUME NEW s \in Servers, Take(s) PROVE MakersInv'
  <2>1. Next1(s) \in Deliveries /\ At(Next1(s), "queued")
    BY <1>13, QueueOf DEF Take
  <2>2. \A e \in Deliveries \ {Next1(s)} : delivery'[e] = delivery[e]
    BY <1>13, <2>1 DEF Take, TypeOK
  <2> QED
    BY <1>9, <1>13, <2>1, <2>2 DEF Take, At
<1>14. ASSUME NEW s \in Servers, NEW x \in Blocks, Dequeue(s, x) PROVE MakersInv'
  <2>1. \E d \in Deliveries :
               /\ delivery[d] = Free
               /\ \A e \in Deliveries \ {d} : delivery'[e] = delivery[e]
    BY <1>14, DequeueFacts
  <2> QED
    BY <1>9, <1>14, <2>1 DEF Dequeue, At, Free
<1>15. ASSUME NEW s \in Servers, Crash(s) PROVE MakersInv'
  <2>1. \A t \in Makers : making'[t] = IF t \in DeadDeliveries(s) \cup DeadJobs(s)
                                       THEN Nothing ELSE making[t]
    BY <1>15, CrashFacts
  <2>2. \A d \in Deliveries : delivery'[d] = IF d \in DeadDeliveries(s) THEN Free ELSE delivery[d]
    BY <1>15, CrashFacts
  <2>3. \A j \in Jobs : job'[j] = IF j \in DeadJobs(s) THEN Idle ELSE job[j]
    BY <1>15, CrashFacts
  <2> QED
    BY <1>1, <2>1, <2>2, <2>3, MakersAre
<1>16. ASSUME \/ \E b \in Blocks : Drop(b) \/ Lapse(b) \/ Expire(b)
              \/ \E s \in Servers : EnsureWorker(s) \/ LoopEnds(s) \/ OnWorkerCompleted(s)
              \/ BufferTimeout \/ Overrun \/ UNCHANGED vars
       PROVE  MakersInv'
  <2>1. CASE \E b \in Blocks : Drop(b) \/ Lapse(b) \/ Expire(b)
    BY <1>2, <2>1 DEF Drop, Lapse, Expire
  <2>2. CASE \E s \in Servers : EnsureWorker(s) \/ LoopEnds(s) \/ OnWorkerCompleted(s)
    BY <1>2, <2>2 DEF EnsureWorker, LoopEnds, OnWorkerCompleted
  <2>3. CASE BufferTimeout \/ Overrun \/ UNCHANGED vars
    BY <1>2, <2>3 DEF BufferTimeout, Overrun, BufferLapses, vars
  <2> QED
    BY <1>16, <2>1, <2>2, <2>3
<1>17. ASSUME NEW d \in Deliveries, Unattended(d) PROVE MakersInv'
  BY <1>2, <1>17 DEF Unattended
<1>18. ASSUME NEW d \in Deliveries, DeliveryStep(d) PROVE MakersInv'
  BY <1>10, <1>11, <1>12, <1>18 DEF DeliveryStep
<1>19. ASSUME NEW d \in Deliveries, WaitsTooLong(d) \/ Stall(d) PROVE MakersInv'
  BY <1>11, <1>17, <1>19 DEF WaitsTooLong, Stall
<1>20. ASSUME NEW j \in Jobs,
              JobStep(j) \/ JobFails(j) \/ (\E s \in Servers : DequeueBuffer(j, s))
       PROVE  MakersInv'
  BY <1>6, <1>7, <1>8, <1>20 DEF JobStep
<1> QED
  BY <1>3, <1>4, <1>5, <1>11, <1>13, <1>14, <1>15, <1>16, <1>18, <1>19, <1>20
  DEF Next, Making, WorkerStep

LEMMA MakingStep ==
  ASSUME TypeOK, PoolInv, HolderInv, MakingInv, MakersInv, [Next]_vars
  PROVE  MakingInv'
<1> USE DEF sysVars, poolVars
<1>1. ASSUME \A t \in Makers : making'[t].block # NoBlock =>
                /\ making'[t] = making[t]
                /\ block'[making[t].block] = block[making[t].block]
                /\ ~message'[making[t].block].queued,
             \A d \in Deliveries : OnItsBlock(d)' =>
                \/ OnItsBlock(d) /\ delivery'[d].block = delivery[d].block
                \/ message[delivery'[d].block].queued
      PROVE  MakingInv'
  <2>1. ASSUME NEW t \in Makers, making'[t].block # NoBlock, NEW d \in Deliveries, OnItsBlock(d)'
        PROVE  delivery'[d].block # making'[t].block
    <3>1. making'[t] = making[t] /\ making[t].block # NoBlock
      BY <1>1, <2>1
    <3>2. /\ ~message[making[t].block].queued
          /\ OnItsBlock(d) => delivery[d].block # making[t].block
      BY <3>1 DEF MakingInv
    <3> QED
      BY <1>1, <2>1, <3>1, <3>2
  <2>2. ASSUME NEW t \in Makers, making'[t].block # NoBlock, NEW u \in Makers \ {t}
        PROVE  making'[u].block # making'[t].block
    <3>1. making'[t] = making[t] /\ making[t].block # NoBlock
      BY <1>1, <2>2
    <3>2. making[u].block # making[t].block
      BY <3>1 DEF MakingInv
    <3>3. making'[u].block = NoBlock \/ making'[u] = making[u]
      BY <1>1
    <3> QED
      BY <3>1, <3>2, <3>3
  <2>3. ASSUME NEW t \in Makers, making'[t].block # NoBlock
        PROVE  /\ block'[making'[t].block] = [exists |-> TRUE, rows |-> making'[t].rows]
               /\ ~message'[making'[t].block].queued
    BY <1>1, <2>3 DEF MakingInv
  <2> QED
    BY <2>1, <2>2, <2>3 DEF MakingInv
<1>2. \A t \in Makers : making[t].block # NoBlock => making[t].block \in Blocks
  BY DEF TypeOK, MakingRecord
<1>3. ASSUME UNCHANGED making, UNCHANGED block,
             \A b \in Blocks : message'[b].queued => message[b].queued,
             \A d \in Deliveries : OnItsBlock(d)' =>
                \/ OnItsBlock(d) /\ delivery'[d].block = delivery[d].block
                \/ message[delivery'[d].block].queued
      PROVE  MakingInv'
  BY <1>1, <1>2, <1>3 DEF MakingInv
<1>4. ASSUME UNCHANGED <<block, message, delivery>>,
             NEW t \in Makers, making[t].block = NoBlock, making'[t].block = NoBlock,
             \A u \in Makers \ {t} : making'[u] = making[u]
      PROVE  MakingInv'
  BY <1>1, <1>4 DEF MakingInv, OnItsBlock
<1>5. ASSUME NEW q \in Requests, Write(q) PROVE MakingInv'
  <2>1. PICK rows \in arriving : Prepare(q, rows)
    BY <1>5 DEF Write
  <2>2. rows \in SUBSET Rows /\ q \in Makers /\ making[q].block = NoBlock
    BY <1>5, BatchesAssumption, MakersAre, NothingIsRecord DEF TypeOK, Write
  <2>3. /\ \A t \in Makers \ {q} : making'[t] = making[t]
        /\ making'[q].block = making[q].block
    BY <2>1, <2>2, PrepareFacts
  <2> QED
    BY <1>4, <1>5, <2>2, <2>3 DEF Write
<1>6. ASSUME NEW t \in Makers, InsertBlock(t) PROVE MakingInv'
  <2> DEFINE b == making'[t].block
  <2>1. /\ \A u \in Makers \ {t} : making'[u] = making[u]
        /\ making'[t].rows = making[t].rows /\ b \in Blocks /\ Fresh(b)
        /\ block'[b] = [exists |-> TRUE, rows |-> making[t].rows]
        /\ \A x \in Blocks \ {b} : block'[x] = block[x]
    BY <1>6, InsertFacts
  <2>2. UNCHANGED <<message, delivery>>
    BY <1>6 DEF InsertBlock
  <2>3. /\ ~message[b].queued
        /\ \A d \in Deliveries : OnItsBlock(d) => delivery[d].block # b
        /\ \A u \in Makers : making[u].block # b
    BY <2>1 DEF Fresh, OnItsBlock, At
  <2>4. ASSUME NEW u \in Makers \ {t}, making'[u].block # NoBlock
        PROVE  /\ block'[making'[u].block] = [exists |-> TRUE, rows |-> making'[u].rows]
               /\ ~message'[making'[u].block].queued
               /\ \A d \in Deliveries : OnItsBlock(d)' => delivery'[d].block # making'[u].block
               /\ \A v \in Makers \ {u} : making'[v].block # making'[u].block
    <3>1. making'[u] = making[u] /\ making[u].block \in Blocks \ {b}
      BY <1>2, <2>1, <2>3, <2>4
    <3>2. \A v \in Makers \ {u} : making'[v].block # making'[u].block
      <4>1. \A v \in Makers \ {u} : making[v].block # making[u].block
        BY <2>4, <3>1 DEF MakingInv
      <4> QED
        BY <2>1, <3>1, <4>1
    <3> QED
      BY <2>1, <2>2, <2>4, <3>1, <3>2 DEF MakingInv, OnItsBlock
  <2>5. /\ block'[making'[t].block] = [exists |-> TRUE, rows |-> making'[t].rows]
        /\ ~message'[making'[t].block].queued
        /\ \A d \in Deliveries : OnItsBlock(d)' => delivery'[d].block # making'[t].block
        /\ \A v \in Makers \ {t} : making'[v].block # making'[t].block
    BY <2>1, <2>2, <2>3 DEF OnItsBlock
  <2> HIDE DEF b
  <2> QED
    BY <2>4, <2>5 DEF MakingInv
<1>7. ASSUME NEW t \in Makers, Activate(t) PROVE MakingInv'
  <2>1. /\ making'[t] = Nothing /\ \A u \in Makers \ {t} : making'[u] = making[u]
        /\ \A b \in Blocks \ {making[t].block} : message'[b] = message[b]
    BY <1>7, ActivateFacts
  <2>2. UNCHANGED <<delivery, block>> /\ making[t].block # NoBlock
    BY <1>7 DEF Activate
  <2>3. \A u \in Makers \ {t} : making[u].block # making[t].block
    BY <2>2 DEF MakingInv
  <2> QED
    BY <1>1, <1>2, <2>1, <2>2, <2>3, NothingIsRecord DEF MakingInv, OnItsBlock
<1>8. ASSUME NEW t \in Makers, CreateFails(t) PROVE MakingInv'
  <2>1. /\ making'[t] = Nothing /\ \A u \in Makers \ {t} : making'[u] = making[u]
        /\ \A b \in Blocks : b # making[t].block => block'[b] = block[b] /\ message'[b] = message[b]
    BY <1>8, CreateFailsFacts
  <2>2. UNCHANGED delivery
    BY <1>8 DEF CreateFails
  <2>3. \A u \in Makers \ {t} : making[u].block # NoBlock => making[u].block # making[t].block
    BY DEF MakingInv
  <2> QED
    BY <1>1, <1>2, <2>1, <2>2, <2>3, NothingIsRecord DEF MakingInv, OnItsBlock
<1>9. ASSUME NEW j \in Jobs, CreateTransactions(j) PROVE MakingInv'
  <2>1. /\ \A t \in Makers \ {j} : making'[t] = making[t]
        /\ making'[j].block = making[j].block
    BY <1>9, JobFacts
  <2>2. j \in Makers /\ making[j].block = NoBlock /\ UNCHANGED <<block, message, delivery>>
    BY <1>9, MakersAre, NothingIsRecord DEF CreateTransactions
  <2> QED
    BY <1>4, <2>1, <2>2
<1>10. ASSUME NEW d \in Deliveries,
              Ping(d) \/ LoadData(d) \/ (\E r \in Rows : Merge(d, r) \/ Locked(d, r))
       PROVE  MakingInv'
  <2>1. UNCHANGED <<making, block>>
    BY <1>10 DEF Ping, LoadData, Merge, Locked
  <2>2. \A b \in Blocks : message'[b].queued => message[b].queued
    <3>1. CASE Ping(d)
      BY <3>1, PingedFacts DEF Ping, At
    <3>2. CASE LoadData(d) \/ (\E r \in Rows : Merge(d, r) \/ Locked(d, r))
      BY <3>2 DEF LoadData, Merge, Locked
    <3> QED
      BY <1>10, <3>1, <3>2
  <2>3. \A e \in Deliveries : delivery'[e].block = delivery[e].block
                              /\ (OnItsBlock(e)' => OnItsBlock(e))
    <3>1. OnItsBlock(d)
      BY <1>10 DEF Ping, LoadData, Merge, Locked, At, OnItsBlock
    <3> QED
      BY <1>10, <3>1, StepFacts DEF GoesOn, OnItsBlock
  <2> QED
    BY <1>3, <2>1, <2>2, <2>3
<1>11. ASSUME NEW d \in Deliveries, OnItsBlock(d),
              \A b \in Blocks \ {delivery[d].block} : block'[b] = block[b]
       PROVE  \A t \in Makers : making[t].block # NoBlock =>
                 block'[making[t].block] = block[making[t].block]
  BY <1>2, <1>11 DEF MakingInv
<1>12. ASSUME NEW d \in Deliveries, Complete(d) PROVE MakingInv'
  <2>1. ~At(d, "free") /\ OnItsBlock(d) /\ UNCHANGED <<making, message>>
    BY <1>12 DEF Complete, At, OnItsBlock
  <2>2. \A e \in Deliveries : delivery'[e].block = delivery[e].block
                              /\ (OnItsBlock(e)' => OnItsBlock(e))
    BY <1>12, <2>1, StepFacts DEF GoesOn, OnItsBlock
  <2>3. \A b \in Blocks \ {delivery[d].block} : block'[b] = block[b]
    BY <1>12, <2>1, DeleteBlobFacts DEF Complete
  <2> QED
    BY <1>1, <1>11, <2>1, <2>2, <2>3 DEF MakingInv
<1>13. ASSUME NEW d \in Deliveries, Settle(d), Again(d) PROVE MakingInv'
  <2>1. ~At(d, "free") /\ OnItsBlock(d) /\ UNCHANGED making /\ block' = CompletedBlock(d)
        /\ message' = CompletedMessage(d)
    BY <1>13 DEF Settle, At, OnItsBlock
  <2>2. \A e \in Deliveries : delivery'[e].block = delivery[e].block
                              /\ (OnItsBlock(e)' => OnItsBlock(e))
    BY <1>13, <2>1, StepFacts DEF GoesOn, OnItsBlock
  <2>3. \A b \in Blocks \ {delivery[d].block} : block'[b] = block[b] /\ message'[b] = message[b]
    BY <2>1, CompletedFacts
  <2>4. \A t \in Makers : making[t].block # NoBlock => making[t].block \in Blocks \ {delivery[d].block}
    BY <1>2, <2>1 DEF MakingInv
  <2> QED
    BY <1>1, <2>1, <2>2, <2>3, <2>4 DEF MakingInv
<1>14. ASSUME NEW d \in Deliveries, PrepareLocked(d) PROVE MakingInv'
  <2>1. GoesOn(d, "prepare", delivery[d].rows, {}, delivery[d].merged)
    BY <1>14, StepFacts
  <2>2. d \in Makers /\ delivery[d].locked \in SUBSET Rows /\ Prepare(d, delivery[d].locked)
    BY <1>14, MakersAre, Live DEF PrepareLocked, At
  <2>3. /\ making'[d].block = making[d].block
        /\ \A t \in Makers \ {d} : making'[t] = making[t]
    BY <2>2, PrepareFacts
  <2>4. making[d].block = NoBlock /\ UNCHANGED <<block, message>>
    BY <1>14, NothingIsRecord DEF PrepareLocked, MakersInv
  <2>5. \A e \in Deliveries : OnItsBlock(e)' => OnItsBlock(e) /\ delivery'[e].block = delivery[e].block
    BY <2>1 DEF GoesOn, OnItsBlock
  <2> QED
    BY <1>1, <2>3, <2>4, <2>5 DEF MakingInv
<1>15. ASSUME NEW d \in Deliveries, Over(d), UNCHANGED making,
              \A t \in Makers : making[t].block # NoBlock =>
                 block'[making[t].block] = block[making[t].block]
       PROVE  MakingInv'
  <2>1. \A b \in Blocks : message'[b].queued => message[b].queued
    BY <1>15 DEF Over
  <2>2. \A e \in Deliveries : OnItsBlock(e)' => OnItsBlock(e) /\ delivery'[e].block = delivery[e].block
    BY <1>15 DEF Over, OnItsBlock, TypeOK, Free
  <2> QED
    BY <1>1, <1>2, <1>15, <2>1, <2>2 DEF MakingInv
<1>16. ASSUME NEW d \in Deliveries, Settle(d), ~Again(d) PROVE MakingInv'
  <2>1. ~At(d, "free") /\ OnItsBlock(d) /\ UNCHANGED making /\ block' = CompletedBlock(d)
    BY <1>16 DEF Settle, At, OnItsBlock
  <2>2. Over(d)
    BY <1>16, Overs
  <2>3. \A b \in Blocks \ {delivery[d].block} : block'[b] = block[b]
    BY <2>1, CompletedFacts
  <2> QED
    BY <1>11, <1>15, <2>1, <2>2, <2>3
<1>17. ASSUME NEW d \in Deliveries,
              PingLate(d) \/ Postpone(d) \/ Prepared(d) \/ TooLate(d) \/ Throws(d)
       PROVE  MakingInv'
  <2>1. Over(d) /\ UNCHANGED making
    BY <1>17, Overs DEF PingLate, Postpone, Prepared, TooLate, Throws
  <2>2. \/ block' = block
        \/ OnItsBlock(d) /\ block' = [block EXCEPT ![delivery[d].block] = NoRows]
    BY <1>17 DEF PingLate, Postpone, Prepared, TooLate, Throws, OnItsBlock, At
  <2>3. CASE block' = block
    BY <1>15, <2>1, <2>3
  <2>4. CASE OnItsBlock(d) /\ block' = [block EXCEPT ![delivery[d].block] = NoRows]
    <3>1. \A b \in Blocks \ {delivery[d].block} : block'[b] = block[b]
      BY <2>4 DEF TypeOK
    <3> QED
      BY <1>11, <1>15, <2>1, <2>4, <3>1
  <2> QED
    BY <2>2, <2>3, <2>4
<1>18. ASSUME NEW s \in Servers, Take(s) PROVE MakingInv'
  <2>1. /\ Next1(s) \in Deliveries /\ delivery[Next1(s)] \in Delivery
        /\ OnItsBlock(Next1(s))
    BY <1>18, QueueOf, Live DEF Take, At, OnItsBlock
  <2>2. delivery' = [delivery EXCEPT ![Next1(s)] = [delivery[Next1(s)] EXCEPT !.step = "ping"]]
    BY <1>18 DEF Take
  <2>3. /\ delivery'[Next1(s)].block = delivery[Next1(s)].block
        /\ \A e \in Deliveries \ {Next1(s)} : delivery'[e] = delivery[e]
    BY <2>1, <2>2 DEF TypeOK, Delivery
  <2>4. UNCHANGED <<message, block, making>>
    BY <1>18 DEF Take
  <2> QED
    BY <1>3, <2>1, <2>3, <2>4 DEF OnItsBlock
<1>19. ASSUME NEW s \in Servers, NEW x \in Blocks, Dequeue(s, x) PROVE MakingInv'
  <2>1. PICK d \in Deliveries :
               /\ delivery'[d] = [step |-> "queued", block |-> x, server |-> s,
                                  rows |-> {}, locked |-> {}, merged |-> FALSE]
               /\ \A e \in Deliveries \ {d} : delivery'[e] = delivery[e]
    BY <1>19, DequeueFacts
  <2>2. \A b \in Blocks \ {x} : message'[b] = message[b]
    BY <1>19, DequeueFacts
  <2>3. UNCHANGED <<block, making>> /\ message[x].queued
    BY <1>19 DEF Dequeue
  <2> QED
    BY <1>3, <2>1, <2>2, <2>3 DEF OnItsBlock
<1>20. ASSUME NEW s \in Servers, Crash(s) PROVE MakingInv'
  <2>1. \A t \in Makers : making'[t] = IF t \in DeadDeliveries(s) \cup DeadJobs(s)
                                       THEN Nothing ELSE making[t]
    BY <1>20, CrashFacts
  <2>2. \A d \in Deliveries : OnItsBlock(d)' => OnItsBlock(d) /\ delivery'[d].block = delivery[d].block
    BY <1>20, CrashFacts DEF OnItsBlock, Free
  <2>3. ASSUME NEW t \in Makers, making'[t].block # NoBlock
        PROVE  /\ making'[t] = making[t]
               /\ block'[making[t].block] = block[making[t].block]
               /\ ~message'[making[t].block].queued
    <3>1. t \notin DeadDeliveries(s) \cup DeadJobs(s) /\ making'[t] = making[t]
      BY <2>1, <2>3, NothingIsRecord
    <3>2. making[t].block \in Blocks
      BY <1>2, <2>3, <3>1
    <3>3. DeadDeliveries(s) \cup DeadJobs(s) \subseteq Makers
      BY <1>20, CrashFacts, MakersAre
    <3>4. \A u \in DeadDeliveries(s) \cup DeadJobs(s) : making[u].block # making[t].block
      BY <2>3, <3>1, <3>3 DEF MakingInv
    <3>5. block'[making[t].block] = block[making[t].block]
      BY <1>20, <3>2, <3>4, CrashFacts
    <3>6. message'[making[t].block].queued = message[making[t].block].queued
      BY <1>20, <3>2, CrashFacts
    <3> QED
      BY <2>3, <3>1, <3>5, <3>6 DEF MakingInv
  <2> QED
    BY <1>1, <2>2, <2>3
<1>21. ASSUME NEW b \in Blocks, Drop(b) \/ Lapse(b) \/ Expire(b) PROVE MakingInv'
  <2>1. UNCHANGED <<making, block, delivery>>
    BY <1>21 DEF Drop, Lapse, Expire
  <2>2. \A x \in Blocks : message'[x].queued => message[x].queued
    BY <1>21, VisibleFacts DEF Drop, Lapse, Expire, NoMessage, TypeOK
  <2> QED
    BY <1>3, <2>1, <2>2 DEF OnItsBlock
<1>22. ASSUME NEW d \in Deliveries, Unattended(d) PROVE MakingInv'
  <2>1. delivery[d].block \in Blocks /\ UNCHANGED <<making, block, delivery>>
    BY <1>22, Live DEF Unattended, At
  <2>2. \A b \in Blocks : message'[b].queued = message[b].queued
    BY <1>22, <2>1, VisibleFacts DEF Unattended
  <2> QED
    BY <1>3, <2>1, <2>2 DEF OnItsBlock
<1>23. ASSUME UNCHANGED <<making, block, message, delivery>> PROVE MakingInv'
  BY <1>3, <1>23 DEF OnItsBlock
<1>24. ASSUME \/ \E j \in Jobs : QueryData(j) \/ ClearData(j) \/ JobFails(j)
                                    \/ (\E s \in Servers : DequeueBuffer(j, s))
              \/ \E s \in Servers : EnsureWorker(s) \/ LoopEnds(s) \/ OnWorkerCompleted(s)
              \/ BufferTimeout \/ Overrun \/ UNCHANGED vars
       PROVE  MakingInv'
  <2>1. CASE \E s \in Servers : EnsureWorker(s) \/ LoopEnds(s) \/ OnWorkerCompleted(s)
    BY <1>23, <2>1 DEF EnsureWorker, LoopEnds, OnWorkerCompleted
  <2>2. CASE \E j \in Jobs : QueryData(j) \/ ClearData(j) \/ JobFails(j)
                                \/ (\E s \in Servers : DequeueBuffer(j, s))
    BY <1>23, <2>2 DEF QueryData, ClearData, JobFails, DequeueBuffer
  <2>3. CASE BufferTimeout \/ Overrun \/ UNCHANGED vars
    BY <1>23, <2>3 DEF BufferTimeout, Overrun, BufferLapses, vars
  <2> QED
    BY <1>24, <2>1, <2>2, <2>3
<1>25. ASSUME NEW d \in Deliveries, DeliveryStep(d) PROVE MakingInv'
  BY <1>10, <1>12, <1>13, <1>14, <1>16, <1>17, <1>25 DEF DeliveryStep
<1>26. ASSUME NEW d \in Deliveries, WaitsTooLong(d) \/ Stall(d) PROVE MakingInv'
  BY <1>17, <1>22, <1>26 DEF WaitsTooLong, Stall
<1> QED
  BY <1>5, <1>6, <1>7, <1>8, <1>9, <1>17, <1>18, <1>19, <1>20, <1>21, <1>24, <1>25, <1>26
  DEF Next, Making, JobStep, WorkerStep

-------------------------------------------------------------------------------
(* A block is deleted when its rows are stored, or locked and in hand.       *)
LEMMA BlockStep ==
  ASSUME TypeOK, PoolInv, HolderInv, BlockInv, [Next]_vars
  PROVE  BlockInv'
<1> USE DEF sysVars, poolVars
<1>1. ASSUME \A b \in Blocks : ~block'[b].exists => block'[b].rows = {},
             \A d \in Deliveries : At(d, "settle")' \/ At(d, "merge")' =>
                /\ delivery'[d] = delivery[d]
                /\ block'[delivery[d].block].rows \subseteq block[delivery[d].block].rows,
             stored' = stored
      PROVE  BlockInv'
  <2>1. ASSUME NEW d \in Deliveries, At(d, "settle")' PROVE block'[delivery'[d].block].rows = {}
    BY <1>1, <2>1 DEF BlockInv, At
  <2>2. ASSUME NEW d \in Deliveries, At(d, "merge")', NEW r \in block'[delivery'[d].block].rows
        PROVE  r \in delivery'[d].rows \cup delivery'[d].locked \/ stored'[r] > 0
    BY <1>1, <2>2 DEF BlockInv, At
  <2> QED
    BY <1>1, <2>1, <2>2 DEF BlockInv
<1>2. ASSUME UNCHANGED <<block, stored>>,
             \A d \in Deliveries : At(d, "settle")' \/ At(d, "merge")' => delivery'[d] = delivery[d]
      PROVE  BlockInv'
  BY <1>1, <1>2 DEF BlockInv
<1>3. ASSUME NEW d \in Deliveries, \A e \in Deliveries \ {d} : delivery'[e] = delivery[e],
             block' = block, \A r \in Rows : stored[r] > 0 => stored'[r] > 0,
             At(d, "merge")',
             \A r \in block[delivery'[d].block].rows :
                r \in delivery'[d].rows \cup delivery'[d].locked \/ stored'[r] > 0
      PROVE  BlockInv'
  <2>1. ASSUME NEW e \in Deliveries, At(e, "settle")' PROVE block'[delivery'[e].block].rows = {}
    BY <1>3, <2>1 DEF BlockInv, At
  <2>2. ASSUME NEW e \in Deliveries \ {d}, At(e, "merge")', NEW r \in block'[delivery'[e].block].rows
        PROVE  r \in delivery'[e].rows \cup delivery'[e].locked \/ stored'[r] > 0
    <3>1. delivery'[e] = delivery[e] /\ At(e, "merge")
      BY <1>3, <2>2 DEF At
    <3>2. delivery[e].block \in Blocks
      BY <3>1, Live DEF At
    <3>3. r \in Rows /\ r \in block[delivery[e].block].rows
      BY <1>3, <2>2, <3>1, <3>2 DEF TypeOK, Block
    <3> QED
      BY <1>3, <3>1, <3>3 DEF BlockInv
  <2> QED
    BY <1>3, <2>1, <2>2 DEF BlockInv
<1>4. ASSUME NEW t \in Makers, InsertBlock(t) PROVE BlockInv'
  <2> DEFINE b == making'[t].block
  <2>1. /\ b \in Blocks /\ Fresh(b)
        /\ block'[b] = [exists |-> TRUE, rows |-> making[t].rows]
        /\ \A x \in Blocks \ {b} : block'[x] = block[x]
    BY <1>4, InsertFacts
  <2>2. UNCHANGED <<delivery, stored>>
    BY <1>4 DEF InsertBlock
  <2>3. \A d \in Deliveries : At(d, "settle") \/ At(d, "merge") => delivery[d].block \in Blocks \ {b}
    BY <2>1, Live DEF Fresh, At
  <2> HIDE DEF b
  <2>4. \A x \in Blocks : ~block'[x].exists => block'[x].rows = {}
    BY <2>1 DEF BlockInv
  <2> QED
    BY <1>1, <2>1, <2>2, <2>3, <2>4 DEF At
<1>5. ASSUME NEW t \in Makers, CreateFails(t) PROVE BlockInv'
  <2>1. \A b \in Blocks : block'[b] = block[b] \/ block'[b] = NoRows
    BY <1>5, CreateFailsFacts
  <2>2. UNCHANGED <<delivery, stored>>
    BY <1>5 DEF CreateFails
  <2>3. \A d \in Deliveries : At(d, "settle") \/ At(d, "merge") => delivery[d].block \in Blocks
    BY Live DEF At
  <2> QED
    BY <1>1, <2>1, <2>2, <2>3 DEF At, NoRows, BlockInv
<1>6. ASSUME NEW d \in Deliveries, Ping(d) \/ PrepareLocked(d) PROVE BlockInv'
  <2>1. /\ ~At(d, "merge")' /\ ~At(d, "settle")'
        /\ \A e \in Deliveries \ {d} : delivery'[e] = delivery[e]
    BY <1>6, StepFacts DEF GoesOn, At
  <2>2. UNCHANGED <<block, stored>>
    BY <1>6 DEF Ping, PrepareLocked
  <2> QED
    BY <1>2, <2>1, <2>2
<1>7. ASSUME NEW d \in Deliveries, LoadData(d) PROVE BlockInv'
  <2>1. GoesOn(d, "merge", block[delivery[d].block].rows, delivery[d].locked, delivery[d].merged)
    BY <1>7, StepFacts
  <2>2. UNCHANGED <<block, stored>>
    BY <1>7 DEF LoadData
  <2> QED
    BY <1>3, <2>1, <2>2 DEF GoesOn, At
<1>8. ASSUME NEW d \in Deliveries, NEW r \in Rows, Merge(d, r) PROVE BlockInv'
  <2>1. GoesOn(d, "merge", delivery[d].rows \ {r}, delivery[d].locked, TRUE)
    BY <1>8, StepFacts
  <2>2. block' = block /\ At(d, "merge") /\ stored' = [stored EXCEPT ![r] = More(@)]
    BY <1>8 DEF Merge
  <2>3. stored'[r] > 0 /\ \A x \in Rows : stored[x] > 0 => stored'[x] > 0
    BY <2>2 DEF More, TypeOK
  <2>4. ASSUME NEW x \in block[delivery'[d].block].rows
        PROVE  x \in delivery'[d].rows \cup delivery'[d].locked \/ stored'[x] > 0
    <3>1. delivery[d].block \in Blocks
      BY <2>2, Live DEF At
    <3>2. x \in Rows /\ x \in block[delivery[d].block].rows
      BY <2>1, <2>4, <3>1 DEF GoesOn, TypeOK, Block
    <3>3. x \in delivery[d].rows \cup delivery[d].locked \/ stored[x] > 0
      BY <2>2, <3>2 DEF BlockInv
    <3> QED
      BY <2>1, <2>3, <3>2, <3>3 DEF GoesOn
  <2> QED
    BY <1>3, <2>1, <2>2, <2>3, <2>4 DEF GoesOn, At
<1>9. ASSUME NEW d \in Deliveries, NEW r \in Rows, Locked(d, r) PROVE BlockInv'
  <2>1. GoesOn(d, "merge", delivery[d].rows \ {r}, delivery[d].locked \cup {r}, delivery[d].merged)
    BY <1>9, StepFacts
  <2>2. UNCHANGED <<block, stored>> /\ At(d, "merge")
    BY <1>9 DEF Locked
  <2>3. ASSUME NEW x \in block[delivery'[d].block].rows
        PROVE  x \in delivery'[d].rows \cup delivery'[d].locked \/ stored'[x] > 0
    <3>1. x \in delivery[d].rows \cup delivery[d].locked \/ stored[x] > 0
      BY <2>1, <2>2, <2>3 DEF BlockInv, GoesOn
    <3> QED
      BY <2>1, <2>2, <3>1 DEF GoesOn
  <2> QED
    BY <1>3, <2>1, <2>2, <2>3 DEF GoesOn, At
<1>10. ASSUME NEW d \in Deliveries, Complete(d) PROVE BlockInv'
  <2>1. GoesOn(d, "settle", delivery[d].rows, delivery[d].locked, delivery[d].merged)
    BY <1>10, StepFacts
  <2>2. ~At(d, "free") /\ block' = DeleteBlob(d) /\ stored' = stored
    BY <1>10 DEF Complete, At
  <2>3. delivery[d].block \in Blocks
    BY <2>2, Live
  <2>4. /\ block'[delivery[d].block].rows = {}
        /\ \A b \in Blocks \ {delivery[d].block} : block'[b] = block[b]
    BY <2>2, <2>3, DeleteBlobFacts DEF BlockInv
  <2>5. \A b \in Blocks : ~block'[b].exists => block'[b].rows = {}
    BY <2>4 DEF BlockInv
  <2>6. \A e \in Deliveries \ {d} : At(e, "settle") \/ At(e, "merge") => delivery[e].block \in Blocks
    BY Live DEF At
  <2>7. \A e \in Deliveries : At(e, "settle")' => block'[delivery'[e].block].rows = {}
    BY <2>1, <2>4, <2>6 DEF GoesOn, At, BlockInv
  <2>8. ASSUME NEW e \in Deliveries, At(e, "merge")', NEW r \in block'[delivery'[e].block].rows
        PROVE  r \in delivery'[e].rows \cup delivery'[e].locked \/ stored'[r] > 0
    <3>1. e # d /\ delivery'[e] = delivery[e] /\ At(e, "merge")
      BY <2>1, <2>8 DEF GoesOn, At
    <3>2. r \in block[delivery[e].block].rows
      BY <2>4, <2>6, <2>8, <3>1
    <3> QED
      BY <2>2, <3>1, <3>2 DEF BlockInv
  <2> QED
    BY <2>5, <2>7, <2>8 DEF BlockInv
<1>11. ASSUME NEW d \in Deliveries, Settle(d) PROVE BlockInv'
  <2>1. ~At(d, "free") /\ At(d, "settle") /\ block' = CompletedBlock(d) /\ stored' = stored
    BY <1>11 DEF Settle, At
  <2>2. \A b \in Blocks : /\ block'[b].rows = block[b].rows
                          /\ b # delivery[d].block => block'[b] = block[b]
    BY <2>1, CompletedFacts
  <2>3. \A b \in Blocks : ~block'[b].exists => block'[b].rows = {}
    BY <2>1, <2>2 DEF BlockInv
  <2>4. /\ ~At(d, "merge")' /\ ~At(d, "settle")'
        /\ \A e \in Deliveries \ {d} : delivery'[e] = delivery[e]
    <3>1. CASE Again(d)
      BY <1>11, <3>1, StepFacts DEF GoesOn, At
    <3>2. CASE ~Again(d)
      BY <1>11, <3>2, Overs DEF Over, At, Free, TypeOK
    <3> QED
      BY <3>1, <3>2
  <2>5. \A e \in Deliveries : At(e, "settle") \/ At(e, "merge") => delivery[e].block \in Blocks
    BY Live DEF At
  <2> QED
    BY <1>1, <2>1, <2>2, <2>3, <2>4, <2>5 DEF At
<1>12. ASSUME NEW d \in Deliveries,
              PingLate(d) \/ Postpone(d) \/ Prepared(d) \/ TooLate(d) \/ Throws(d)
       PROVE  BlockInv'
  <2>1. /\ ~At(d, "merge")' /\ ~At(d, "settle")'
        /\ \A e \in Deliveries \ {d} : delivery'[e] = delivery[e]
    BY <1>12, Overs DEF Over, At, Free, TypeOK
  <2>2. stored' = stored /\ (block' = block \/ block' = [block EXCEPT ![delivery[d].block] = NoRows])
    BY <1>12 DEF PingLate, Postpone, Prepared, TooLate, Throws
  <2>3. \A b \in Blocks : block'[b] = block[b] \/ block'[b] = NoRows
    BY <2>2 DEF TypeOK
  <2>4. \A e \in Deliveries : At(e, "settle") \/ At(e, "merge") => delivery[e].block \in Blocks
    BY Live DEF At
  <2>5. \A b \in Blocks : /\ ~block'[b].exists => block'[b].rows = {}
                          /\ block'[b].rows \subseteq block[b].rows
    BY <2>3 DEF NoRows, BlockInv
  <2> QED
    BY <1>1, <2>1, <2>2, <2>4, <2>5 DEF At
<1>13. ASSUME NEW s \in Servers, Take(s) PROVE BlockInv'
  <2>1. Next1(s) \in Deliveries /\ delivery[Next1(s)] \in Delivery
    BY <1>13, QueueOf, Live DEF Take, At
  <2>2. delivery' = [delivery EXCEPT ![Next1(s)] = [delivery[Next1(s)] EXCEPT !.step = "ping"]]
    BY <1>13 DEF Take
  <2>3. /\ delivery'[Next1(s)].step = "ping"
        /\ \A e \in Deliveries \ {Next1(s)} : delivery'[e] = delivery[e]
    BY <2>1, <2>2 DEF TypeOK, Delivery
  <2>4. UNCHANGED <<stored, block>>
    BY <1>13 DEF Take
  <2> QED
    BY <1>2, <2>3, <2>4 DEF At
<1>14. ASSUME NEW s \in Servers, NEW x \in Blocks, Dequeue(s, x) PROVE BlockInv'
  <2>1. PICK d \in Deliveries :
               /\ delivery'[d] = [step |-> "queued", block |-> x, server |-> s,
                                  rows |-> {}, locked |-> {}, merged |-> FALSE]
               /\ \A e \in Deliveries \ {d} : delivery'[e] = delivery[e]
    BY <1>14, DequeueFacts
  <2>2. UNCHANGED <<stored, block>>
    BY <1>14 DEF Dequeue
  <2> QED
    BY <1>2, <2>1, <2>2 DEF At
<1>15. ASSUME NEW s \in Servers, Crash(s) PROVE BlockInv'
  <2>1. \A d \in Deliveries : delivery'[d] = Free \/ delivery'[d] = delivery[d]
    BY <1>15, CrashFacts
  <2>2. \A b \in Blocks : block'[b] = block[b] \/ block'[b] = NoRows
    BY <1>15, CrashFacts
  <2>3. stored' = stored
    BY <1>15 DEF Crash
  <2>4. \A e \in Deliveries : At(e, "settle") \/ At(e, "merge") => delivery[e].block \in Blocks
    BY Live DEF At
  <2>5. \A b \in Blocks : /\ ~block'[b].exists => block'[b].rows = {}
                          /\ block'[b].rows \subseteq block[b].rows
    BY <2>2 DEF NoRows, BlockInv
  <2>6. \A d \in Deliveries : At(d, "settle")' \/ At(d, "merge")' => delivery'[d] = delivery[d]
    BY <2>1 DEF Free, At
  <2> QED
    BY <1>1, <2>3, <2>4, <2>5, <2>6 DEF At
<1>16. ASSUME UNCHANGED <<delivery, block, stored>> PROVE BlockInv'
  BY <1>2, <1>16
<1>17. ASSUME \/ \E q \in Requests : Write(q)
              \/ \E t \in Makers : Activate(t)
              \/ \E j \in Jobs : JobStep(j) \/ JobFails(j) \/ (\E s \in Servers : DequeueBuffer(j, s))
              \/ \E s \in Servers : EnsureWorker(s) \/ LoopEnds(s) \/ OnWorkerCompleted(s)
              \/ \E b \in Blocks : Drop(b) \/ Lapse(b) \/ Expire(b)
              \/ BufferTimeout \/ Overrun \/ UNCHANGED vars
       PROVE  BlockInv'
  <2>1. CASE \/ \E q \in Requests : Write(q)
             \/ \E t \in Makers : Activate(t)
             \/ \E s \in Servers : EnsureWorker(s) \/ LoopEnds(s) \/ OnWorkerCompleted(s)
    BY <1>16, <2>1 DEF Write, Activate, EnsureWorker, LoopEnds, OnWorkerCompleted
  <2>2. CASE \E j \in Jobs : JobStep(j) \/ JobFails(j) \/ (\E s \in Servers : DequeueBuffer(j, s))
    BY <1>16, <2>2 DEF JobStep, QueryData, CreateTransactions, ClearData, JobFails, DequeueBuffer
  <2>3. CASE \/ \E b \in Blocks : Drop(b) \/ Lapse(b) \/ Expire(b)
             \/ BufferTimeout \/ Overrun \/ UNCHANGED vars
    BY <1>16, <2>3 DEF Drop, Lapse, Expire, BufferTimeout, Overrun, BufferLapses, vars
  <2> QED
    BY <1>17, <2>1, <2>2, <2>3
<1>18. ASSUME NEW d \in Deliveries, DeliveryStep(d) PROVE BlockInv'
  BY <1>6, <1>7, <1>8, <1>9, <1>10, <1>11, <1>12, <1>18 DEF DeliveryStep
<1>19. ASSUME NEW d \in Deliveries, Unattended(d) PROVE BlockInv'
  BY <1>16, <1>19 DEF Unattended
<1>20. ASSUME NEW d \in Deliveries, WaitsTooLong(d) \/ Stall(d) PROVE BlockInv'
  BY <1>12, <1>19, <1>20 DEF WaitsTooLong, Stall
<1> QED
  BY <1>4, <1>5, <1>12, <1>13, <1>14, <1>15, <1>17, <1>18, <1>20 DEF Next, Making, WorkerStep

(* No chunk is newer than the last.                                          *)
LEMMA BufferStep ==
  ASSUME TypeOK, BufferInv, [Next]_vars
  PROVE  BufferInv'
<1> USE DEF sysVars, poolVars
<1>1. identity \in Nat /\ \A j \in Jobs : job[j] # Idle => job[j].last \in Nat
  BY Busy DEF TypeOK
<1>2. \A c \in buffer : c.id \in Nat
  BY DEF TypeOK, Chunk
<1>3. ASSUME NEW t \in Makers, NEW rows \in SUBSET Rows, Prepare(t, rows), UNCHANGED job
      PROVE  BufferInv'
  <2>1. \/ buffer' = buffer /\ identity' = identity
        \/ /\ identity' = identity + 1
           /\ buffer' = buffer \cup {[id |-> identity + 1, rows |-> rows]}
    BY <1>3, PrepareFacts
  <2> QED
    BY <1>1, <1>2, <1>3, <2>1 DEF BufferInv
<1>4. ASSUME UNCHANGED <<buffer, identity>>,
             \A j \in Jobs : job'[j] # Idle /\ job'[j] # job[j] => job'[j].last <= identity
      PROVE  BufferInv'
  BY <1>4 DEF BufferInv
<1>5. ASSUME NEW q \in Requests, Write(q) PROVE BufferInv'
  <2>1. PICK rows \in arriving : Prepare(q, rows)
    BY <1>5 DEF Write
  <2>2. rows \in SUBSET Rows /\ q \in Makers
    BY BatchesAssumption, MakersAre DEF TypeOK
  <2> QED
    BY <1>3, <1>5, <2>1, <2>2 DEF Write
<1>6. ASSUME NEW d \in Deliveries, PrepareLocked(d) PROVE BufferInv'
  <2>1. d \in Makers /\ delivery[d].locked \in SUBSET Rows /\ Prepare(d, delivery[d].locked)
    BY <1>6, MakersAre, Live DEF PrepareLocked, At
  <2> QED
    BY <1>3, <1>6, <2>1 DEF PrepareLocked
<1>7. ASSUME NEW j \in Jobs, QueryData(j) PROVE BufferInv'
  <2>1. job'[j].last = identity /\ \A k \in Jobs \ {j} : job'[k] = job[k]
    BY <1>7, JobFacts
  <2> QED
    BY <1>1, <1>4, <1>7, <2>1 DEF QueryData
<1>8. ASSUME NEW j \in Jobs, CreateTransactions(j) PROVE BufferInv'
  <2>1. /\ job[j] # Idle /\ job'[j].last = job[j].last
        /\ \A k \in Jobs \ {j} : job'[k] = job[k]
    BY <1>8, JobFacts
  <2> QED
    BY <1>4, <1>8, <2>1 DEF CreateTransactions, BufferInv
<1>9. ASSUME NEW j \in Jobs, ClearData(j) PROVE BufferInv'
  <2>1. /\ buffer' = Kept(j) /\ Kept(j) \subseteq buffer
        /\ job' = [job EXCEPT ![j] = Idle]
        /\ identity' = IF Kept(j) = {} /\ (\A k \in Jobs \ {j} : job[k] = Idle) THEN 0 ELSE identity
    BY <1>9 DEF ClearData, Kept
  <2>2. job'[j] = Idle /\ \A k \in Jobs \ {j} : job'[k] = job[k]
    BY <2>1 DEF TypeOK
  <2> QED
    BY <1>1, <1>2, <2>1, <2>2 DEF BufferInv
<1>10. ASSUME NEW j \in Jobs, JobFails(j) PROVE BufferInv'
  BY <1>4, <1>10 DEF JobFails, TypeOK
<1>11. ASSUME NEW j \in Jobs, NEW s \in Servers, DequeueBuffer(j, s) PROVE BufferInv'
  <2>1. job'[j].last = 0 /\ \A k \in Jobs \ {j} : job'[k] = job[k]
    BY <1>11 DEF DequeueBuffer, TypeOK
  <2> QED
    BY <1>1, <1>4, <1>11, <2>1 DEF DequeueBuffer
<1>12. ASSUME NEW s \in Servers, Crash(s) PROVE BufferInv'
  <2>1. \A j \in Jobs : job'[j] = Idle \/ job'[j] = job[j]
    BY <1>12, CrashFacts
  <2> QED
    BY <1>4, <1>12, <2>1 DEF Crash
<1>13. ASSUME UNCHANGED <<buffer, identity, job>> PROVE BufferInv'
  BY <1>4, <1>13
<1>14. ASSUME NEW d \in Deliveries,
              \/ DeliveryStep(d) /\ ~PrepareLocked(d)
              \/ WaitsTooLong(d) \/ Stall(d) \/ Throws(d)
       PROVE  BufferInv'
  <2>1. CASE Ping(d) \/ PingLate(d) \/ LoadData(d) \/ (\E r \in Rows : Merge(d, r) \/ Locked(d, r))
    BY <1>13, <2>1 DEF Ping, PingLate, LoadData, Merge, Locked
  <2>2. CASE Postpone(d) \/ Complete(d) \/ Settle(d) \/ Prepared(d)
    BY <1>13, <2>2 DEF Postpone, Complete, Settle, Prepared
  <2>3. CASE WaitsTooLong(d) \/ Stall(d) \/ Throws(d)
    BY <1>13, <2>3 DEF WaitsTooLong, Stall, TooLate, Unattended, Throws
  <2> QED
    BY <1>14, <2>1, <2>2, <2>3 DEF DeliveryStep
<1>15. ASSUME \/ \E t \in Makers : Making(t) \/ CreateFails(t)
              \/ \E s \in Servers : EnsureWorker(s) \/ WorkerStep(s)
                                       \/ (\E b \in Blocks : Dequeue(s, b))
              \/ \E b \in Blocks : Drop(b) \/ Lapse(b) \/ Expire(b)
              \/ BufferTimeout \/ Overrun \/ UNCHANGED vars
       PROVE  BufferInv'
  <2>1. CASE \E t \in Makers : Making(t) \/ CreateFails(t)
    BY <1>13, <2>1 DEF Making, InsertBlock, Activate, CreateFails
  <2>2. CASE \E s \in Servers : EnsureWorker(s) \/ WorkerStep(s) \/ (\E b \in Blocks : Dequeue(s, b))
    BY <1>13, <2>2 DEF EnsureWorker, WorkerStep, Take, LoopEnds, OnWorkerCompleted, Dequeue
  <2>3. CASE \/ \E b \in Blocks : Drop(b) \/ Lapse(b) \/ Expire(b)
             \/ BufferTimeout \/ Overrun \/ UNCHANGED vars
    BY <1>13, <2>3 DEF Drop, Lapse, Expire, BufferTimeout, Overrun, BufferLapses, vars
  <2> QED
    BY <1>15, <2>1, <2>2, <2>3
<1>16. ASSUME NEW j \in Jobs, JobStep(j) PROVE BufferInv'
  BY <1>7, <1>8, <1>9, <1>16 DEF JobStep
<1> QED
  BY <1>5, <1>6, <1>10, <1>11, <1>12, <1>14, <1>15, <1>16 DEF Next

-------------------------------------------------------------------------------
(* Messages that are given up stay queued.                                   *)
LEMMA QueuedFacts ==
  ASSUME TypeOK, NEW d \in Deliveries,
         \/ PingLate(d) \/ Postpone(d) \/ Prepared(d) \/ TooLate(d)
         \/ (Throws(d) /\ ~(At(d, "merge") /\ delivery[d].rows = {}))
         \/ (Throws(d) /\ ~Holds(d))
  PROVE  \A b \in Blocks : message'[b].queued = message[b].queued
<1>1. ~At(d, "free")
  BY DEF PingLate, Postpone, Prepared, TooLate, Throws, At
<1>2. delivery[d].block \in Blocks /\ message \in [Blocks -> Message]
  BY <1>1, Live DEF TypeOK
<1>3. ASSUME NEW msgs \in [Blocks -> Message], End(d, msgs),
             \A b \in Blocks : msgs[b].queued = message[b].queued
      PROVE  \A b \in Blocks : message'[b].queued = message[b].queued
  BY <1>1, <1>3, EndFacts
<1>4. ASSUME NEW v \in BOOLEAN, End(d, [message EXCEPT ![delivery[d].block].visible = v])
      PROVE  \A b \in Blocks : message'[b].queued = message[b].queued
  <2> DEFINE new == [message EXCEPT ![delivery[d].block].visible = v]
  <2>1. /\ new \in [Blocks -> Message]
        /\ \A b \in Blocks : new[b].queued = message[b].queued
    BY <1>2, VisibleFacts
  <2>2. End(d, new)
    BY <1>4
  <2> HIDE DEF new
  <2> QED
    BY <1>3, <2>1, <2>2
<1>5. message[delivery[d].block].visible \in BOOLEAN
  BY <1>2, MessageParts
<1>6. CASE PingLate(d)
  <2>1. PICK visible \in BOOLEAN :
           End(d, [message EXCEPT ![delivery[d].block].visible = IF Holds(d) THEN visible ELSE @])
    BY <1>6 DEF PingLate
  <2> DEFINE v == IF Holds(d) THEN visible ELSE message[delivery[d].block].visible
  <2>2. v \in BOOLEAN /\ End(d, [message EXCEPT ![delivery[d].block].visible = v])
    BY <1>2, <1>5, <2>1
  <2> QED
    BY <1>4, <2>2
<1>7. CASE TooLate(d)
  <2> DEFINE v == message[delivery[d].block].visible \/ Holds(d)
  <2>1. v \in BOOLEAN /\ End(d, [message EXCEPT ![delivery[d].block].visible = v])
    BY <1>2, <1>7 DEF TooLate
  <2> QED
    BY <1>4, <2>1
<1>8. CASE End(d, Pinged(d))
  BY <1>1, <1>3, <1>8, PingedFacts
<1>9. CASE End(d, message)
  BY <1>2, <1>3, <1>9
<1>10. CASE End(d, CompletedMessage(d)) /\ ~Holds(d)
  BY <1>2, <1>3, <1>10 DEF CompletedMessage
<1>11. CASE Throws(d) /\ (~(At(d, "merge") /\ delivery[d].rows = {}) \/ ~Holds(d))
  <2>1. End(d, Pinged(d)) \/ End(d, message) \/ (End(d, CompletedMessage(d)) /\ ~Holds(d))
    BY <1>11 DEF Throws
  <2> QED
    BY <1>8, <1>9, <1>10, <2>1
<1> QED
  BY <1>6, <1>7, <1>8, <1>9, <1>11 DEF Postpone, Prepared

(* What is away stays away, whatever is cleared from the buffer.             *)
LEMMA AwayStep ==
  ASSUME IInv, [Next]_vars, NEW r \in Rows, NEW n \in Nat, n <= identity, Away(r, n)
  PROVE  Away(r, n)'
<1> USE DEF sysVars, poolVars
<1>0. /\ TypeOK /\ PoolInv /\ HolderInv /\ MakingInv /\ MakersInv /\ BlockInv
      /\ BufferInv /\ JobInv
  BY DEF IInv
<1> DEFINE Whole(b) == block[b].exists /\ message[b].queued /\ r \in block[b].rows
           Hand(d) == ~At(d, "free") /\ r \in InHand(d)
<1>1. ASSUME stored[r] > 0 => stored'[r] > 0, risked \subseteq risked',
             \A b \in Blocks : Whole(b) => Whole(b)' \/ Away(r, n)',
             \A c \in buffer : c.id > n /\ r \in c.rows => c \in buffer' \/ Away(r, n)',
             \A t \in Makers \ Jobs : r \in making[t].rows => r \in making'[t].rows \/ Away(r, n)',
             \A d \in Deliveries : Hand(d) => Hand(d)' \/ Away(r, n)'
      PROVE  Away(r, n)'
  <2>1. CASE stored[r] > 0 \/ r \in risked
    BY <1>1, <2>1 DEF Away
  <2>2. CASE InBlock(r)
    BY <1>1, <2>2 DEF Away, InBlock
  <2>3. CASE \E c \in buffer : c.id > n /\ r \in c.rows
    BY <1>1, <2>3 DEF Away
  <2>4. CASE \E t \in Makers \ Jobs : r \in making[t].rows
    BY <1>1, <2>4 DEF Away
  <2>5. CASE \E d \in Deliveries : Hand(d)
    BY <1>1, <2>5 DEF Away
  <2> QED
    BY <2>1, <2>2, <2>3, <2>4, <2>5 DEF Away
<1>2. \A d \in Deliveries : Hand(d) <=> /\ delivery[d].step \in {"settle", "prepare"}
                                        /\ r \in delivery[d].locked
  BY DEF At, InHand
<1>3. \A d \in Deliveries : Hand(d)' <=> /\ delivery'[d].step \in {"settle", "prepare"}
                                         /\ r \in delivery'[d].locked
  BY DEF At, InHand
<1>4. \A t \in Makers : making[t].block # NoBlock =>
         /\ making[t].block \in Blocks /\ ~message[making[t].block].queued
         /\ block[making[t].block] = [exists |-> TRUE, rows |-> making[t].rows]
  BY <1>0 DEF TypeOK, MakingRecord, MakingInv
<1> HIDE DEF Hand
<1>5. ASSUME UNCHANGED <<block, message, delivery, stored>>, risked \subseteq risked',
             buffer \subseteq buffer',
             \A t \in Makers \ Jobs : r \in making[t].rows => r \in making'[t].rows \/ Away(r, n)'
      PROVE  Away(r, n)'
  BY <1>1, <1>2, <1>3, <1>5
<1>6. ASSUME NEW q \in Requests, Write(q) PROVE Away(r, n)'
  <2>1. PICK rows \in arriving : Prepare(q, rows)
    BY <1>6 DEF Write
  <2>2. rows \in SUBSET Rows /\ q \in Makers
    BY <1>0, BatchesAssumption, MakersAre DEF TypeOK
  <2>3. buffer \subseteq buffer' /\ \A t \in Makers \ {q} : making'[t] = making[t]
    BY <1>0, <2>1, <2>2, PrepareFacts
  <2>4. making[q].rows = {} /\ UNCHANGED <<block, message, delivery, stored, risked>>
    BY <1>6, NothingIsRecord DEF Write
  <2> QED
    BY <1>5, <2>3, <2>4
<1>7. ASSUME NEW t \in Makers, InsertBlock(t) PROVE Away(r, n)'
  <2>1. /\ \A u \in Makers \ {t} : making'[u] = making[u]
        /\ making'[t].rows = making[t].rows
        /\ Fresh(making'[t].block)
        /\ \A b \in Blocks \ {making'[t].block} : block'[b] = block[b]
    BY <1>0, <1>7, InsertFacts
  <2>2. \A b \in Blocks : Whole(b) => b # making'[t].block
    BY <2>1 DEF Fresh
  <2>3. UNCHANGED <<message, delivery, stored, risked, buffer>>
    BY <1>7 DEF InsertBlock
  <2>4. \A b \in Blocks : Whole(b) => Whole(b)'
    BY <2>1, <2>2, <2>3
  <2> QED
    BY <1>1, <1>2, <1>3, <2>1, <2>3, <2>4
<1>8. ASSUME NEW t \in Makers, Activate(t) PROVE Away(r, n)'
  <2>1. /\ making[t].block \in Blocks
        /\ \A u \in Makers \ {t} : making'[u] = making[u]
        /\ message'[making[t].block].queued
        /\ \A b \in Blocks \ {making[t].block} : message'[b] = message[b]
    BY <1>0, <1>8, ActivateFacts DEF NewMessage
  <2>2. UNCHANGED <<block, delivery, stored, risked, buffer>>
    BY <1>8 DEF Activate
  <2>3. r \in making[t].rows => Away(r, n)'
    <3>1. block[making[t].block] = [exists |-> TRUE, rows |-> making[t].rows]
      BY <1>4, <1>8 DEF Activate
    <3> QED
      BY <2>1, <2>2, <3>1 DEF Away, InBlock
  <2>4. \A b \in Blocks : Whole(b) => Whole(b)'
    BY <2>1, <2>2
  <2> QED
    BY <1>1, <1>2, <1>3, <2>1, <2>2, <2>3, <2>4
<1>9. ASSUME NEW t \in Makers, CreateFails(t) PROVE Away(r, n)'
  <2>1. /\ \A u \in Makers \ {t} : making'[u] = making[u]
        /\ \A b \in Blocks : b # making[t].block => block'[b] = block[b] /\ message'[b] = message[b]
        /\ risked' = risked \cup making[t].rows
    BY <1>0, <1>9, CreateFailsFacts
  <2>2. UNCHANGED <<delivery, stored, buffer>>
    BY <1>9 DEF CreateFails
  <2>3. \A b \in Blocks : Whole(b) => b # making[t].block
    BY <1>4
  <2>4. r \in making[t].rows => Away(r, n)'
    BY <2>1 DEF Away
  <2>5. \A b \in Blocks : Whole(b) => Whole(b)'
    BY <2>1, <2>3
  <2> QED
    BY <1>1, <1>2, <1>3, <2>1, <2>2, <2>4, <2>5
<1>10. ASSUME NEW j \in Jobs, CreateTransactions(j) PROVE Away(r, n)'
  <2>1. \A t \in Makers \ Jobs : making'[t] = making[t]
    BY <1>0, <1>10, JobFacts
  <2> QED
    BY <1>5, <1>10, <2>1 DEF CreateTransactions
<1>11. ASSUME NEW j \in Jobs, ClearData(j) PROVE Away(r, n)'
  <2>1. /\ job[j].step = "create" /\ job[j].chunks = {} /\ making[j].rows = {}
        /\ buffer' = {c \in buffer : c.id > job[j].last}
        /\ UNCHANGED <<block, message, making, delivery, stored, risked>>
    BY <1>11, NothingIsRecord DEF ClearData, Kept
  <2>2. job[j].last \in Nat /\ \A c \in buffer : c.id \in Nat
    BY <1>0, <2>1, Busy, StepsApart DEF TypeOK, Chunk
  <2>3. ASSUME NEW c \in buffer, c.id > n, r \in c.rows, c.id <= job[j].last
        PROVE  Away(r, n)'
    <3>1. Away(r, job[j].last)
      BY <1>0, <2>1, <2>3 DEF JobInv
    <3>2. \A k \in buffer : k.id > job[j].last => k \in buffer' /\ k.id > n
      BY <2>1, <2>2, <2>3
    <3>3. InBlock(r) => InBlock(r)'
      BY <2>1 DEF InBlock
    <3>4. \A d \in Deliveries : (~At(d, "free") /\ r \in InHand(d)) =>
                                (~At(d, "free") /\ r \in InHand(d))'
      BY <2>1 DEF At, InHand
    <3> QED
      BY <2>1, <3>1, <3>2, <3>3, <3>4 DEF Away
  <2>4. \A c \in buffer : c.id > n /\ r \in c.rows => c \in buffer' \/ Away(r, n)'
    BY <2>1, <2>2, <2>3
  <2> QED
    BY <1>1, <1>2, <1>3, <2>1, <2>4
<1>12. ASSUME NEW s \in Servers, Crash(s) PROVE Away(r, n)'
  <2>1. \A t \in Makers : making'[t] = IF t \in DeadDeliveries(s) \cup DeadJobs(s)
                                       THEN Nothing ELSE making[t]
    BY <1>0, <1>12, CrashFacts
  <2>2. /\ \A d \in Deliveries :
              delivery'[d] = IF d \in DeadDeliveries(s) THEN Free ELSE delivery[d]
        /\ DeadJobs(s) \subseteq Jobs /\ DeadDeliveries(s) \subseteq Deliveries
        /\ risked \subseteq risked'
        /\ \A d \in DeadDeliveries(s) : InHand(d) \cup making[d].rows \subseteq risked'
    BY <1>0, <1>12, CrashFacts
  <2>3. stored' = stored /\ buffer' = buffer
    BY <1>12 DEF Crash
  <2>4. ASSUME NEW b \in Blocks, Whole(b) PROVE Whole(b)'
    <3>1. ASSUME NEW t \in DeadDeliveries(s) \cup DeadJobs(s) PROVE making[t].block # b
      <4>1. t \in Makers
        BY <2>2, MakersAre
      <4>2. CASE making[t].block = NoBlock
        BY <4>2
      <4>3. CASE making[t].block # NoBlock
        BY <1>4, <2>4, <4>1, <4>3
      <4> QED
        BY <4>2, <4>3
    <3>2. block'[b] = block[b] /\ message'[b].queued = message[b].queued
      BY <1>0, <1>12, <3>1, CrashFacts
    <3> QED
      BY <2>4, <3>2
  <2>5. \A t \in Makers \ Jobs : r \in making[t].rows => r \in making'[t].rows \/ Away(r, n)'
    BY <2>1, <2>2 DEF Away
  <2>6. ASSUME NEW d \in Deliveries, Hand(d) PROVE Hand(d)' \/ Away(r, n)'
    <3>1. r \in InHand(d)
      BY <2>6 DEF Hand
    <3>2. CASE d \in DeadDeliveries(s)
      BY <2>2, <3>1, <3>2 DEF Away
    <3>3. CASE d \notin DeadDeliveries(s)
      BY <1>2, <1>3, <2>2, <2>6, <3>3
    <3> QED
      BY <3>2, <3>3
  <2> QED
    BY <1>1, <2>2, <2>3, <2>4, <2>5, <2>6
<1>13. ASSUME UNCHANGED <<making, buffer>>, risked \subseteq risked',
              stored[r] > 0 => stored'[r] > 0,
              \A b \in Blocks : Whole(b) => Whole(b)' \/ Away(r, n)',
              NEW d \in Deliveries, \A e \in Deliveries \ {d} : delivery'[e] = delivery[e],
              Hand(d) => Hand(d)' \/ Away(r, n)'
       PROVE  Away(r, n)'
  BY <1>1, <1>2, <1>3, <1>13
<1>14. ASSUME NEW d \in Deliveries,
              Ping(d) \/ LoadData(d) \/ (\E x \in Rows : Merge(d, x) \/ Locked(d, x))
       PROVE  Away(r, n)'
  <2>1. UNCHANGED <<making, buffer, block, risked>> /\ ~Hand(d)
    BY <1>2, <1>14 DEF Ping, LoadData, Merge, Locked, At
  <2>2. \A b \in Blocks : message'[b].queued = message[b].queued
    <3>1. CASE Ping(d)
      BY <1>0, <3>1, PingedFacts DEF Ping, At
    <3>2. CASE LoadData(d) \/ (\E x \in Rows : Merge(d, x) \/ Locked(d, x))
      BY <3>2 DEF LoadData, Merge, Locked
    <3> QED
      BY <1>14, <3>1, <3>2
  <2>3. stored[r] > 0 => stored'[r] > 0
    <3>1. CASE Ping(d) \/ LoadData(d) \/ (\E x \in Rows : Locked(d, x))
      BY <3>1 DEF Ping, LoadData, Locked
    <3>2. ASSUME NEW x \in Rows, Merge(d, x) PROVE stored[r] > 0 => stored'[r] > 0
      BY <1>0, <3>2 DEF Merge, More, TypeOK
    <3> QED
      BY <1>14, <3>1, <3>2
  <2>4. \A e \in Deliveries \ {d} : delivery'[e] = delivery[e]
    BY <1>0, <1>14, StepFacts DEF GoesOn
  <2> QED
    BY <1>13, <2>1, <2>2, <2>3, <2>4
<1>15. ASSUME NEW d \in Deliveries, Complete(d) PROVE Away(r, n)'
  <2>1. GoesOn(d, "settle", delivery[d].rows, delivery[d].locked, delivery[d].merged)
    BY <1>0, <1>15, StepFacts
  <2>2. /\ At(d, "merge") /\ ~At(d, "free") /\ delivery[d].rows = {} /\ block' = DeleteBlob(d)
        /\ UNCHANGED <<making, buffer, message, stored, risked>> /\ ~Hand(d)
    BY <1>2, <1>15 DEF Complete, At
  <2>3. \A b \in Blocks : b # delivery[d].block => block'[b] = block[b]
    BY <1>0, <2>2, DeleteBlobFacts
  <2>4. ASSUME Whole(delivery[d].block) PROVE Away(r, n)'
    <3>1. r \in delivery[d].locked \/ stored[r] > 0
      BY <1>0, <2>2, <2>4 DEF BlockInv
    <3>2. CASE r \in delivery[d].locked
      BY <1>3, <2>1, <3>2 DEF GoesOn, Hand, Away
    <3>3. CASE stored[r] > 0
      BY <2>2, <3>3 DEF Away
    <3> QED
      BY <3>1, <3>2, <3>3
  <2>5. \A b \in Blocks : Whole(b) => Whole(b)' \/ Away(r, n)'
    BY <2>2, <2>3, <2>4
  <2> QED
    BY <1>13, <2>1, <2>2, <2>5 DEF GoesOn
<1>16. ASSUME NEW d \in Deliveries, Settle(d) PROVE Away(r, n)'
  <2>1. /\ At(d, "settle") /\ ~At(d, "free") /\ block' = CompletedBlock(d)
        /\ UNCHANGED <<making, buffer, stored, risked>>
    BY <1>16 DEF Settle, At
  <2>2. delivery[d].block \in Blocks /\ \A b \in Blocks : Whole(b) => b # delivery[d].block
    BY <1>0, <2>1, Live DEF BlockInv
  <2>3. \A b \in Blocks \ {delivery[d].block} :
           block'[b] = block[b] /\ CompletedMessage(d)[b] = message[b]
    BY <1>0, <2>1, CompletedFacts
  <2>4. CASE Again(d)
    <3>1. GoesOn(d, "prepare", delivery[d].rows, delivery[d].locked, delivery[d].merged)
      BY <1>0, <1>16, <2>4, StepFacts
    <3>2. message' = CompletedMessage(d)
      BY <1>16, <2>4 DEF Settle
    <3>3. \A b \in Blocks : Whole(b) => Whole(b)'
      BY <2>2, <2>3, <3>2
    <3>4. Hand(d) => Hand(d)'
      BY <1>2, <1>3, <3>1 DEF GoesOn
    <3> QED
      BY <1>13, <2>1, <3>1, <3>3, <3>4 DEF GoesOn
  <2>5. CASE ~Again(d)
    <3>1. Over(d) /\ ~Hand(d)
      BY <1>0, <1>2, <1>16, <2>5, Overs DEF Again
    <3>2. \A e \in Deliveries \ {d} : delivery'[e] = delivery[e]
      BY <1>0, <3>1 DEF Over, TypeOK
    <3>3. \A b \in Blocks : Whole(b) => Whole(b)'
      BY <2>2, <2>3, <3>1 DEF Over
    <3> QED
      BY <1>13, <2>1, <3>1, <3>2, <3>3
  <2> QED
    BY <2>4, <2>5
<1>17. ASSUME NEW d \in Deliveries, PrepareLocked(d) PROVE Away(r, n)'
  <2>1. GoesOn(d, "prepare", delivery[d].rows, {}, delivery[d].merged)
    BY <1>0, <1>17, StepFacts
  <2>2. d \in Makers \ Jobs /\ delivery[d].locked \in SUBSET Rows /\ Prepare(d, delivery[d].locked)
    BY <1>0, <1>17, MakersAre, Live DEF PrepareLocked, At
  <2>3. /\ buffer \subseteq buffer' /\ \A u \in Makers \ {d} : making'[u] = making[u]
        /\ \/ buffer' = buffer \cup {[id |-> identity + 1, rows |-> delivery[d].locked]}
           \/ making'[d].rows = delivery[d].locked
    BY <1>0, <2>2, PrepareFacts
  <2>4. making[d].rows = {} /\ UNCHANGED <<block, message, stored, risked>>
    BY <1>0, <1>17, NothingIsRecord DEF PrepareLocked, MakersInv
  <2>5. ASSUME Hand(d) PROVE Away(r, n)'
    <3>1. r \in delivery[d].locked
      BY <1>2, <2>5
    <3>2. CASE making'[d].rows = delivery[d].locked
      BY <2>2, <3>1, <3>2 DEF Away
    <3>3. CASE buffer' = buffer \cup {[id |-> identity + 1, rows |-> delivery[d].locked]}
      <4> DEFINE c == [id |-> identity + 1, rows |-> delivery[d].locked]
      <4>1. c \in buffer' /\ c.id = identity + 1 /\ c.rows = delivery[d].locked
        BY <3>3
      <4>2. identity + 1 > n
        BY <1>0 DEF TypeOK
      <4> HIDE DEF c
      <4> QED
        BY <3>1, <4>1, <4>2 DEF Away
    <3> QED
      BY <2>3, <3>2, <3>3
  <2>6. \A e \in Deliveries \ {d} : Hand(e) => Hand(e)'
    BY <1>2, <1>3, <2>1 DEF GoesOn
  <2> QED
    BY <1>1, <2>3, <2>4, <2>5, <2>6
<1>18. ASSUME NEW d \in Deliveries, PingLate(d) \/ Postpone(d) \/ Prepared(d) \/ TooLate(d)
       PROVE  Away(r, n)'
  <2>1. \A b \in Blocks : message'[b].queued = message[b].queued
    BY <1>0, <1>18, QueuedFacts
  <2>2. UNCHANGED <<making, buffer, block, stored, risked>> /\ ~Hand(d)
    BY <1>2, <1>18 DEF PingLate, Postpone, Prepared, TooLate, At
  <2>3. Over(d)
    BY <1>0, <1>18, Overs
  <2>4. \A e \in Deliveries \ {d} : delivery'[e] = delivery[e]
    BY <1>0, <2>3 DEF Over, TypeOK
  <2> QED
    BY <1>13, <2>1, <2>2, <2>4
<1>19. ASSUME NEW d \in Deliveries, Throws(d) PROVE Away(r, n)'
  <2>1. Over(d) /\ risked \subseteq risked' /\ UNCHANGED <<making, buffer, stored>>
    BY <1>0, <1>19, Overs DEF Throws
  <2>2. \A e \in Deliveries \ {d} : delivery'[e] = delivery[e]
    BY <1>0, <2>1 DEF Over, TypeOK
  <2>3. Hand(d) => Away(r, n)'
    <3>1. Hand(d) => r \in InHand(d) /\ delivery[d].step \in {"settle", "prepare"}
      BY <1>2 DEF Hand
    <3>2. Hand(d) => r \in risked'
      BY <1>19, <3>1 DEF Throws, At
    <3> QED
      BY <3>2 DEF Away
  <2>4. CASE At(d, "merge") /\ delivery[d].rows = {} /\ Holds(d)
    <3>1. \/ block' = block
          \/ /\ block' = [block EXCEPT ![delivery[d].block] = NoRows]
             /\ delivery[d].locked \subseteq risked'
      BY <1>19, <2>4 DEF Throws
    <3>2. ASSUME NEW b \in Blocks, Whole(b), b # delivery[d].block PROVE Whole(b)'
      BY <1>0, <2>1, <3>1, <3>2 DEF Over, TypeOK
    <3>3. ASSUME Whole(delivery[d].block), delivery[d].locked \subseteq risked' PROVE Away(r, n)'
      <4>1. r \in delivery[d].locked \/ stored[r] > 0
        BY <1>0, <2>4, <3>3 DEF BlockInv
      <4> QED
        BY <2>1, <3>3, <4>1 DEF Away
    <3>4. CASE delivery[d].locked \subseteq risked'
      BY <1>13, <2>1, <2>2, <2>3, <3>2, <3>3, <3>4
    <3>5. CASE ~(delivery[d].locked \subseteq risked')
      <4>1. block' = block /\ End(d, Pinged(d)) /\ ~At(d, "free")
        BY <1>19, <2>4, <3>5 DEF Throws, At
      <4>2. \A b \in Blocks : message'[b].queued = message[b].queued
        BY <1>0, <4>1, EndFacts, PingedFacts
      <4> QED
        BY <1>13, <2>1, <2>2, <2>3, <4>1, <4>2
    <3> QED
      BY <3>4, <3>5
  <2>5. CASE ~(At(d, "merge") /\ delivery[d].rows = {}) \/ ~Holds(d)
    <3>1. \A b \in Blocks : message'[b].queued = message[b].queued
      BY <1>0, <1>19, <2>5, QueuedFacts
    <3>2. block' = block
      BY <1>19, <2>5 DEF Throws
    <3> QED
      BY <1>13, <2>1, <2>2, <2>3, <3>1, <3>2
  <2> QED
    BY <2>4, <2>5
<1>20. ASSUME NEW s \in Servers, Take(s) PROVE Away(r, n)'
  <2>1. Next1(s) \in Deliveries /\ delivery[Next1(s)].step = "queued"
    BY <1>0, <1>20, QueueOf DEF Take, At
  <2>2. \A e \in Deliveries \ {Next1(s)} : delivery'[e] = delivery[e]
    BY <1>0, <1>20, <2>1 DEF Take, TypeOK
  <2>3. UNCHANGED <<making, buffer, block, message, stored, risked>> /\ ~Hand(Next1(s))
    BY <1>2, <1>20, <2>1 DEF Take
  <2> QED
    BY <1>13, <2>1, <2>2, <2>3
<1>21. ASSUME NEW s \in Servers, NEW x \in Blocks, Dequeue(s, x) PROVE Away(r, n)'
  <2>1. PICK d \in Deliveries : /\ delivery[d] = Free
                                /\ \A e \in Deliveries \ {d} : delivery'[e] = delivery[e]
    BY <1>0, <1>21, DequeueFacts
  <2>2. message'[x].queued /\ \A b \in Blocks \ {x} : message'[b] = message[b]
    BY <1>0, <1>21, DequeueFacts
  <2>3. UNCHANGED <<making, buffer, block, stored, risked>> /\ ~Hand(d)
    BY <1>2, <1>21, <2>1 DEF Dequeue, Free
  <2> QED
    BY <1>13, <2>1, <2>2, <2>3
<1>22. ASSUME UNCHANGED <<making, buffer, block, stored, risked, delivery>>,
              \A b \in Blocks : Whole(b) => message'[b].queued
       PROVE  Away(r, n)'
  BY <1>1, <1>2, <1>3, <1>22
<1>23. ASSUME NEW b \in Blocks, Drop(b) \/ Lapse(b) \/ Expire(b) PROVE Away(r, n)'
  <2>1. CASE Drop(b)
    BY <1>0, <1>22, <2>1 DEF Drop, TypeOK
  <2>2. CASE Lapse(b)
    <3>1. \A x \in Blocks : message'[x].queued = message[x].queued
      BY <1>0, <2>2, VisibleFacts DEF Lapse
    <3> QED
      BY <1>22, <2>2, <3>1 DEF Lapse
  <2>3. CASE Expire(b)
    <3>1. UNCHANGED <<making, buffer, block, stored, delivery>> /\ risked' = risked \cup block[b].rows
      BY <2>3 DEF Expire
    <3>2. \A x \in Blocks \ {b} : message'[x] = message[x]
      BY <1>0, <2>3 DEF Expire, TypeOK
    <3>3. Whole(b) => Away(r, n)'
      BY <3>1 DEF Away
    <3>4. \A x \in Blocks : Whole(x) => Whole(x)' \/ Away(r, n)'
      BY <3>1, <3>2, <3>3
    <3> QED
      BY <1>1, <1>2, <1>3, <3>1, <3>4
  <2> QED
    BY <1>23, <2>1, <2>2, <2>3
<1>24. ASSUME NEW d \in Deliveries, Unattended(d) PROVE Away(r, n)'
  <2>1. delivery[d].block \in Blocks
    BY <1>0, <1>24, Live DEF Unattended, At
  <2>2. \A x \in Blocks : message'[x].queued = message[x].queued
    BY <1>0, <1>24, <2>1, VisibleFacts DEF Unattended
  <2> QED
    BY <1>22, <1>24, <2>2 DEF Unattended
<1>25. ASSUME \/ \E j \in Jobs : QueryData(j) \/ JobFails(j) \/ (\E s \in Servers : DequeueBuffer(j, s))
              \/ \E s \in Servers : EnsureWorker(s) \/ LoopEnds(s) \/ OnWorkerCompleted(s)
              \/ BufferTimeout \/ Overrun \/ UNCHANGED vars
       PROVE  Away(r, n)'
  <2>1. CASE \E j \in Jobs : QueryData(j) \/ JobFails(j) \/ (\E s \in Servers : DequeueBuffer(j, s))
    BY <1>22, <2>1 DEF QueryData, JobFails, DequeueBuffer
  <2>2. CASE \E s \in Servers : EnsureWorker(s) \/ LoopEnds(s) \/ OnWorkerCompleted(s)
    BY <1>22, <2>2 DEF EnsureWorker, LoopEnds, OnWorkerCompleted
  <2>3. CASE BufferTimeout \/ Overrun \/ UNCHANGED vars
    BY <1>22, <2>3 DEF BufferTimeout, Overrun, BufferLapses, vars
  <2> QED
    BY <1>25, <2>1, <2>2, <2>3
<1>26. ASSUME NEW d \in Deliveries, DeliveryStep(d) PROVE Away(r, n)'
  BY <1>14, <1>15, <1>16, <1>17, <1>18, <1>26 DEF DeliveryStep
<1>27. ASSUME NEW d \in Deliveries, WaitsTooLong(d) \/ Stall(d) PROVE Away(r, n)'
  BY <1>18, <1>24, <1>27 DEF WaitsTooLong, Stall
<1>28. ASSUME NEW j \in Jobs,
              JobStep(j) \/ JobFails(j) \/ (\E s \in Servers : DequeueBuffer(j, s))
       PROVE  Away(r, n)'
  BY <1>10, <1>11, <1>25, <1>28 DEF JobStep
<1> QED
  BY <1>6, <1>7, <1>8, <1>9, <1>12, <1>19, <1>20, <1>21, <1>23, <1>25, <1>26, <1>27, <1>28
  DEF Next, Making, WorkerStep

(* A job clears a chunk when each of its rows is away.                       *)
LEMMA JobInvStep ==
  ASSUME IInv, [Next]_vars
  PROVE  JobInv'
<1> USE DEF sysVars, poolVars
<1>0. TypeOK /\ MakingInv /\ MakersInv /\ BufferInv /\ JobInv
  BY DEF IInv
<1>1. /\ \A j \in Jobs : job[j] # Idle => job[j].last \in Nat /\ job[j].last <= identity
      /\ identity \in Nat /\ \A c \in buffer : c.id \in Nat /\ c.rows \subseteq Rows
  BY <1>0, Busy DEF TypeOK, BufferInv, Chunk
(* A job that goes on, and the chunks that it knows of. *)
<1>2. ASSUME NEW j \in Jobs, job[j].step = "create", job'[j].step = "create",
             job'[j].last = job[j].last,
             \A c \in buffer' : c.id <= job[j].last => c \in buffer,
             NEW c \in buffer, c \in buffer', c.id <= job[j].last, NEW r \in c.rows,
             r \in making[j].rows => r \in making'[j].rows \/ Away(r, job[j].last)',
             \A k \in job[j].chunks : r \in k.rows =>
                k \in job'[j].chunks \/ r \in making'[j].rows
      PROVE  \/ r \in making'[j].rows \/ Away(r, job[j].last)'
             \/ \E k \in job'[j].chunks : r \in k.rows
  <2>1. \/ r \in making[j].rows \/ Away(r, job[j].last)
        \/ \E k \in job[j].chunks : r \in k.rows
    BY <1>0, <1>2 DEF JobInv
  <2>2. r \in Rows /\ job[j].last \in Nat /\ job[j].last <= identity
    BY <1>1, <1>2, StepsApart
  <2>3. PICK n \in Nat : n = job[j].last
    BY <2>2
  <2>4. Away(r, n) => Away(r, n)'
    BY <2>2, <2>3, AwayStep
  <2>5. job'[j].last = n
    BY <1>2, <2>3
  <2>6. Away(r, n)' => Away(r, job[j].last)'
    BY <2>5 DEF Away
  <2> QED
    BY <1>2, <2>1, <2>3, <2>4, <2>6
<1>3. ASSUME UNCHANGED job,
             \A j \in Jobs : job[j].step = "create" =>
                /\ \A c \in buffer' : c.id <= job[j].last => c \in buffer
                /\ \A r \in making[j].rows : r \in making'[j].rows \/ Away(r, job[j].last)'
      PROVE  JobInv'
  <2>1. ASSUME NEW j \in Jobs, job'[j].step = "create", NEW c \in buffer', c.id <= job'[j].last,
               NEW r \in c.rows
        PROVE  \/ r \in making'[j].rows \/ Away(r, job[j].last)'
               \/ \E k \in job'[j].chunks : r \in k.rows
    <3>1. job'[j] = job[j] /\ c \in buffer
      BY <1>3, <2>1
    <3> QED
      BY <1>2, <1>3, <2>1, <3>1
  <2> QED
    BY <2>1 DEF JobInv
<1>4. ASSUME UNCHANGED <<job, buffer, making>> PROVE JobInv'
  BY <1>3, <1>4
<1>5. ASSUME NEW t \in Makers \ Jobs, NEW rows \in SUBSET Rows, Prepare(t, rows), UNCHANGED job
      PROVE  JobInv'
  <2>1. /\ \A u \in Makers \ {t} : making'[u] = making[u]
        /\ \/ buffer' = buffer
           \/ buffer' = buffer \cup {[id |-> identity + 1, rows |-> rows]}
    BY <1>0, <1>5, PrepareFacts
  <2>2. ASSUME NEW j \in Jobs, job[j].step = "create", NEW c \in buffer', c.id <= job[j].last
        PROVE  c \in buffer
    <3>1. job[j].last < identity + 1
      BY <1>1, <2>2, StepsApart
    <3> QED
      BY <1>1, <2>1, <2>2, <3>1, StepsApart
  <2> QED
    BY <1>3, <1>5, <2>1, <2>2, MakersAre
<1>6. ASSUME NEW q \in Requests, Write(q) PROVE JobInv'
  <2>1. PICK rows \in arriving : Prepare(q, rows)
    BY <1>6 DEF Write
  <2>2. rows \in SUBSET Rows /\ q \in Makers \ Jobs
    BY <1>0, BatchesAssumption, MakersAre DEF TypeOK
  <2> QED
    BY <1>5, <1>6, <2>1, <2>2 DEF Write
<1>7. ASSUME NEW d \in Deliveries, PrepareLocked(d) PROVE JobInv'
  <2>1. d \in Makers \ Jobs /\ delivery[d].locked \in SUBSET Rows /\ Prepare(d, delivery[d].locked)
    BY <1>0, <1>7, MakersAre, Live DEF PrepareLocked, At
  <2> QED
    BY <1>5, <1>7, <2>1 DEF PrepareLocked
<1>8. ASSUME NEW t \in Makers, InsertBlock(t) PROVE JobInv'
  <2>1. \A u \in Makers : making'[u].rows = making[u].rows
    BY <1>0, <1>8, InsertFacts
  <2> QED
    BY <1>3, <1>8, <2>1, MakersAre DEF InsertBlock
<1>9. ASSUME NEW t \in Makers, Activate(t) PROVE JobInv'
  <2>1. /\ making[t].block \in Blocks
        /\ \A u \in Makers \ {t} : making'[u] = making[u]
        /\ message'[making[t].block].queued
    BY <1>0, <1>9, ActivateFacts DEF NewMessage
  <2>2. UNCHANGED <<job, buffer, block>> /\ block[making[t].block] = [exists |-> TRUE, rows |-> making[t].rows]
    BY <1>0, <1>9 DEF Activate, MakingInv
  <2>3. \A r \in making[t].rows : InBlock(r)'
    BY <2>1, <2>2 DEF InBlock
  <2>4. \A j \in Jobs : \A r \in making[j].rows : r \in making'[j].rows \/ InBlock(r)'
    BY <2>1, <2>3, MakersAre
  <2>5. \A j \in Jobs : \A r \in making[j].rows : r \in making'[j].rows \/ Away(r, job[j].last)'
    BY <2>4 DEF Away
  <2> QED
    BY <1>3, <2>2, <2>5
<1>10. ASSUME NEW t \in Makers, CreateFails(t) PROVE JobInv'
  <2>1. /\ \A u \in Makers \ {t} : making'[u] = making[u]
        /\ risked' = risked \cup making[t].rows
    BY <1>0, <1>10, CreateFailsFacts
  <2>2. \A j \in Jobs : \A r \in making[j].rows : r \in making'[j].rows \/ r \in risked'
    BY <2>1, MakersAre
  <2>3. \A j \in Jobs : \A r \in making[j].rows : r \in making'[j].rows \/ Away(r, job[j].last)'
    BY <2>2 DEF Away
  <2> QED
    BY <1>3, <1>10, <2>3 DEF CreateFails
<1>11. ASSUME UNCHANGED <<buffer, making>>,
              \A j \in Jobs : job'[j] = job[j] \/ job'[j].step # "create"
       PROVE  JobInv'
  <2>1. ASSUME NEW j \in Jobs, job'[j].step = "create", NEW c \in buffer', c.id <= job'[j].last,
               NEW r \in c.rows
        PROVE  \/ r \in making'[j].rows \/ Away(r, job[j].last)'
               \/ \E k \in job'[j].chunks : r \in k.rows
    <3>1. job'[j] = job[j] /\ c \in buffer
      BY <1>11, <2>1
    <3> QED
      BY <1>2, <1>11, <2>1, <3>1
  <2> QED
    BY <2>1 DEF JobInv
<1>12. ASSUME NEW j \in Jobs, JobFails(j) \/ (\E s \in Servers : DequeueBuffer(j, s)) PROVE JobInv'
  <2>1. UNCHANGED <<buffer, making>>
    BY <1>12 DEF JobFails, DequeueBuffer
  <2>2. job'[j].step # "create" /\ \A k \in Jobs \ {j} : job'[k] = job[k]
    BY <1>0, <1>12 DEF JobFails, DequeueBuffer, TypeOK, Idle
  <2> QED
    BY <1>11, <2>1, <2>2
<1>13. ASSUME NEW j \in Jobs, QueryData(j) PROVE JobInv'
  <2>1. /\ job'[j].step = "create" /\ job'[j].chunks = buffer /\ \A k \in Jobs \ {j} : job'[k] = job[k]
    BY <1>0, <1>13, JobFacts
  <2>2. UNCHANGED <<buffer, making>>
    BY <1>13 DEF QueryData
  <2>3. ASSUME NEW k \in Jobs, job'[k].step = "create", NEW c \in buffer', c.id <= job'[k].last,
               NEW r \in c.rows
        PROVE  \/ r \in making'[k].rows \/ Away(r, job[k].last)'
               \/ \E x \in job'[k].chunks : r \in x.rows
    <3>1. CASE k = j
      BY <2>1, <2>2, <2>3, <3>1
    <3>2. CASE k # j
      BY <1>2, <2>1, <2>2, <2>3, <3>2
    <3> QED
      BY <3>1, <3>2
  <2> QED
    BY <2>3 DEF JobInv
<1>14. ASSUME NEW j \in Jobs, CreateTransactions(j) PROVE JobInv'
  <2>1. /\ \A k \in Jobs \ {j} : job'[k] = job[k] /\ making'[k] = making[k]
        /\ job'[j].last = job[j].last /\ job[j].step = "create" /\ making[j].rows = {}
        /\ UNCHANGED buffer
    BY <1>0, <1>14, JobFacts, MakersAre, NothingIsRecord DEF CreateTransactions
  <2>2. PICK x \in job[j].chunks : /\ job'[j].chunks = job[j].chunks \ {x}
                                   /\ making'[j].rows = x.rows
    BY <1>0, <1>14, JobFacts
  <2>3. ASSUME NEW k \in Jobs, job'[k].step = "create", NEW c \in buffer', c.id <= job'[k].last,
               NEW r \in c.rows
        PROVE  \/ r \in making'[k].rows \/ Away(r, job[k].last)'
               \/ \E y \in job'[k].chunks : r \in y.rows
    <3>1. CASE k = j
      BY <1>2, <2>1, <2>2, <2>3, <3>1
    <3>2. CASE k # j
      BY <1>2, <2>1, <2>3, <3>2
    <3> QED
      BY <3>1, <3>2
  <2> QED
    BY <2>3 DEF JobInv
<1>15. ASSUME NEW j \in Jobs, ClearData(j) PROVE JobInv'
  <2>1. /\ buffer' \subseteq buffer /\ UNCHANGED making
        /\ job'[j].step # "create" /\ \A k \in Jobs \ {j} : job'[k] = job[k]
    BY <1>0, <1>15 DEF ClearData, Kept, TypeOK, Idle
  <2>2. ASSUME NEW k \in Jobs, job'[k].step = "create", NEW c \in buffer', c.id <= job'[k].last,
               NEW r \in c.rows
        PROVE  \/ r \in making'[k].rows \/ Away(r, job[k].last)'
               \/ \E y \in job'[k].chunks : r \in y.rows
    <3>1. k # j /\ job'[k] = job[k] /\ c \in buffer
      BY <2>1, <2>2
    <3> QED
      BY <1>2, <2>1, <2>2, <3>1
  <2> QED
    BY <2>2 DEF JobInv
<1>16. ASSUME NEW s \in Servers, Crash(s) PROVE JobInv'
  <2>1. /\ \A t \in Makers : making'[t] = IF t \in DeadDeliveries(s) \cup DeadJobs(s)
                                          THEN Nothing ELSE making[t]
        /\ \A j \in Jobs : job'[j] = IF j \in DeadJobs(s) THEN Idle ELSE job[j]
        /\ DeadDeliveries(s) \subseteq Deliveries
    BY <1>0, <1>16, CrashFacts
  <2>2. buffer' = buffer
    BY <1>16 DEF Crash
  <2>3. ASSUME NEW k \in Jobs, job'[k].step = "create", NEW c \in buffer', c.id <= job'[k].last,
               NEW r \in c.rows
        PROVE  \/ r \in making'[k].rows \/ Away(r, job[k].last)'
               \/ \E y \in job'[k].chunks : r \in y.rows
    <3>1. job'[k] = job[k] /\ making'[k] = making[k]
      BY <2>1, <2>3, MakersAre, StepsApart
    <3> QED
      BY <1>2, <2>2, <2>3, <3>1
  <2> QED
    BY <2>3 DEF JobInv
<1>17. ASSUME NEW d \in Deliveries,
              \/ DeliveryStep(d) /\ ~PrepareLocked(d)
              \/ WaitsTooLong(d) \/ Stall(d) \/ Throws(d)
       PROVE  JobInv'
  <2>1. CASE Ping(d) \/ PingLate(d) \/ LoadData(d) \/ (\E r \in Rows : Merge(d, r) \/ Locked(d, r))
    BY <1>4, <2>1 DEF Ping, PingLate, LoadData, Merge, Locked
  <2>2. CASE Postpone(d) \/ Complete(d) \/ Settle(d) \/ Prepared(d)
    BY <1>4, <2>2 DEF Postpone, Complete, Settle, Prepared
  <2>3. CASE WaitsTooLong(d) \/ Stall(d) \/ Throws(d)
    BY <1>4, <2>3 DEF WaitsTooLong, Stall, TooLate, Unattended, Throws
  <2> QED
    BY <1>17, <2>1, <2>2, <2>3 DEF DeliveryStep
<1>18. ASSUME \/ \E s \in Servers : EnsureWorker(s) \/ WorkerStep(s)
                                       \/ (\E b \in Blocks : Dequeue(s, b))
              \/ \E b \in Blocks : Drop(b) \/ Lapse(b) \/ Expire(b)
              \/ BufferTimeout \/ Overrun \/ UNCHANGED vars
       PROVE  JobInv'
  <2>1. CASE \E s \in Servers : EnsureWorker(s) \/ WorkerStep(s) \/ (\E b \in Blocks : Dequeue(s, b))
    BY <1>4, <2>1 DEF EnsureWorker, WorkerStep, Take, LoopEnds, OnWorkerCompleted, Dequeue
  <2>2. CASE \/ \E b \in Blocks : Drop(b) \/ Lapse(b) \/ Expire(b)
             \/ BufferTimeout \/ Overrun \/ UNCHANGED vars
    BY <1>4, <2>2 DEF Drop, Lapse, Expire, BufferTimeout, Overrun, BufferLapses, vars
  <2> QED
    BY <1>18, <2>1, <2>2
<1>19. ASSUME NEW j \in Jobs, JobStep(j) PROVE JobInv'
  BY <1>13, <1>14, <1>15, <1>19 DEF JobStep
<1> QED
  BY <1>6, <1>7, <1>8, <1>9, <1>10, <1>12, <1>16, <1>17, <1>18, <1>19 DEF Next, Making

(* A row that has arrived is away, and one that arrives is put into the      *)
(* buffer or into the hands of the thread that makes a block of it.          *)
LEMMA KeptStep ==
  ASSUME IInv, [Next]_vars
  PROVE  KeptInv'
<1>1. TypeOK /\ KeptInv /\ identity \in Nat /\ Arrived \subseteq Rows
  BY BatchesAssumption DEF IInv, TypeOK, Arrived
<1>2. \A r \in Arrived : Away(r, 0)'
  <2>1. ASSUME NEW r \in Arrived PROVE Away(r, 0)'
    <3>1. r \in Rows /\ Away(r, 0) /\ 0 \in Nat /\ 0 <= identity
      BY <1>1 DEF KeptInv
    <3> QED
      BY <3>1, AwayStep
  <2> QED
    BY <2>1
<1>3. CASE arriving' = arriving
  BY <1>2, <1>3 DEF KeptInv, Arrived
<1>4. ASSUME NEW q \in Requests, Write(q) PROVE KeptInv'
  <2>1. PICK rows \in arriving : Prepare(q, rows) /\ arriving' = arriving \ {rows}
    BY <1>4 DEF Write
  <2>2. rows \in SUBSET Rows /\ q \in Makers \ Jobs
    BY <1>1, BatchesAssumption, MakersAre DEF TypeOK
  <2>3. \/ identity' = identity + 1 /\ buffer' = buffer \cup {[id |-> identity + 1, rows |-> rows]}
        \/ making'[q].rows = rows
    BY <1>1, <2>1, <2>2, PrepareFacts
  <2>4. \A r \in rows : Away(r, 0)'
    <3>1. CASE making'[q].rows = rows
      BY <2>2, <3>1 DEF Away
    <3>2. CASE buffer' = buffer \cup {[id |-> identity + 1, rows |-> rows]}
      <4> DEFINE c == [id |-> identity + 1, rows |-> rows]
      <4>1. c \in buffer' /\ c.id > 0 /\ c.rows = rows
        BY <1>1, <3>2
      <4> HIDE DEF c
      <4> QED
        BY <4>1 DEF Away
    <3> QED
      BY <2>3, <3>1, <3>2
  <2>5. Arrived' \subseteq Arrived \cup rows
    BY <2>1 DEF Arrived
  <2> QED
    BY <1>2, <2>4, <2>5 DEF KeptInv
<1>5. (\E q \in Requests : Write(q)) \/ arriving' = arriving
  <2> USE DEF sysVars, poolVars
  <2>1. CASE \E t \in Makers : Making(t) \/ CreateFails(t)
    BY <2>1 DEF Making, InsertBlock, Activate, CreateFails
  <2>2. CASE \E j \in Jobs : JobStep(j) \/ JobFails(j) \/ (\E s \in Servers : DequeueBuffer(j, s))
    BY <2>2 DEF JobStep, QueryData, CreateTransactions, ClearData, JobFails, DequeueBuffer
  <2>3. CASE \E s \in Servers : EnsureWorker(s) \/ WorkerStep(s) \/ Crash(s)
                                   \/ (\E b \in Blocks : Dequeue(s, b))
    BY <2>3 DEF EnsureWorker, WorkerStep, Take, LoopEnds, OnWorkerCompleted, Dequeue, Crash
  <2>4. CASE \E d \in Deliveries : DeliveryStep(d)
    <3>1. PICK d \in Deliveries : DeliveryStep(d)
      BY <2>4
    <3>2. CASE Ping(d) \/ PingLate(d) \/ LoadData(d) \/ (\E r \in Rows : Merge(d, r) \/ Locked(d, r))
      BY <3>2 DEF Ping, PingLate, LoadData, Merge, Locked
    <3>3. CASE Postpone(d) \/ Complete(d) \/ Settle(d) \/ PrepareLocked(d) \/ Prepared(d)
      BY <3>3 DEF Postpone, Complete, Settle, PrepareLocked, Prepared
    <3> QED
      BY <3>1, <3>2, <3>3 DEF DeliveryStep
  <2>5. CASE \E d \in Deliveries : WaitsTooLong(d) \/ Stall(d) \/ Throws(d)
    BY <2>5 DEF WaitsTooLong, Stall, TooLate, Unattended, Throws
  <2>6. CASE \/ \E b \in Blocks : Drop(b) \/ Lapse(b) \/ Expire(b)
             \/ BufferTimeout \/ Overrun \/ UNCHANGED vars
    BY <2>6 DEF Drop, Lapse, Expire, BufferTimeout, Overrun, BufferLapses, vars
  <2> QED
    BY <2>1, <2>2, <2>3, <2>4, <2>5, <2>6 DEF Next
<1> QED
  BY <1>3, <1>4, <1>5

-------------------------------------------------------------------------------
LEMMA InitInv == Init => IInv
<1> SUFFICES ASSUME Init PROVE IInv
  OBVIOUS
<1>1. TypeOK
  <2>1. /\ pool \in [Servers -> Seq(Deliveries)]
        /\ 0 \in 0..MaxChunks /\ 0 \in 0..MaxFaults /\ 0 \in 0..StorageJobs
    BY DEF Init
  <2>2. /\ job \in [Jobs -> Job \cup {Idle}] /\ delivery \in [Deliveries -> Delivery \cup {Free}]
        /\ block \in [Blocks -> Block] /\ message \in [Blocks -> Message]
        /\ making \in [Makers -> MakingRecord]
    BY NewMessages, NothingIsRecord DEF Init
  <2>3. /\ ensuring \in [Servers -> 0..StorageJobs] /\ stored \in [Rows -> 0..2]
        /\ worker \in [Servers -> {"none", "running", "ended"}]
    BY <2>1 DEF Init
  <2>4. /\ buffered \in BOOLEAN /\ arriving \subseteq Batches /\ buffer \subseteq Chunk
        /\ bufferVisible \in BOOLEAN /\ identity \in 0..MaxChunks /\ risked \subseteq Rows
        /\ faults \in 0..MaxFaults
    BY <2>1 DEF Init
  <2> QED
    BY <2>1, <2>2, <2>3, <2>4 DEF TypeOK
<1>2. PoolInv /\ HolderInv
  BY DEF Init, PoolInv, HolderInv, NoMessage
<1>3. MakingInv /\ MakersInv
  BY MakersAre, NothingIsRecord DEF Init, MakingInv, MakersInv
<1>4. BlockInv
  BY DEF Init, BlockInv, NoRows, At, Free
<1>5. BufferInv /\ JobInv
  BY DEF Init, BufferInv, JobInv
<1>6. KeptInv
  BY DEF Init, KeptInv, Arrived
<1> QED
  BY <1>1, <1>2, <1>3, <1>4, <1>5, <1>6 DEF IInv

LEMMA Inductive == IInv /\ [Next]_vars => IInv'
<1> SUFFICES ASSUME IInv, [Next]_vars PROVE IInv'
  OBVIOUS
<1>1. /\ TypeOK /\ PoolInv /\ HolderInv /\ MakingInv /\ MakersInv /\ BlockInv
      /\ BufferInv
  BY DEF IInv
<1>2. TypeOK' /\ PoolInv' /\ HolderInv'
  BY <1>1, TypeStep, PoolStep, HolderStep
<1>3. MakingInv' /\ MakersInv'
  BY <1>1, MakingStep, MakersStep
<1>4. BlockInv' /\ BufferInv'
  BY <1>1, BlockStep, BufferStep
<1>5. JobInv' /\ KeptInv'
  BY JobInvStep, KeptStep
<1> QED
  BY <1>2, <1>3, <1>4, <1>5 DEF IInv

(* The inductive invariant of all that follows.                              *)
THEOREM Invariance == Spec => []IInv
BY InitInv, Inductive, PTL DEF Spec

(* Every variable keeps the type the code gives it: above all, what is in a  *)
(* pool is a message that was dequeued.                                      *)
THEOREM TypeCorrect == Spec => []TypeOK
<1>1. IInv => TypeOK
  BY DEF IInv
<1> QED
  BY <1>1, Invariance, PTL

(* No row that Prepare has accepted is lost, whatever stalls, fails or dies, *)
(* unless it happens to the thread that makes a new block of the row, or the *)
(* message of its block expires before it was merged.                        *)
THEOREM NoRowLost == Spec => []RowsKept
<1>1. IInv => RowsKept
  <2> SUFFICES ASSUME IInv, NEW r \in Arrived \ risked
               PROVE  stored[r] > 0 \/ InBuffer(r) \/ InBlock(r) \/ InHands(r)
    BY DEF RowsKept
  <2>1. Away(r, 0)
    BY DEF IInv, KeptInv
  <2> QED
    BY <2>1 DEF Away, InBuffer, InHands
<1> QED
  BY <1>1, Invariance, PTL

-------------------------------------------------------------------------------
(* While nothing goes wrong.                                                 *)
LEMMA Faultless ==
  ASSUME TypeOK, [Next]_vars, faults' = 0
  PROVE  /\ faults = 0
         /\ \/ \E q \in Requests : Write(q)
            \/ \E t \in Makers : Making(t)
            \/ \E j \in Jobs : JobStep(j) \/ (\E s \in Servers : DequeueBuffer(j, s))
            \/ \E s \in Servers : EnsureWorker(s) \/ WorkerStep(s) \/ (\E b \in Blocks : Dequeue(s, b))
            \/ \E d \in Deliveries : DeliveryStep(d) \/ WaitsTooLong(d)
            \/ \E b \in Blocks : Drop(b) \/ Lapse(b)
            \/ BufferTimeout \/ UNCHANGED vars
<1> USE DEF sysVars, poolVars
<1>1. faults \in Nat
  BY DEF TypeOK
<1>2. ~Fault
  BY <1>1 DEF Fault
<1>3. /\ \A t \in Makers : ~CreateFails(t)
      /\ \A j \in Jobs : ~JobFails(j)
      /\ \A s \in Servers : ~Crash(s)
      /\ \A d \in Deliveries : ~Stall(d) /\ ~Throws(d)
      /\ \A b \in Blocks : ~Expire(b)
      /\ ~Overrun
  BY <1>2 DEF CreateFails, JobFails, Crash, Stall, Throws, Expire, Overrun
<1>4. \/ \E q \in Requests : Write(q)
      \/ \E t \in Makers : Making(t)
      \/ \E j \in Jobs : JobStep(j) \/ (\E s \in Servers : DequeueBuffer(j, s))
      \/ \E s \in Servers : EnsureWorker(s) \/ WorkerStep(s) \/ (\E b \in Blocks : Dequeue(s, b))
      \/ \E d \in Deliveries : DeliveryStep(d) \/ WaitsTooLong(d)
      \/ \E b \in Blocks : Drop(b) \/ Lapse(b)
      \/ BufferTimeout \/ UNCHANGED vars
  BY <1>3 DEF Next
<1>5. CASE (\E q \in Requests : Write(q)) \/ (\E t \in Makers : Making(t))
  BY <1>4, <1>5 DEF Write, Making, InsertBlock, Activate
<1>6. CASE \E j \in Jobs : JobStep(j) \/ (\E s \in Servers : DequeueBuffer(j, s))
  BY <1>4, <1>6 DEF JobStep, QueryData, CreateTransactions, ClearData, DequeueBuffer
<1>7. CASE \E s \in Servers : EnsureWorker(s) \/ WorkerStep(s) \/ (\E b \in Blocks : Dequeue(s, b))
  BY <1>4, <1>7 DEF EnsureWorker, WorkerStep, Take, LoopEnds, OnWorkerCompleted, Dequeue
<1>8. CASE \E d \in Deliveries : DeliveryStep(d) \/ WaitsTooLong(d)
  <2>1. PICK d \in Deliveries : DeliveryStep(d) \/ WaitsTooLong(d)
    BY <1>8
  <2>2. CASE Ping(d) \/ PingLate(d) \/ LoadData(d) \/ (\E r \in Rows : Merge(d, r) \/ Locked(d, r))
    BY <1>4, <2>2 DEF Ping, PingLate, LoadData, Merge, Locked
  <2>3. CASE Postpone(d) \/ Complete(d) \/ Settle(d) \/ PrepareLocked(d) \/ Prepared(d)
                \/ WaitsTooLong(d)
    BY <1>4, <2>3 DEF Postpone, Complete, Settle, PrepareLocked, Prepared, WaitsTooLong
  <2> QED
    BY <2>1, <2>2, <2>3 DEF DeliveryStep
<1>9. CASE (\E b \in Blocks : Drop(b) \/ Lapse(b)) \/ BufferTimeout \/ UNCHANGED vars
  BY <1>4, <1>9 DEF Drop, Lapse, BufferTimeout, BufferLapses, vars
<1> QED
  BY <1>4, <1>5, <1>6, <1>7, <1>8, <1>9

LEMMA EndsFacts ==
  ASSUME TypeOK, NEW d \in Deliveries,
         \/ PingLate(d) \/ Postpone(d) \/ (Settle(d) /\ ~Again(d)) \/ Prepared(d) \/ TooLate(d)
  PROVE  /\ Holds(d) => message'[delivery[d].block].holder = Nobody
         /\ \A b \in Blocks : ~(Holds(d) /\ b = delivery[d].block) =>
               /\ message'[b].holder = message[b].holder \/ message[b].holder = d
               /\ message'[b].visible => message[b].visible
<1>1. ~At(d, "free")
  BY DEF PingLate, Postpone, Settle, Prepared, TooLate, At
<1>2. delivery[d].block \in Blocks /\ message \in [Blocks -> Message] /\ d # Nobody
  BY <1>1, Live DEF TypeOK
<1>3. ASSUME NEW msgs \in [Blocks -> Message], End(d, msgs),
             Holds(d) => msgs[delivery[d].block].holder \in {d, Nobody},
             \A b \in Blocks : ~(Holds(d) /\ b = delivery[d].block) =>
                msgs[b].holder = message[b].holder /\ (msgs[b].visible => message[b].visible)
      PROVE  /\ Holds(d) => message'[delivery[d].block].holder = Nobody
             /\ \A b \in Blocks : ~(Holds(d) /\ b = delivery[d].block) =>
                   /\ message'[b].holder = message[b].holder \/ message[b].holder = d
                   /\ message'[b].visible => message[b].visible
  <2>1. \A b \in Blocks :
           /\ message'[b].visible = msgs[b].visible
           /\ message'[b].holder = IF msgs[b].holder = d /\ b = delivery[d].block
                                   THEN Nobody ELSE msgs[b].holder
    BY <1>1, <1>3, EndFacts
  <2> QED
    BY <1>2, <1>3, <2>1
<1>4. ASSUME NEW v \in BOOLEAN, ~Holds(d) => v = message[delivery[d].block].visible,
             End(d, [message EXCEPT ![delivery[d].block].visible = v])
      PROVE  /\ Holds(d) => message'[delivery[d].block].holder = Nobody
             /\ \A b \in Blocks : ~(Holds(d) /\ b = delivery[d].block) =>
                   /\ message'[b].holder = message[b].holder \/ message[b].holder = d
                   /\ message'[b].visible => message[b].visible
  <2> DEFINE new == [message EXCEPT ![delivery[d].block].visible = v]
  <2>1. /\ new \in [Blocks -> Message]
        /\ \A b \in Blocks : /\ new[b].holder = message[b].holder
                             /\ b # delivery[d].block => new[b].visible = message[b].visible
        /\ new[delivery[d].block].visible = v
    BY <1>2, VisibleFacts
  <2>2. End(d, new)
    BY <1>4
  <2> HIDE DEF new
  <2>3. Holds(d) => new[delivery[d].block].holder \in {d, Nobody}
    BY <1>2, <2>1 DEF Holds
  <2>4. \A b \in Blocks : ~(Holds(d) /\ b = delivery[d].block) =>
           new[b].holder = message[b].holder /\ (new[b].visible => message[b].visible)
    BY <1>4, <2>1
  <2> QED
    BY <1>3, <2>1, <2>2, <2>3, <2>4
<1>5. message[delivery[d].block].visible \in BOOLEAN
  BY <1>2, MessageParts
<1>6. CASE PingLate(d)
  <2>1. PICK visible \in BOOLEAN :
           End(d, [message EXCEPT ![delivery[d].block].visible = IF Holds(d) THEN visible ELSE @])
    BY <1>6 DEF PingLate
  <2> DEFINE v == IF Holds(d) THEN visible ELSE message[delivery[d].block].visible
  <2>2. v \in BOOLEAN /\ End(d, [message EXCEPT ![delivery[d].block].visible = v])
    BY <1>2, <1>5, <2>1
  <2> QED
    BY <1>4, <2>2
<1>7. CASE TooLate(d)
  <2> DEFINE v == message[delivery[d].block].visible \/ Holds(d)
  <2>1. v \in BOOLEAN /\ End(d, [message EXCEPT ![delivery[d].block].visible = v])
    BY <1>2, <1>7 DEF TooLate
  <2>2. ~Holds(d) => v = message[delivery[d].block].visible
    BY <1>5
  <2> QED
    BY <1>4, <2>1, <2>2
<1>8. CASE Postpone(d)
  <2>1. End(d, Pinged(d))
    BY <1>8 DEF Postpone
  <2> QED
    BY <1>1, <1>2, <1>3, <2>1, PingedFacts DEF Holds
<1>9. CASE Prepared(d)
  <2>1. End(d, message)
    BY <1>9 DEF Prepared
  <2> QED
    BY <1>2, <1>3, <2>1 DEF Holds
<1>10. CASE Settle(d) /\ ~Again(d)
  <2>1. End(d, CompletedMessage(d))
    BY <1>10 DEF Settle
  <2>2. /\ CompletedMessage(d) \in [Blocks -> Message]
        /\ Holds(d) => CompletedMessage(d)[delivery[d].block].holder = Nobody
        /\ \A b \in Blocks : ~(Holds(d) /\ b = delivery[d].block) =>
              CompletedMessage(d)[b] = message[b]
    BY <1>1, CompletedFacts DEF NoMessage
  <2> QED
    BY <1>3, <2>1, <2>2
<1> QED
  BY <1>6, <1>7, <1>8, <1>9, <1>10

(* A delivery keeps its message, ...                                         *)
LEMMA HoldStep ==
  ASSUME IInv, HoldInv, [Next]_vars, faults' = 0
  PROVE  HoldInv'
<1> USE DEF sysVars, poolVars
<1>0. /\ TypeOK /\ PoolInv /\ HolderInv /\ MakingInv
  BY DEF IInv
<1>1. ASSUME \A d \in Deliveries : OnItsBlock(d)' =>
                /\ OnItsBlock(d) /\ delivery'[d].block = delivery[d].block
                /\ message'[delivery[d].block].holder = message[delivery[d].block].holder,
             \A b \in Blocks : message'[b].visible => message'[b].holder = Nobody
      PROVE  HoldInv'
  BY <1>1 DEF HoldInv, Holds
<1>2. ASSUME \A d \in Deliveries : OnItsBlock(d)' =>
                OnItsBlock(d) /\ delivery'[d].block = delivery[d].block,
             UNCHANGED message
      PROVE  HoldInv'
  BY <1>1, <1>2 DEF HoldInv
<1>3. \A d \in Deliveries : OnItsBlock(d) => delivery[d].block \in Blocks
  BY <1>0, Live DEF OnItsBlock, At
<1>4. ASSUME NEW t \in Makers, Activate(t) PROVE HoldInv'
  <2>1. /\ making[t].block \in Blocks /\ message'[making[t].block] = NewMessage
        /\ \A b \in Blocks \ {making[t].block} : message'[b] = message[b]
    BY <1>0, <1>4, ActivateFacts
  <2>2. delivery' = delivery /\ \A d \in Deliveries : OnItsBlock(d) => delivery[d].block # making[t].block
    BY <1>0, <1>4 DEF Activate, MakingInv
  <2>3. \A b \in Blocks : message'[b].visible => message'[b].holder = Nobody
    BY <2>1 DEF HoldInv, NewMessage
  <2> QED
    BY <1>1, <1>3, <2>1, <2>2, <2>3 DEF OnItsBlock
<1>5. ASSUME NEW s \in Servers, Take(s) PROVE HoldInv'
  <2>1. /\ Next1(s) \in Deliveries /\ delivery[Next1(s)] \in Delivery /\ OnItsBlock(Next1(s))
    BY <1>0, <1>5, QueueOf, Live DEF Take, At, OnItsBlock
  <2>2. delivery' = [delivery EXCEPT ![Next1(s)] = [delivery[Next1(s)] EXCEPT !.step = "ping"]]
    BY <1>5 DEF Take
  <2>3. /\ delivery'[Next1(s)].block = delivery[Next1(s)].block
        /\ \A e \in Deliveries \ {Next1(s)} : delivery'[e] = delivery[e]
    BY <1>0, <2>1, <2>2 DEF TypeOK, Delivery
  <2> QED
    BY <1>2, <1>5, <2>1, <2>3 DEF OnItsBlock, Take
<1>6. ASSUME NEW s \in Servers, NEW x \in Blocks, Dequeue(s, x) PROVE HoldInv'
  <2>1. PICK d \in Deliveries :
               /\ delivery'[d] = [step |-> "queued", block |-> x, server |-> s,
                                  rows |-> {}, locked |-> {}, merged |-> FALSE]
               /\ \A e \in Deliveries \ {d} : delivery'[e] = delivery[e]
               /\ message'[x].holder = d /\ ~message'[x].visible
    BY <1>0, <1>6, DequeueFacts
  <2>2. /\ \A b \in Blocks \ {x} : message'[b] = message[b]
        /\ message[x].visible
    BY <1>0, <1>6, DequeueFacts DEF Dequeue
  <2>3. \A e \in Deliveries : OnItsBlock(e) => delivery[e].block # x
    BY <2>2 DEF HoldInv, Holds
  <2>4. \A b \in Blocks : message'[b].visible => message'[b].holder = Nobody
    BY <2>1, <2>2 DEF HoldInv
  <2>5. ASSUME NEW e \in Deliveries \ {d}, OnItsBlock(e)' PROVE Holds(e)'
    BY <1>3, <2>1, <2>2, <2>3, <2>5 DEF HoldInv, Holds, OnItsBlock
  <2>6. Holds(d)'
    BY <2>1 DEF Holds
  <2> QED
    BY <2>4, <2>5, <2>6 DEF HoldInv
<1>7. ASSUME NEW d \in Deliveries, Ping(d) PROVE HoldInv'
  <2>1. GoesOn(d, "load", delivery[d].rows, delivery[d].locked, delivery[d].merged)
        /\ OnItsBlock(d)
    BY <1>0, <1>7, StepFacts DEF Ping, At, OnItsBlock
  <2>2. \A b \in Blocks : /\ message'[b].holder = message[b].holder
                          /\ message'[b].visible => message[b].visible
    BY <1>0, <1>7, PingedFacts DEF Ping, At
  <2>3. \A b \in Blocks : message'[b].visible => message'[b].holder = Nobody
    BY <2>2 DEF HoldInv
  <2> QED
    BY <1>1, <1>3, <2>1, <2>2, <2>3 DEF GoesOn, OnItsBlock
<1>8. ASSUME NEW d \in Deliveries,
             LoadData(d) \/ (\E r \in Rows : Merge(d, r) \/ Locked(d, r)) \/ Complete(d)
      PROVE  HoldInv'
  <2>1. OnItsBlock(d) /\ UNCHANGED message
    BY <1>8 DEF LoadData, Merge, Locked, Complete, At, OnItsBlock
  <2>2. /\ delivery'[d].block = delivery[d].block
        /\ \A e \in Deliveries \ {d} : delivery'[e] = delivery[e]
    BY <1>0, <1>8, StepFacts DEF GoesOn
  <2> QED
    BY <1>2, <2>1, <2>2 DEF OnItsBlock
<1>9. ASSUME NEW d \in Deliveries, Settle(d), Again(d) PROVE HoldInv'
  <2>1. GoesOn(d, "prepare", delivery[d].rows, delivery[d].locked, delivery[d].merged)
    BY <1>0, <1>9, StepFacts
  <2>2. OnItsBlock(d) /\ Holds(d) /\ ~At(d, "free") /\ message' = CompletedMessage(d)
    BY <1>9 DEF Settle, At, OnItsBlock, HoldInv
  <2>3. /\ message'[delivery[d].block] = NoMessage
        /\ \A b \in Blocks : b # delivery[d].block => message'[b] = message[b]
    BY <1>0, <2>2, CompletedFacts
  <2>4. \A e \in Deliveries \ {d} : OnItsBlock(e) => delivery[e].block # delivery[d].block
    BY <2>2 DEF HoldInv, Holds
  <2>5. \A b \in Blocks : message'[b].visible => message'[b].holder = Nobody
    BY <2>3 DEF HoldInv, NoMessage
  <2> QED
    BY <1>1, <1>3, <2>1, <2>3, <2>4, <2>5 DEF GoesOn, OnItsBlock
<1>10. ASSUME NEW d \in Deliveries,
              PingLate(d) \/ Postpone(d) \/ (Settle(d) /\ ~Again(d)) \/ Prepared(d) \/ TooLate(d)
       PROVE  HoldInv'
  <2>1. /\ Holds(d) => message'[delivery[d].block].holder = Nobody
        /\ \A b \in Blocks : ~(Holds(d) /\ b = delivery[d].block) =>
               /\ message'[b].holder = message[b].holder \/ message[b].holder = d
               /\ message'[b].visible => message[b].visible
    BY <1>0, <1>10, EndsFacts
  <2>2. \A e \in Deliveries \ {d} : delivery'[e] = delivery[e]
    BY <1>0, <1>10, Overs DEF Over, TypeOK
  <2>3. ~OnItsBlock(d)'
    BY <1>0, <1>10, Overs DEF Over, TypeOK, OnItsBlock, Free
  <2>4. \A e \in Deliveries \ {d} : OnItsBlock(e) =>
           message'[delivery[e].block].holder = message[delivery[e].block].holder
    BY <1>3, <2>1 DEF HoldInv, Holds
  <2>5. \A b \in Blocks : message'[b].holder \in {message[b].holder, Nobody}
    BY <1>0, <1>10, Overs DEF Over
  <2>6. \A b \in Blocks : message'[b].visible => message'[b].holder = Nobody
    BY <2>1, <2>5 DEF HoldInv
  <2> QED
    BY <1>1, <2>2, <2>3, <2>4, <2>6 DEF OnItsBlock
<1>11. ASSUME NEW d \in Deliveries, PrepareLocked(d) PROVE HoldInv'
  <2>1. GoesOn(d, "prepare", delivery[d].rows, {}, delivery[d].merged)
    BY <1>0, <1>11, StepFacts
  <2> QED
    BY <1>2, <1>11, <2>1 DEF PrepareLocked, GoesOn, OnItsBlock
<1>12. ASSUME NEW b \in Blocks, Drop(b) \/ Lapse(b) PROVE HoldInv'
  <2>1. delivery' = delivery
    BY <1>12 DEF Drop, Lapse
  <2>2. CASE Drop(b)
    <3>1. \A d \in Deliveries : OnItsBlock(d) => delivery[d].block # b
      BY <2>2 DEF Drop, HoldInv, Holds
    <3>2. \A x \in Blocks : x # b => message'[x] = message[x]
      BY <1>0, <2>2 DEF Drop, TypeOK
    <3>3. message'[b] = NoMessage
      BY <1>0, <2>2 DEF Drop, TypeOK
    <3>4. \A x \in Blocks : message'[x].visible => message'[x].holder = Nobody
      BY <3>2, <3>3 DEF HoldInv, NoMessage
    <3> QED
      BY <1>1, <1>3, <2>1, <3>1, <3>2, <3>4 DEF OnItsBlock
  <2>3. CASE Lapse(b)
    <3>0. message' = [message EXCEPT ![b].visible = TRUE] /\ message[b].holder = Nobody
      BY <2>3 DEF Lapse
    <3>1. \A x \in Blocks : /\ message'[x].holder = message[x].holder
                            /\ x # b => message'[x] = message[x]
      BY <1>0, <3>0, VisibleNext
    <3>2. \A x \in Blocks : message'[x].visible => message'[x].holder = Nobody
      BY <3>0, <3>1 DEF HoldInv
    <3> QED
      BY <1>1, <1>3, <2>1, <3>1, <3>2 DEF OnItsBlock
  <2> QED
    BY <1>12, <2>2, <2>3
<1>13. ASSUME UNCHANGED <<message, delivery>> PROVE HoldInv'
  BY <1>2, <1>13 DEF OnItsBlock
<1>14. ASSUME \/ \E q \in Requests : Write(q)
              \/ \E t \in Makers : InsertBlock(t)
              \/ \E j \in Jobs : JobStep(j) \/ (\E s \in Servers : DequeueBuffer(j, s))
              \/ \E s \in Servers : EnsureWorker(s) \/ LoopEnds(s) \/ OnWorkerCompleted(s)
              \/ BufferTimeout \/ UNCHANGED vars
       PROVE  HoldInv'
  <2>1. CASE \/ \E q \in Requests : Write(q)
             \/ \E t \in Makers : InsertBlock(t)
             \/ \E s \in Servers : EnsureWorker(s) \/ LoopEnds(s) \/ OnWorkerCompleted(s)
    BY <1>13, <2>1 DEF Write, InsertBlock, EnsureWorker, LoopEnds, OnWorkerCompleted
  <2>2. CASE \E j \in Jobs : JobStep(j) \/ (\E s \in Servers : DequeueBuffer(j, s))
    BY <1>13, <2>2 DEF JobStep, QueryData, CreateTransactions, ClearData, DequeueBuffer
  <2>3. CASE BufferTimeout \/ UNCHANGED vars
    BY <1>13, <2>3 DEF BufferTimeout, BufferLapses, vars
  <2> QED
    BY <1>14, <2>1, <2>2, <2>3
<1>15. ASSUME NEW d \in Deliveries, DeliveryStep(d) \/ WaitsTooLong(d) PROVE HoldInv'
  BY <1>7, <1>8, <1>9, <1>10, <1>11, <1>15 DEF DeliveryStep, WaitsTooLong
<1> QED
  BY <1>0, <1>4, <1>5, <1>6, <1>12, <1>14, <1>15, Faultless DEF Making, WorkerStep

(* ... and one job has the buffer.                                           *)
LEMMA OneJobStep ==
  ASSUME IInv, OneJobInv, [Next]_vars, faults' = 0
  PROVE  OneJobInv'
<1> USE DEF sysVars, poolVars
<1>0. TypeOK /\ BufferInv
  BY DEF IInv
<1>1. ASSUME UNCHANGED <<job, bufferVisible>>, buffer \subseteq buffer' PROVE OneJobInv'
  BY <1>1 DEF OneJobInv
<1>2. ASSUME NEW t \in Makers, NEW rows \in SUBSET Rows, Prepare(t, rows),
             UNCHANGED <<job, bufferVisible>>
      PROVE  OneJobInv'
  BY <1>0, <1>1, <1>2, PrepareFacts
<1>3. ASSUME NEW q \in Requests, Write(q) PROVE OneJobInv'
  <2>1. PICK rows \in arriving : Prepare(q, rows)
    BY <1>3 DEF Write
  <2>2. rows \in SUBSET Rows /\ q \in Makers
    BY <1>0, BatchesAssumption, MakersAre DEF TypeOK
  <2> QED
    BY <1>2, <1>3, <2>1, <2>2 DEF Write
<1>4. ASSUME NEW d \in Deliveries, PrepareLocked(d) PROVE OneJobInv'
  <2>1. d \in Makers /\ delivery[d].locked \in SUBSET Rows /\ Prepare(d, delivery[d].locked)
    BY <1>0, <1>4, MakersAre, Live DEF PrepareLocked, At
  <2> QED
    BY <1>2, <1>4, <2>1 DEF PrepareLocked
<1>5. ASSUME NEW j \in Jobs, QueryData(j) PROVE OneJobInv'
  <2>1. /\ job[j] # Idle /\ job'[j].chunks = buffer /\ job'[j].last = identity
        /\ \A k \in Jobs \ {j} : job'[k] = job[k]
    BY <1>0, <1>5, JobFacts
  <2>2. UNCHANGED <<buffer, bufferVisible>>
    BY <1>5 DEF QueryData
  <2>3. \A k \in Jobs \ {j} : job[k] = Idle
    BY <2>1 DEF OneJobInv
  <2>4. ~bufferVisible
    BY <2>1 DEF OneJobInv
  <2> QED
    BY <1>0, <2>1, <2>2, <2>3, <2>4, StepsApart DEF OneJobInv, BufferInv
<1>6. ASSUME NEW j \in Jobs, CreateTransactions(j) PROVE OneJobInv'
  <2>1. /\ job[j] # Idle /\ job'[j].last = job[j].last /\ job[j].step = "create"
        /\ job'[j].chunks \subseteq job[j].chunks
        /\ \A k \in Jobs \ {j} : job'[k] = job[k]
    BY <1>0, <1>6, JobFacts DEF CreateTransactions
  <2>2. UNCHANGED <<buffer, bufferVisible>>
    BY <1>6 DEF CreateTransactions
  <2>3. ~bufferVisible /\ \A k \in Jobs \ {j} : job[k] = Idle
    BY <2>1 DEF OneJobInv
  <2> QED
    BY <2>1, <2>2, <2>3, StepsApart DEF OneJobInv
<1>7. ASSUME NEW j \in Jobs, ClearData(j) PROVE OneJobInv'
  <2>1. job[j] # Idle /\ bufferVisible' = FALSE
    BY <1>7, StepsApart DEF ClearData
  <2>2. job'[j] = Idle /\ \A k \in Jobs \ {j} : job'[k] = job[k] /\ job[k] = Idle
    BY <1>0, <1>7, <2>1 DEF ClearData, TypeOK, OneJobInv
  <2> QED
    BY <2>1, <2>2, StepsApart DEF OneJobInv
<1>8. ASSUME NEW j \in Jobs, NEW s \in Servers, DequeueBuffer(j, s) PROVE OneJobInv'
  <2>1. bufferVisible' = FALSE /\ \A k \in Jobs : job[k] = Idle
    BY <1>8 DEF DequeueBuffer, OneJobInv
  <2>2. job'[j].step = "query" /\ \A k \in Jobs \ {j} : job'[k] = job[k]
    BY <1>0, <1>8 DEF DequeueBuffer, TypeOK
  <2> QED
    BY <2>1, <2>2, StepsApart DEF OneJobInv
<1>9. ASSUME BufferTimeout PROVE OneJobInv'
  BY <1>9, StepsApart DEF BufferTimeout, BufferLapses, OneJobInv
<1>10. ASSUME UNCHANGED <<job, buffer, bufferVisible>> PROVE OneJobInv'
  BY <1>1, <1>10
<1>11. ASSUME \/ \E t \in Makers : Making(t)
              \/ \E s \in Servers : EnsureWorker(s) \/ WorkerStep(s) \/ (\E b \in Blocks : Dequeue(s, b))
              \/ \E b \in Blocks : Drop(b) \/ Lapse(b)
              \/ UNCHANGED vars
       PROVE  OneJobInv'
  <2>1. CASE \E t \in Makers : Making(t)
    BY <1>10, <2>1 DEF Making, InsertBlock, Activate
  <2>2. CASE \E s \in Servers : EnsureWorker(s) \/ WorkerStep(s) \/ (\E b \in Blocks : Dequeue(s, b))
    BY <1>10, <2>2 DEF EnsureWorker, WorkerStep, Take, LoopEnds, OnWorkerCompleted, Dequeue
  <2>3. CASE (\E b \in Blocks : Drop(b) \/ Lapse(b)) \/ UNCHANGED vars
    BY <1>10, <2>3 DEF Drop, Lapse, vars
  <2> QED
    BY <1>11, <2>1, <2>2, <2>3
<1>12. ASSUME NEW d \in Deliveries, DeliveryStep(d) \/ WaitsTooLong(d) PROVE OneJobInv'
  <2>1. CASE Ping(d) \/ PingLate(d) \/ LoadData(d) \/ (\E r \in Rows : Merge(d, r) \/ Locked(d, r))
    BY <1>10, <2>1 DEF Ping, PingLate, LoadData, Merge, Locked
  <2>2. CASE Postpone(d) \/ Complete(d) \/ Settle(d) \/ Prepared(d) \/ WaitsTooLong(d)
    BY <1>10, <2>2 DEF Postpone, Complete, Settle, Prepared, WaitsTooLong, TooLate
  <2> QED
    BY <1>4, <1>12, <2>1, <2>2 DEF DeliveryStep
<1> QED
  BY <1>0, <1>3, <1>5, <1>6, <1>7, <1>8, <1>9, <1>11, <1>12, Faultless DEF JobStep

(* What a delivery has not merged yet is all that is left of its block.      *)
LEMMA MergedStep ==
  ASSUME IInv, MergedInv, [Next]_vars, faults' = 0
  PROVE  MergedInv'
<1> USE DEF sysVars, poolVars
<1>0. TypeOK /\ PoolInv /\ HolderInv
  BY DEF IInv
<1> DEFINE Early == {"queued", "ping", "load"}
<1>1. ASSUME \A d \in Deliveries : delivery'[d].step \in Early \cup {"merge"} =>
                delivery'[d] = delivery[d],
             \A d \in Deliveries : At(d, "merge") =>
                block'[delivery[d].block].rows \subseteq block[delivery[d].block].rows
      PROVE  MergedInv'
  <2>1. ASSUME NEW d \in Deliveries, delivery'[d].step \in Early
        PROVE  ~delivery'[d].merged /\ delivery'[d].locked = {}
    BY <1>1, <2>1 DEF MergedInv
  <2>2. ASSUME NEW d \in Deliveries, At(d, "merge")'
        PROVE  /\ delivery'[d].rows \cap delivery'[d].locked = {}
               /\ ~delivery'[d].merged =>
                     block'[delivery'[d].block].rows \subseteq delivery'[d].rows \cup delivery'[d].locked
    <3>1. delivery'[d] = delivery[d] /\ At(d, "merge")
      BY <1>1, <2>2 DEF At
    <3> QED
      BY <1>1, <3>1 DEF MergedInv
  <2> QED
    BY <2>1, <2>2 DEF MergedInv
<1>2. ASSUME block' = block, NEW d \in Deliveries,
             \A e \in Deliveries \ {d} : delivery'[e] = delivery[e],
             delivery'[d].step \in Early => ~delivery'[d].merged /\ delivery'[d].locked = {},
             At(d, "merge")' =>
                /\ delivery'[d].rows \cap delivery'[d].locked = {}
                /\ ~delivery'[d].merged =>
                      block[delivery'[d].block].rows \subseteq delivery'[d].rows \cup delivery'[d].locked
      PROVE  MergedInv'
  <2>1. ASSUME NEW e \in Deliveries, delivery'[e].step \in Early
        PROVE  ~delivery'[e].merged /\ delivery'[e].locked = {}
    BY <1>2, <2>1 DEF MergedInv
  <2>2. ASSUME NEW e \in Deliveries, At(e, "merge")'
        PROVE  /\ delivery'[e].rows \cap delivery'[e].locked = {}
               /\ ~delivery'[e].merged =>
                     block[delivery'[e].block].rows \subseteq delivery'[e].rows \cup delivery'[e].locked
    BY <1>2, <2>2 DEF MergedInv, At
  <2> QED
    BY <1>2, <2>1, <2>2 DEF MergedInv
<1>3. \A d \in Deliveries : ~At(d, "free") => delivery[d].block \in Blocks
  BY <1>0, Live
<1>4. ASSUME NEW t \in Makers, InsertBlock(t) PROVE MergedInv'
  <2>1. PICK b \in Blocks : Fresh(b) /\ \A x \in Blocks \ {b} : block'[x] = block[x]
    BY <1>0, <1>4, InsertFacts
  <2>2. delivery' = delivery
    BY <1>4 DEF InsertBlock
  <2>3. \A d \in Deliveries : At(d, "merge") => delivery[d].block \in Blocks \ {b}
    BY <1>3, <2>1 DEF Fresh, At
  <2> QED
    BY <1>1, <2>1, <2>2, <2>3
<1>5. ASSUME NEW s \in Servers, Take(s) PROVE MergedInv'
  <2> PICK d : d = Next1(s)
    OBVIOUS
  <2>1. d \in Deliveries /\ delivery[d] \in Delivery /\ At(d, "queued")
    BY <1>0, <1>5, QueueOf, Live DEF Take, At
  <2>2. delivery' = [delivery EXCEPT ![d] = [delivery[d] EXCEPT !.step = "ping"]] /\ block' = block
    BY <1>5 DEF Take
  <2>3. /\ delivery'[d].locked = delivery[d].locked /\ delivery'[d].merged = delivery[d].merged
        /\ delivery'[d].step = "ping"
        /\ \A e \in Deliveries \ {d} : delivery'[e] = delivery[e]
    BY <1>0, <2>1, <2>2 DEF TypeOK, Delivery
  <2>4. ~delivery[d].merged /\ delivery[d].locked = {}
    BY <2>1 DEF MergedInv, At
  <2>5. block' = block /\ ~At(d, "merge")'
    BY <2>2, <2>3 DEF At
  <2> QED
    BY <1>2, <2>1, <2>3, <2>4, <2>5
<1>6. ASSUME NEW s \in Servers, NEW x \in Blocks, Dequeue(s, x) PROVE MergedInv'
  <2>1. PICK d \in Deliveries :
               /\ delivery'[d] = [step |-> "queued", block |-> x, server |-> s,
                                  rows |-> {}, locked |-> {}, merged |-> FALSE]
               /\ \A e \in Deliveries \ {d} : delivery'[e] = delivery[e]
    BY <1>0, <1>6, DequeueFacts
  <2>2. block' = block
    BY <1>6 DEF Dequeue
  <2> QED
    BY <1>2, <2>1, <2>2 DEF At
<1>7. ASSUME NEW d \in Deliveries, Ping(d) PROVE MergedInv'
  <2>1. GoesOn(d, "load", delivery[d].rows, delivery[d].locked, delivery[d].merged)
    BY <1>0, <1>7, StepFacts
  <2>2. block' = block /\ ~delivery[d].merged /\ delivery[d].locked = {}
    BY <1>7 DEF Ping, At, MergedInv
  <2> QED
    BY <1>2, <2>1, <2>2 DEF GoesOn, At
<1>8. ASSUME NEW d \in Deliveries, LoadData(d) PROVE MergedInv'
  <2>1. GoesOn(d, "merge", block[delivery[d].block].rows, delivery[d].locked, delivery[d].merged)
    BY <1>0, <1>8, StepFacts
  <2>2. block' = block /\ delivery[d].locked = {}
    BY <1>8 DEF LoadData, At, MergedInv
  <2> QED
    BY <1>2, <2>1, <2>2 DEF GoesOn, At
<1>9. ASSUME NEW d \in Deliveries, NEW r \in Rows, Merge(d, r) PROVE MergedInv'
  <2>1. GoesOn(d, "merge", delivery[d].rows \ {r}, delivery[d].locked, TRUE)
    BY <1>0, <1>9, StepFacts
  <2>2. block' = block /\ delivery[d].rows \cap delivery[d].locked = {}
    BY <1>9 DEF Merge, At, MergedInv
  <2> QED
    BY <1>2, <2>1, <2>2 DEF GoesOn, At
<1>10. ASSUME NEW d \in Deliveries, NEW r \in Rows, Locked(d, r) PROVE MergedInv'
  <2>1. GoesOn(d, "merge", delivery[d].rows \ {r}, delivery[d].locked \cup {r}, delivery[d].merged)
    BY <1>0, <1>10, StepFacts
  <2>2. /\ block' = block /\ delivery[d].rows \cap delivery[d].locked = {}
        /\ ~delivery[d].merged =>
              block[delivery[d].block].rows \subseteq delivery[d].rows \cup delivery[d].locked
    BY <1>10 DEF Locked, At, MergedInv
  <2> QED
    BY <1>2, <2>1, <2>2 DEF GoesOn, At
<1>11. ASSUME NEW d \in Deliveries, Complete(d) PROVE MergedInv'
  <2>1. GoesOn(d, "settle", delivery[d].rows, delivery[d].locked, delivery[d].merged)
    BY <1>0, <1>11, StepFacts
  <2>2. ~At(d, "free") /\ block' = DeleteBlob(d)
    BY <1>11 DEF Complete, At
  <2>3. \A b \in Blocks : block'[b].rows \subseteq block[b].rows
    BY <1>0, <2>2, DeleteBlobFacts
  <2>4. \A e \in Deliveries : At(e, "merge") => delivery[e].block \in Blocks
    BY <1>3 DEF At
  <2> QED
    BY <1>1, <2>1, <2>3, <2>4 DEF GoesOn
<1>12. ASSUME NEW d \in Deliveries, Settle(d) PROVE MergedInv'
  <2>1. ~At(d, "free") /\ block' = CompletedBlock(d)
    BY <1>12 DEF Settle, At
  <2>2. \A b \in Blocks : block'[b].rows \subseteq block[b].rows
    BY <1>0, <2>1, CompletedFacts
  <2>3. \A e \in Deliveries : At(e, "merge") => delivery[e].block \in Blocks
    BY <1>3 DEF At
  <2>4. /\ delivery'[d].step \notin Early \cup {"merge"}
        /\ \A e \in Deliveries \ {d} : delivery'[e] = delivery[e]
    <3>1. CASE Again(d)
      BY <1>0, <1>12, <3>1, StepFacts DEF GoesOn
    <3>2. CASE ~Again(d)
      BY <1>0, <1>12, <3>2, Overs DEF Over, Free, TypeOK
    <3> QED
      BY <3>1, <3>2
  <2> QED
    BY <1>1, <2>2, <2>3, <2>4
<1>13. ASSUME NEW d \in Deliveries, PingLate(d) \/ Postpone(d) \/ Prepared(d) \/ TooLate(d)
       PROVE  MergedInv'
  <2>1. /\ delivery'[d].step = "free" /\ \A e \in Deliveries \ {d} : delivery'[e] = delivery[e]
    BY <1>0, <1>13, Overs DEF Over, Free, TypeOK
  <2>2. block' = block
    BY <1>13 DEF PingLate, Postpone, Prepared, TooLate
  <2> QED
    BY <1>2, <2>1, <2>2 DEF At
<1>14. ASSUME NEW d \in Deliveries, PrepareLocked(d) PROVE MergedInv'
  <2>1. GoesOn(d, "prepare", delivery[d].rows, {}, delivery[d].merged)
    BY <1>0, <1>14, StepFacts
  <2>2. block' = block
    BY <1>14 DEF PrepareLocked
  <2> QED
    BY <1>2, <2>1, <2>2 DEF GoesOn, At
<1>15. ASSUME UNCHANGED <<delivery, block>> PROVE MergedInv'
  BY <1>1, <1>15
<1>16. ASSUME \/ \E q \in Requests : Write(q)
              \/ \E t \in Makers : Activate(t)
              \/ \E j \in Jobs : JobStep(j) \/ (\E s \in Servers : DequeueBuffer(j, s))
              \/ \E s \in Servers : EnsureWorker(s) \/ LoopEnds(s) \/ OnWorkerCompleted(s)
              \/ \E b \in Blocks : Drop(b) \/ Lapse(b)
              \/ BufferTimeout \/ UNCHANGED vars
       PROVE  MergedInv'
  <2>1. CASE \/ \E q \in Requests : Write(q)
             \/ \E t \in Makers : Activate(t)
             \/ \E s \in Servers : EnsureWorker(s) \/ LoopEnds(s) \/ OnWorkerCompleted(s)
    BY <1>15, <2>1 DEF Write, Activate, EnsureWorker, LoopEnds, OnWorkerCompleted
  <2>2. CASE \E j \in Jobs : JobStep(j) \/ (\E s \in Servers : DequeueBuffer(j, s))
    BY <1>15, <2>2 DEF JobStep, QueryData, CreateTransactions, ClearData, DequeueBuffer
  <2>3. CASE (\E b \in Blocks : Drop(b) \/ Lapse(b)) \/ BufferTimeout \/ UNCHANGED vars
    BY <1>15, <2>3 DEF Drop, Lapse, BufferTimeout, BufferLapses, vars
  <2> QED
    BY <1>16, <2>1, <2>2, <2>3
<1>17. ASSUME NEW d \in Deliveries, DeliveryStep(d) \/ WaitsTooLong(d) PROVE MergedInv'
  BY <1>7, <1>8, <1>9, <1>10, <1>11, <1>12, <1>13, <1>14, <1>17 DEF DeliveryStep, WaitsTooLong
<1> QED
  BY <1>0, <1>4, <1>5, <1>6, <1>16, <1>17, Faultless DEF Making, WorkerStep

(* Where a row is that will still be merged.                                 *)
LEMMA MergingIs ==
  ASSUME NEW d, NEW r
  PROVE  /\ r \in Merging(d) <=>
               \/ At(d, "merge") /\ r \in delivery[d].rows \cup delivery[d].locked
               \/ delivery[d].step \in {"settle", "prepare"} /\ r \in delivery[d].locked
         /\ r \in Merging(d)' <=>
               \/ At(d, "merge")' /\ r \in delivery'[d].rows \cup delivery'[d].locked
               \/ delivery'[d].step \in {"settle", "prepare"} /\ r \in delivery'[d].locked
BY DEF Merging, InHand, At

LEMMA UnmergedIs ==
  ASSUME NEW b, NEW r
  PROVE  /\ r \in Unmerged(b) <=>
               /\ message[b].queued /\ r \in block[b].rows
               /\ \A d \in Deliveries : At(d, "merge") => delivery[d].block # b
         /\ r \in Unmerged(b)' <=>
               /\ message'[b].queued /\ r \in block'[b].rows
               /\ \A d \in Deliveries : At(d, "merge")' => delivery'[d].block # b
BY DEF Unmerged, At

LEMMA PlacesAre ==
  ASSUME NEW r
  PROVE  /\ \A p : p \in Places(r) <=>
               \/ \E x \in arriving : r \in x /\ p = <<"batch", x>>
               \/ \E c \in buffer : Uncleared(c) /\ r \in c.rows /\ p = <<"chunk", c>>
               \/ \E t \in Makers : r \in making[t].rows /\ p = <<"maker", t>>
               \/ \E b \in Blocks : r \in Unmerged(b) /\ p = <<"block", b>>
               \/ \E d \in Deliveries : r \in Merging(d) /\ p = <<"delivery", d>>
         /\ \A p : p \in Places(r)' <=>
               \/ \E x \in arriving' : r \in x /\ p = <<"batch", x>>
               \/ \E c \in buffer' : Uncleared(c)' /\ r \in c.rows /\ p = <<"chunk", c>>
               \/ \E t \in Makers : r \in making'[t].rows /\ p = <<"maker", t>>
               \/ \E b \in Blocks : r \in Unmerged(b)' /\ p = <<"block", b>>
               \/ \E d \in Deliveries : r \in Merging(d)' /\ p = <<"delivery", d>>
BY DEF Places

(* It stays where it is, or is nowhere any more, ...                         *)
LEMMA Stay ==
  ASSUME NEW r, Once(r), stored'[r] = stored[r],
         \A x \in arriving' : r \in x => x \in arriving,
         \A c \in buffer' : Uncleared(c)' /\ r \in c.rows => c \in buffer /\ Uncleared(c),
         \A t \in Makers : r \in making'[t].rows => r \in making[t].rows,
         \A b \in Blocks : r \in Unmerged(b)' => r \in Unmerged(b),
         \A d \in Deliveries : r \in Merging(d)' => r \in Merging(d)
  PROVE  Once(r)'
<1>1. Places(r)' \subseteq Places(r)
  BY PlacesAre
<1> QED
  BY <1>1 DEF Once

(* ... or goes from p to q.                                                  *)
LEMMA Move ==
  ASSUME NEW r, Once(r), stored'[r] = stored[r], NEW p \in Places(r), NEW q,
         \A x \in arriving' : r \in x => <<"batch", x>> # p /\ x \in arriving,
         \A c \in buffer' : Uncleared(c)' /\ r \in c.rows =>
            <<"chunk", c>> = q \/ (<<"chunk", c>> # p /\ c \in buffer /\ Uncleared(c)),
         \A t \in Makers : r \in making'[t].rows =>
            <<"maker", t>> = q \/ (<<"maker", t>> # p /\ r \in making[t].rows),
         \A b \in Blocks : r \in Unmerged(b)' =>
            <<"block", b>> = q \/ (<<"block", b>> # p /\ r \in Unmerged(b)),
         \A d \in Deliveries : r \in Merging(d)' =>
            <<"delivery", d>> = q \/ (<<"delivery", d>> # p /\ r \in Merging(d))
  PROVE  Once(r)'
<1>1. \A x \in Places(r)' : x = q \/ (x # p /\ x \in Places(r))
  BY PlacesAre
<1>2. stored[r] # 1 /\ stored[r] <= 1 /\ \A x \in Places(r) : x = p
  BY DEF Once
<1> QED
  BY <1>1, <1>2 DEF Once

(* What Prepare does to the places of a row: one more, for what it is given. *)
LEMMA PrepareMoves ==
  ASSUME TypeOK, NEW t \in Makers, NEW rows \in SUBSET Rows, Prepare(t, rows), job' = job
  PROVE  \E q :
            /\ \A c \in buffer' : (c \in buffer /\ (Uncleared(c)' => Uncleared(c)))
                                     \/ (c.rows = rows /\ <<"chunk", c>> = q)
            /\ \A u \in Makers : making'[u].rows = making[u].rows
                                     \/ (making'[u].rows = rows /\ <<"maker", u>> = q)
<1>1. \A c : Uncleared(c)' => Uncleared(c)
  BY DEF Uncleared
<1>2. /\ \A u \in Makers \ {t} : making'[u] = making[u]
      /\ \/ /\ making' = making
            /\ buffer' = buffer \cup {[id |-> identity + 1, rows |-> rows]}
         \/ making'[t].rows = rows /\ buffer' = buffer
  BY PrepareFacts
<1>3. CASE making' = making /\ buffer' = buffer \cup {[id |-> identity + 1, rows |-> rows]}
  <2>1. \A c \in buffer' : c \in buffer \/ (c = [id |-> identity + 1, rows |-> rows] /\ c.rows = rows)
    BY <1>3
  <2> QED
    BY <1>1, <1>3, <2>1
<1>4. CASE making'[t].rows = rows /\ buffer' = buffer
  BY <1>1, <1>2, <1>4
<1> QED
  BY <1>2, <1>3, <1>4

(* A row that will still be merged is in one place only.                     *)
LEMMA OnceStep ==
  ASSUME IInv, HoldInv, OneJobInv, MergedInv, [Next]_vars, faults' = 0, NEW r \in Rows, Once(r)
  PROVE  Once(r)'
<1> USE DEF sysVars, poolVars
<1>0. /\ TypeOK /\ PoolInv /\ HolderInv /\ MakingInv /\ MakersInv /\ BlockInv /\ BufferInv
  BY DEF IInv
<1>f. faults = 0
  BY <1>0, Faultless
<1>1. \A d \in Deliveries : ~At(d, "free") => delivery[d].block \in Blocks
  BY <1>0, Live
<1>2. ASSUME UNCHANGED <<arriving, buffer, job, making, stored>>,
             \A b \in Blocks : r \in Unmerged(b)' => r \in Unmerged(b),
             \A d \in Deliveries : r \in Merging(d)' => r \in Merging(d)
      PROVE  Once(r)'
  <2>1. \A c : Uncleared(c)' => Uncleared(c)
    BY <1>2 DEF Uncleared
  <2> QED
    BY <1>2, <2>1, Stay
<1>3. ASSUME UNCHANGED <<arriving, buffer, job, making, stored>>,
             \A b \in Blocks : /\ message'[b].queued => message[b].queued
                               /\ block'[b].rows \subseteq block[b].rows,
             \A d \in Deliveries : r \in Merging(d)' => r \in Merging(d),
             \A d \in Deliveries : At(d, "merge") =>
                \/ At(d, "merge")' /\ delivery'[d].block = delivery[d].block
                \/ block'[delivery[d].block].rows = {}
      PROVE  Once(r)'
  <2>1. ASSUME NEW b \in Blocks, r \in Unmerged(b)' PROVE r \in Unmerged(b)
    <3>1. /\ message'[b].queued /\ r \in block'[b].rows
          /\ \A d \in Deliveries : At(d, "merge")' => delivery'[d].block # b
      BY <2>1, UnmergedIs
    <3>2. \A d \in Deliveries : At(d, "merge") => delivery[d].block # b
      BY <1>3, <3>1
    <3> QED
      BY <1>3, <3>1, <3>2, UnmergedIs
  <2> QED
    BY <1>2, <1>3, <2>1
<1>4. ASSUME UNCHANGED <<arriving, buffer, job, making, stored, block>>,
             \A b \in Blocks : message'[b].queued => message[b].queued,
             \A d \in Deliveries : \/ delivery'[d] = delivery[d]
                                   \/ ~At(d, "merge") /\ r \notin Merging(d)'
      PROVE  Once(r)'
  <2>1. \A d \in Deliveries : At(d, "merge") => At(d, "merge")' /\ delivery'[d].block = delivery[d].block
    BY <1>4 DEF At
  <2>2. \A d \in Deliveries : r \in Merging(d)' => r \in Merging(d)
    BY <1>4, MergingIs DEF At
  <2> QED
    BY <1>3, <1>4, <2>1, <2>2
<1>5. ASSUME NEW q \in Requests, Write(q) PROVE Once(r)'
  <2>1. PICK rows \in arriving : arriving' = arriving \ {rows} /\ Prepare(q, rows)
    BY <1>5 DEF Write
  <2>2. rows \in SUBSET Rows /\ q \in Makers /\ UNCHANGED <<job, message, block, delivery, stored>>
    BY <1>0, <1>5, <2>1, BatchesAssumption, MakersAre DEF TypeOK, Write
  <2>3. PICK p : /\ \A c \in buffer' : (c \in buffer /\ (Uncleared(c)' => Uncleared(c)))
                                          \/ (c.rows = rows /\ <<"chunk", c>> = p)
                 /\ \A u \in Makers : making'[u].rows = making[u].rows
                                          \/ (making'[u].rows = rows /\ <<"maker", u>> = p)
    BY <1>0, <2>1, <2>2, PrepareMoves
  <2>4. \A b \in Blocks : r \in Unmerged(b)' => r \in Unmerged(b)
    BY <2>2, UnmergedIs DEF At
  <2>5. \A d \in Deliveries : r \in Merging(d)' => r \in Merging(d)
    BY <2>2, MergingIs DEF At
  <2>6. CASE r \notin rows
    BY <2>1, <2>2, <2>3, <2>4, <2>5, <2>6, Stay
  <2>7. CASE r \in rows
    <3>1. <<"batch", rows>> \in Places(r)
      BY <2>1, <2>7, PlacesAre
    <3>2. \A x \in arriving' : <<"batch", x>> # <<"batch", rows>> /\ x \in arriving
      BY <2>1
    <3> QED
      BY <2>2, <2>3, <2>4, <2>5, <3>1, <3>2, Move
  <2> QED
    BY <2>6, <2>7
<1>6. ASSUME NEW t \in Makers, InsertBlock(t) PROVE Once(r)'
  <2>1. PICK b \in Blocks : Fresh(b) /\ \A x \in Blocks \ {b} : block'[x] = block[x]
    BY <1>0, <1>6, InsertFacts
  <2>2. UNCHANGED <<arriving, buffer, job, message, delivery, stored>>
    BY <1>6 DEF InsertBlock
  <2>3. \A u \in Makers : making'[u].rows = making[u].rows
    BY <1>0, <1>6, InsertFacts
  <2>4. ~message[b].queued
    BY <2>1 DEF Fresh
  <2>5. ASSUME NEW x \in Blocks, r \in Unmerged(x)' PROVE r \in Unmerged(x)
    BY <2>1, <2>2, <2>4, <2>5, UnmergedIs DEF At
  <2>6. \A d \in Deliveries : r \in Merging(d)' => r \in Merging(d)
    BY <2>2, MergingIs DEF At
  <2>7. \A c : Uncleared(c)' => Uncleared(c)
    BY <2>2 DEF Uncleared
  <2> QED
    BY <2>2, <2>3, <2>5, <2>6, <2>7, Stay
<1>7. ASSUME NEW t \in Makers, Activate(t) PROVE Once(r)'
  <2>1. PICK b \in Blocks : b = making[t].block
    BY <1>0, <1>7, ActivateFacts
  <2>2. /\ making'[t] = Nothing /\ \A u \in Makers \ {t} : making'[u] = making[u]
        /\ \A x \in Blocks \ {b} : message'[x] = message[x]
    BY <1>0, <1>7, <2>1, ActivateFacts
  <2>3. UNCHANGED <<arriving, buffer, job, block, delivery, stored>>
    BY <1>7 DEF Activate
  <2>4. block[b].rows = making[t].rows
    <3>1. making[t].block # NoBlock
      BY <1>7 DEF Activate
    <3>2. block[making[t].block] = [exists |-> TRUE, rows |-> making[t].rows]
      BY <1>0, <3>1 DEF MakingInv
    <3> QED
      BY <2>1, <3>2
  <2>5. ASSUME NEW x \in Blocks, x # b, r \in Unmerged(x)' PROVE r \in Unmerged(x)
    BY <2>2, <2>3, <2>5, UnmergedIs DEF At
  <2>6. \A d \in Deliveries : r \in Merging(d)' => r \in Merging(d)
    BY <2>3, MergingIs DEF At
  <2>7. \A c : Uncleared(c)' => Uncleared(c)
    BY <2>3 DEF Uncleared
  <2>8. \A u \in Makers : r \in making'[u].rows => u # t /\ r \in making[u].rows
    BY <2>2, NothingIsRecord
  <2>9. CASE r \notin making[t].rows
    <3>1. r \notin Unmerged(b)'
      BY <2>3, <2>4, <2>9, UnmergedIs
    <3> QED
      BY <2>3, <2>5, <2>6, <2>7, <2>8, <3>1, Stay
  <2>10. CASE r \in making[t].rows
    <3>1. <<"maker", t>> \in Places(r)
      BY <2>10, PlacesAre
    <3> DEFINE q == <<"block", b>>
    <3>2. \A x \in Blocks : r \in Unmerged(x)' => <<"block", x>> = q \/ r \in Unmerged(x)
      BY <2>5
    <3>3. /\ \A x : <<"batch", x>> # <<"maker", t>> /\ <<"chunk", x>> # <<"maker", t>>
                    /\ <<"block", x>> # <<"maker", t>> /\ <<"delivery", x>> # <<"maker", t>>
          /\ \A u \in Makers : u # t => <<"maker", u>> # <<"maker", t>>
      OBVIOUS
    <3> HIDE DEF q
    <3> QED
      BY <2>3, <2>6, <2>7, <2>8, <3>1, <3>2, <3>3, Move
  <2> QED
    BY <2>9, <2>10

<1>8. ASSUME NEW j \in Jobs, QueryData(j) \/ ClearData(j) \/ (\E s \in Servers : DequeueBuffer(j, s))
      PROVE  Once(r)'
  <2>1. UNCHANGED <<arriving, making, block, message, delivery, stored>>
    BY <1>8 DEF QueryData, ClearData, DequeueBuffer
  <2>2. \A k \in Jobs \ {j} : job'[k] = job[k]
    BY <1>0, <1>8, JobFacts DEF ClearData, DequeueBuffer, TypeOK
  <2>3. /\ \A c \in buffer' : c \in buffer
        /\ job[j].step = "create" => \A c \in buffer' : c.id > job[j].last
    BY <1>8, StepsApart DEF QueryData, ClearData, Kept, DequeueBuffer
  <2>4. \A c \in buffer' : Uncleared(c)' => Uncleared(c)
    BY <2>2, <2>3 DEF Uncleared
  <2>5. \A b \in Blocks : r \in Unmerged(b)' => r \in Unmerged(b)
    BY <2>1, UnmergedIs DEF At
  <2>6. \A d \in Deliveries : r \in Merging(d)' => r \in Merging(d)
    BY <2>1, MergingIs DEF At
  <2> QED
    BY <2>1, <2>3, <2>4, <2>5, <2>6, Stay
<1>9. ASSUME NEW j \in Jobs, CreateTransactions(j) PROVE Once(r)'
  <2>1. PICK c \in job[j].chunks : job'[j].chunks = job[j].chunks \ {c} /\ making'[j].rows = c.rows
    BY <1>0, <1>9, JobFacts
  <2>2. /\ \A k \in Jobs \ {j} : job'[k] = job[k]
        /\ \A t \in Makers \ {j} : making'[t] = making[t]
        /\ job[j] # Idle /\ job'[j].last = job[j].last /\ job'[j].step = "create"
    BY <1>0, <1>9, JobFacts
  <2>3. UNCHANGED <<arriving, buffer, block, message, delivery, stored>> /\ job[j].step = "create"
    BY <1>9 DEF CreateTransactions
  <2>4. \A k \in Jobs \ {j} : job[k].step # "create"
    BY <2>2, StepsApart DEF OneJobInv
  <2>5. c \in buffer /\ c.id <= job[j].last
    BY <2>1, <2>3 DEF OneJobInv
  <2>6. c \in Chunk /\ job[j].last \in Nat
    BY <1>0, <2>2, <2>5, Busy DEF TypeOK
  <2>7. Uncleared(c)
    BY <2>1, <2>4 DEF Uncleared
  <2>8. ~Uncleared(c)'
    <3>1. ~(c.id > job[j].last)
      BY <2>5, <2>6 DEF Chunk
    <3> QED
      BY <2>1, <2>2, <3>1 DEF Uncleared
  <2>9. \A e : Uncleared(e)' => Uncleared(e)
    BY <2>1, <2>2 DEF Uncleared
  <2>10. \A b \in Blocks : r \in Unmerged(b)' => r \in Unmerged(b)
    BY <2>3, UnmergedIs DEF At
  <2>11. \A d \in Deliveries : r \in Merging(d)' => r \in Merging(d)
    BY <2>3, MergingIs DEF At
  <2>12. CASE r \notin c.rows
    <3>1. \A t \in Makers : r \in making'[t].rows => r \in making[t].rows
      BY <2>1, <2>2, <2>12
    <3> QED
      BY <2>3, <2>9, <2>10, <2>11, <3>1, Stay
  <2>13. CASE r \in c.rows
    <3>1. <<"chunk", c>> \in Places(r)
      BY <2>5, <2>7, <2>13, PlacesAre
    <3> DEFINE q == <<"maker", j>>
    <3>2. \A t \in Makers : r \in making'[t].rows => <<"maker", t>> = q \/ r \in making[t].rows
      BY <2>2
    <3>3. \A e \in buffer' : Uncleared(e)' => <<"chunk", e>> # <<"chunk", c>>
      BY <2>8
    <3>4. \A x : <<"batch", x>> # <<"chunk", c>> /\ <<"maker", x>> # <<"chunk", c>>
                 /\ <<"block", x>> # <<"chunk", c>> /\ <<"delivery", x>> # <<"chunk", c>>
      OBVIOUS
    <3> HIDE DEF q
    <3> QED
      BY <2>3, <2>9, <2>10, <2>11, <3>1, <3>2, <3>3, <3>4, Move
  <2> QED
    BY <2>12, <2>13
<1>10. ASSUME NEW s \in Servers, NEW b \in Blocks, Dequeue(s, b) PROVE Once(r)'
  <2>0. PICK d \in Deliveries :
               /\ delivery[d] = Free
               /\ delivery'[d] = [step |-> "queued", block |-> b, server |-> s,
                                  rows |-> {}, locked |-> {}, merged |-> FALSE]
               /\ \A e \in Deliveries \ {d} : delivery'[e] = delivery[e]
    BY <1>0, <1>10, DequeueFacts
  <2>1. /\ delivery[d] = Free /\ delivery'[d].step = "queued"
        /\ \A e \in Deliveries \ {d} : delivery'[e] = delivery[e]
    BY <2>0
  <2>2. \A x \in Blocks : message'[x].queued => message[x].queued
    BY <1>0, <1>10, DequeueFacts DEF Dequeue
  <2>3. UNCHANGED <<arriving, buffer, job, making, stored, block>>
    BY <1>10 DEF Dequeue
  <2>4. ~At(d, "merge") /\ r \notin Merging(d)'
    BY <2>1, MergingIs DEF Free, At
  <2> QED
    BY <1>4, <2>1, <2>2, <2>3, <2>4
<1>11. ASSUME NEW s \in Servers, Take(s) PROVE Once(r)'
  <2>1. /\ Next1(s) \in Deliveries /\ delivery[Next1(s)] \in Delivery /\ At(Next1(s), "queued")
    BY <1>0, <1>11, QueueOf, Live DEF Take, At
  <2>2. delivery' = [delivery EXCEPT ![Next1(s)] = [delivery[Next1(s)] EXCEPT !.step = "ping"]]
    BY <1>11 DEF Take
  <2>3. /\ delivery'[Next1(s)].step = "ping"
        /\ \A e \in Deliveries \ {Next1(s)} : delivery'[e] = delivery[e]
    BY <1>0, <2>1, <2>2 DEF TypeOK, Delivery
  <2>4. PICK d \in Deliveries : d = Next1(s)
    BY <2>1
  <2>5. ~At(d, "merge") /\ r \notin Merging(d)'
    BY <2>1, <2>3, <2>4, MergingIs DEF At
  <2>6. UNCHANGED <<arriving, buffer, job, making, stored, block, message>>
    BY <1>11 DEF Take
  <2> QED
    BY <1>4, <2>3, <2>4, <2>5, <2>6
<1>12. ASSUME NEW b \in Blocks, Drop(b) \/ Lapse(b) PROVE Once(r)'
  <2>1. UNCHANGED <<arriving, buffer, job, making, stored, block, delivery>>
    BY <1>12 DEF Drop, Lapse
  <2>2. \A x \in Blocks : message'[x].queued => message[x].queued
    <3>1. CASE Drop(b)
      BY <1>0, <3>1 DEF Drop, NoMessage, TypeOK
    <3>2. CASE Lapse(b)
      <4> DEFINE new == [message EXCEPT ![b].visible = TRUE]
      <4>1. new = message'
        BY <3>2 DEF Lapse
      <4>2. \A x \in Blocks : new[x].queued = message[x].queued
        BY <1>0, VisibleFacts
      <4> HIDE DEF new
      <4> QED
        BY <4>1, <4>2
    <3> QED
      BY <1>12, <3>1, <3>2
  <2> QED
    BY <1>4, <2>1, <2>2
<1>13. ASSUME NEW d \in Deliveries, Ping(d) PROVE Once(r)'
  <2>1. GoesOn(d, "load", delivery[d].rows, delivery[d].locked, delivery[d].merged)
    BY <1>0, <1>13, StepFacts
  <2>2. \A b \in Blocks : message'[b].queued = message[b].queued
    BY <1>0, <1>13, PingedFacts DEF Ping, At
  <2>3. UNCHANGED <<arriving, buffer, job, making, stored, block>>
    BY <1>13 DEF Ping
  <2>4. ~At(d, "merge") /\ r \notin Merging(d)'
    BY <1>13, <2>1, MergingIs DEF Ping, At, GoesOn
  <2> QED
    BY <1>4, <2>1, <2>2, <2>3, <2>4 DEF GoesOn
<1>14. ASSUME NEW d \in Deliveries, PingLate(d) \/ Prepared(d) \/ TooLate(d) PROVE Once(r)'
  <2>1. delivery'[d].step = "free" /\ \A e \in Deliveries \ {d} : delivery'[e] = delivery[e]
    BY <1>0, <1>14, Overs DEF Over, Free, TypeOK
  <2>2. \A b \in Blocks : message'[b].queued = message[b].queued
    BY <1>0, <1>14, QueuedFacts
  <2>3. UNCHANGED <<arriving, buffer, job, making, stored, block>>
    BY <1>14 DEF PingLate, Prepared, TooLate
  <2>4. ~At(d, "merge") /\ r \notin Merging(d)'
    BY <1>14, <2>1, MergingIs DEF PingLate, Prepared, TooLate, At
  <2> QED
    BY <1>4, <2>1, <2>2, <2>3, <2>4

<1>15. ASSUME NEW d \in Deliveries, LoadData(d) PROVE Once(r)'
  <2>1. PICK b \in Blocks : b = delivery[d].block
    BY <1>1, <1>15 DEF LoadData, At
  <2>2. /\ delivery'[d].step = "merge" /\ delivery'[d].block = b
        /\ delivery'[d].rows = block[b].rows /\ delivery'[d].locked = delivery[d].locked
        /\ \A e \in Deliveries \ {d} : delivery'[e] = delivery[e]
    BY <1>0, <1>15, <2>1, StepFacts DEF GoesOn
  <2>3. delivery[d].locked = {} /\ ~At(d, "merge") /\ OnItsBlock(d)
    BY <1>15 DEF LoadData, At, MergedInv, OnItsBlock
  <2>4. message[b].holder = d /\ message[b].queued
    BY <1>0, <2>1, <2>3 DEF HoldInv, Holds, HolderInv
  <2>5. \A e \in Deliveries : At(e, "merge") => delivery[e].block # b
    BY <2>3, <2>4 DEF HoldInv, Holds, OnItsBlock, At
  <2>6. UNCHANGED <<arriving, buffer, job, making, stored, block, message>>
    BY <1>15 DEF LoadData
  <2>7. ASSUME NEW x \in Blocks, r \in Unmerged(x)' PROVE x # b /\ r \in Unmerged(x)
    <3>1. /\ message'[x].queued /\ r \in block'[x].rows
          /\ \A e \in Deliveries : At(e, "merge")' => delivery'[e].block # x
      BY <2>7, UnmergedIs
    <3>2. x # b
      BY <2>2, <3>1 DEF At
    <3>3. \A e \in Deliveries : At(e, "merge") => delivery[e].block # x
      BY <2>2, <2>3, <3>1 DEF At
    <3> QED
      BY <2>6, <3>1, <3>2, <3>3, UnmergedIs
  <2>8. \A e \in Deliveries \ {d} : r \in Merging(e)' => r \in Merging(e)
    BY <2>2, MergingIs DEF At
  <2>9. r \in Merging(d)' <=> r \in block[b].rows
    BY <2>2, <2>3, MergingIs DEF At
  <2>10. CASE r \notin block[b].rows
    <3>1. \A e \in Deliveries : r \in Merging(e)' => r \in Merging(e)
      BY <2>8, <2>9, <2>10
    <3>2. \A x \in Blocks : r \in Unmerged(x)' => r \in Unmerged(x)
      BY <2>7
    <3> QED
      BY <1>2, <2>6, <3>1, <3>2
  <2>11. CASE r \in block[b].rows
    <3>1. <<"block", b>> \in Places(r)
      <4>1. r \in Unmerged(b)
        BY <2>4, <2>5, <2>11, UnmergedIs
      <4> QED
        BY <4>1, PlacesAre
    <3> DEFINE q == <<"delivery", d>>
    <3>2. \A e \in Deliveries : r \in Merging(e)' => <<"delivery", e>> = q \/ r \in Merging(e)
      BY <2>8
    <3>3. \A x \in Blocks : r \in Unmerged(x)' => <<"block", x>> # <<"block", b>> /\ r \in Unmerged(x)
      BY <2>7
    <3>4. \A x : <<"batch", x>> # <<"block", b>> /\ <<"chunk", x>> # <<"block", b>>
                 /\ <<"maker", x>> # <<"block", b>> /\ <<"delivery", x>> # <<"block", b>>
      OBVIOUS
    <3>5. \A c : Uncleared(c)' => Uncleared(c)
      BY <2>6 DEF Uncleared
    <3> HIDE DEF q
    <3> QED
      BY <2>6, <3>1, <3>2, <3>3, <3>4, <3>5, Move
  <2> QED
    BY <2>10, <2>11
<1>16. ASSUME NEW d \in Deliveries, NEW x \in Rows, Merge(d, x) PROVE Once(r)'
  <2>1. /\ delivery'[d].step = "merge" /\ delivery'[d].block = delivery[d].block
        /\ delivery'[d].rows = delivery[d].rows \ {x} /\ delivery'[d].locked = delivery[d].locked
        /\ \A e \in Deliveries \ {d} : delivery'[e] = delivery[e]
    BY <1>0, <1>16, StepFacts DEF GoesOn
  <2>2. /\ At(d, "merge") /\ x \in delivery[d].rows
        /\ UNCHANGED <<arriving, buffer, job, making, block, message>>
    BY <1>16 DEF Merge
  <2>3. stored'[x] = More(stored[x]) /\ \A y \in Rows \ {x} : stored'[y] = stored[y]
    BY <1>0, <1>16 DEF Merge, TypeOK
  <2>4. \A b \in Blocks : r \in Unmerged(b)' => r \in Unmerged(b)
    BY <2>1, <2>2, UnmergedIs DEF At
  <2>5. \A e \in Deliveries : r \in Merging(e)' => r \in Merging(e)
    BY <2>1, <2>2, MergingIs DEF At
  <2>6. \A c : Uncleared(c)' => Uncleared(c)
    BY <2>2 DEF Uncleared
  <2>7. CASE r # x
    BY <2>2, <2>3, <2>4, <2>5, <2>6, <2>7, Stay
  <2>8. CASE r = x
    <3>1. <<"delivery", d>> \in Places(r)
      <4>1. r \in Merging(d)
        BY <2>2, <2>8, MergingIs
      <4> QED
        BY <4>1, PlacesAre
    <3>2. stored[r] = 0 /\ \A p \in Places(r) : p = <<"delivery", d>>
      BY <1>0, <3>1 DEF Once, TypeOK
    <3>3. stored'[r] = 1
      BY <1>f, <2>3, <2>8, <3>2 DEF More
    <3>4. r \notin Merging(d)'
      <4>1. r \notin delivery[d].locked
        BY <2>2, <2>8 DEF MergedInv
      <4> QED
        BY <2>1, <2>8, <4>1, MergingIs DEF At
    <3>5. Places(r)' \subseteq Places(r)
      BY <2>2, <2>4, <2>5, <2>6, PlacesAre
    <3>6. <<"delivery", d>> \notin Places(r)'
      <4>1. \A e : <<"delivery", e>> = <<"delivery", d>> => e = d
        OBVIOUS
      <4>2. \A y : <<"batch", y>> # <<"delivery", d>> /\ <<"chunk", y>> # <<"delivery", d>>
                   /\ <<"maker", y>> # <<"delivery", d>> /\ <<"block", y>> # <<"delivery", d>>
        OBVIOUS
      <4> QED
        BY <3>4, <4>1, <4>2, PlacesAre
    <3> QED
      BY <3>2, <3>3, <3>5, <3>6 DEF Once
  <2> QED
    BY <2>7, <2>8
<1>17. ASSUME NEW d \in Deliveries, NEW x \in Rows, Locked(d, x) PROVE Once(r)'
  <2>1. /\ delivery'[d].step = "merge" /\ delivery'[d].block = delivery[d].block
        /\ delivery'[d].rows = delivery[d].rows \ {x}
        /\ delivery'[d].locked = delivery[d].locked \cup {x}
        /\ \A e \in Deliveries \ {d} : delivery'[e] = delivery[e]
    BY <1>0, <1>17, StepFacts DEF GoesOn
  <2>2. /\ At(d, "merge") /\ x \in delivery[d].rows
        /\ UNCHANGED <<arriving, buffer, job, making, block, message, stored>>
    BY <1>17 DEF Locked
  <2>3. \A b \in Blocks : r \in Unmerged(b)' => r \in Unmerged(b)
    BY <2>1, <2>2, UnmergedIs DEF At
  <2>4. \A e \in Deliveries : r \in Merging(e)' => r \in Merging(e)
    BY <2>1, <2>2, MergingIs DEF At
  <2> QED
    BY <1>2, <2>2, <2>3, <2>4
<1>18. ASSUME NEW d \in Deliveries, Postpone(d) PROVE Once(r)'
  <2>1. PICK b \in Blocks : b = delivery[d].block
    BY <1>1, <1>18 DEF Postpone, At
  <2>2. delivery'[d].step = "free" /\ \A e \in Deliveries \ {d} : delivery'[e] = delivery[e]
    BY <1>0, <1>18, Overs DEF Over, Free, TypeOK
  <2>3. \A x \in Blocks : message'[x].queued = message[x].queued
    BY <1>0, <1>18, QueuedFacts
  <2>4. /\ UNCHANGED <<arriving, buffer, job, making, stored, block>>
        /\ At(d, "merge") /\ block[b].rows \subseteq delivery[d].locked
    BY <1>18, <2>1 DEF Postpone, MergedInv
  <2>5. ASSUME NEW x \in Blocks, x # b, r \in Unmerged(x)' PROVE r \in Unmerged(x)
    <3>1. /\ message'[x].queued /\ r \in block'[x].rows
          /\ \A e \in Deliveries : At(e, "merge")' => delivery'[e].block # x
      BY <2>5, UnmergedIs
    <3>2. \A e \in Deliveries : At(e, "merge") => delivery[e].block # x
      BY <2>1, <2>2, <2>5, <3>1 DEF At
    <3> QED
      BY <2>3, <2>4, <3>1, <3>2, UnmergedIs
  <2>6. \A e \in Deliveries : r \in Merging(e)' => e # d /\ r \in Merging(e)
    BY <2>2, MergingIs DEF At
  <2>7. CASE r \notin block[b].rows
    <3>1. r \notin Unmerged(b)'
      BY <2>4, <2>7, UnmergedIs
    <3> QED
      BY <1>2, <2>4, <2>5, <2>6, <3>1
  <2>8. CASE r \in block[b].rows
    <3>1. <<"delivery", d>> \in Places(r)
      <4>1. r \in Merging(d)
        BY <2>4, <2>8, MergingIs
      <4> QED
        BY <4>1, PlacesAre
    <3> DEFINE q == <<"block", b>>
    <3>2. \A x \in Blocks : r \in Unmerged(x)' => <<"block", x>> = q \/ r \in Unmerged(x)
      BY <2>5
    <3>3. /\ \A x : <<"batch", x>> # <<"delivery", d>> /\ <<"chunk", x>> # <<"delivery", d>>
                    /\ <<"maker", x>> # <<"delivery", d>> /\ <<"block", x>> # <<"delivery", d>>
          /\ \A e \in Deliveries : e # d => <<"delivery", e>> # <<"delivery", d>>
      OBVIOUS
    <3>4. \A c : Uncleared(c)' => Uncleared(c)
      BY <2>4 DEF Uncleared
    <3> HIDE DEF q
    <3> QED
      BY <2>4, <2>6, <3>1, <3>2, <3>3, <3>4, Move
  <2> QED
    BY <2>7, <2>8
<1>19. ASSUME NEW d \in Deliveries, Complete(d) PROVE Once(r)'
  <2>1. PICK b \in Blocks : b = delivery[d].block
    BY <1>1, <1>19 DEF Complete, At
  <2>2. /\ delivery'[d].step = "settle" /\ delivery'[d].locked = delivery[d].locked
        /\ \A e \in Deliveries \ {d} : delivery'[e] = delivery[e]
    BY <1>0, <1>19, StepFacts DEF GoesOn
  <2>3. /\ UNCHANGED <<arriving, buffer, job, making, stored, message>>
        /\ At(d, "merge") /\ ~At(d, "free") /\ OnItsBlock(d) /\ block' = DeleteBlob(d)
    BY <1>19 DEF Complete, At, OnItsBlock
  <2>4. block[b].exists
    BY <1>0, <2>1, <2>3 DEF HoldInv, Holds, HolderInv
  <2>5. block'[b].rows = {} /\ \A x \in Blocks : block'[x].rows \subseteq block[x].rows
    BY <1>0, <2>1, <2>3, <2>4, DeleteBlobFacts
  <2>6. \A e \in Deliveries : r \in Merging(e)' => r \in Merging(e)
    BY <2>2, <2>3, MergingIs DEF At
  <2>7. \A e \in Deliveries : At(e, "merge") =>
           \/ At(e, "merge")' /\ delivery'[e].block = delivery[e].block
           \/ block'[delivery[e].block].rows = {}
    BY <2>1, <2>2, <2>5 DEF At
  <2> QED
    BY <1>3, <2>3, <2>5, <2>6, <2>7
<1>20. ASSUME NEW d \in Deliveries, Settle(d) PROVE Once(r)'
  <2>1. /\ UNCHANGED <<arriving, buffer, job, making, stored>>
        /\ At(d, "settle") /\ ~At(d, "free") /\ block' = CompletedBlock(d)
    BY <1>20 DEF Settle, At
  <2>2. \A x \in Blocks : block'[x].rows \subseteq block[x].rows
    BY <1>0, <2>1, CompletedFacts
  <2>3. \A x \in Blocks : message'[x].queued => message[x].queued
    <3>1. CASE Again(d)
      <4>1. message' = CompletedMessage(d)
        BY <1>20, <3>1 DEF Settle
      <4> QED
        BY <1>0, <2>1, <4>1, CompletedFacts DEF NoMessage
    <3>2. CASE ~Again(d)
      BY <1>0, <1>20, <3>2, Overs DEF Over
    <3> QED
      BY <3>1, <3>2
  <2>4. /\ delivery'[d].step = "free"
           \/ (delivery'[d].step = "prepare" /\ delivery'[d].locked = delivery[d].locked)
        /\ \A e \in Deliveries \ {d} : delivery'[e] = delivery[e]
    <3>1. CASE Again(d)
      BY <1>0, <1>20, <3>1, StepFacts DEF GoesOn
    <3>2. CASE ~Again(d)
      BY <1>0, <1>20, <3>2, Overs DEF Over, Free, TypeOK
    <3> QED
      BY <3>1, <3>2
  <2>5. \A e \in Deliveries : r \in Merging(e)' => r \in Merging(e)
    BY <2>1, <2>4, MergingIs DEF At
  <2>6. \A e \in Deliveries : At(e, "merge") => At(e, "merge")' /\ delivery'[e].block = delivery[e].block
    BY <2>1, <2>4 DEF At
  <2> QED
    BY <1>3, <2>1, <2>2, <2>3, <2>5, <2>6
<1>21. ASSUME NEW d \in Deliveries, PrepareLocked(d) PROVE Once(r)'
  <2>1. PICK rows \in SUBSET Rows : rows = delivery[d].locked
    BY <1>0, <1>21, Live DEF PrepareLocked, At
  <2>2. /\ UNCHANGED <<arriving, job, block, message, stored>> /\ At(d, "prepare")
        /\ Prepare(d, rows) /\ d \in Makers
    BY <1>21, <2>1, MakersAre DEF PrepareLocked
  <2>3. /\ delivery'[d].step = "prepare" /\ delivery'[d].locked = {}
        /\ \A e \in Deliveries \ {d} : delivery'[e] = delivery[e]
    BY <1>0, <1>21, StepFacts DEF GoesOn
  <2>4. PICK q : /\ \A c \in buffer' : (c \in buffer /\ (Uncleared(c)' => Uncleared(c)))
                                          \/ (c.rows = rows /\ <<"chunk", c>> = q)
                 /\ \A u \in Makers : making'[u].rows = making[u].rows
                                          \/ (making'[u].rows = rows /\ <<"maker", u>> = q)
    BY <1>0, <2>2, PrepareMoves
  <2>5. \A b \in Blocks : r \in Unmerged(b)' => r \in Unmerged(b)
    BY <2>2, <2>3, UnmergedIs DEF At
  <2>6. \A e \in Deliveries : r \in Merging(e)' => e # d /\ r \in Merging(e)
    BY <2>3, MergingIs DEF At
  <2>7. CASE r \notin rows
    BY <2>2, <2>4, <2>5, <2>6, <2>7, Stay
  <2>8. CASE r \in rows
    <3>1. <<"delivery", d>> \in Places(r)
      <4>1. r \in Merging(d)
        BY <2>1, <2>2, <2>8, MergingIs DEF At
      <4> QED
        BY <4>1, PlacesAre
    <3>2. /\ \A x : <<"batch", x>> # <<"delivery", d>> /\ <<"chunk", x>> # <<"delivery", d>>
                    /\ <<"maker", x>> # <<"delivery", d>> /\ <<"block", x>> # <<"delivery", d>>
          /\ \A e \in Deliveries : e # d => <<"delivery", e>> # <<"delivery", d>>
      OBVIOUS
    <3> QED
      BY <2>2, <2>4, <2>5, <2>6, <3>1, <3>2, Move
  <2> QED
    BY <2>7, <2>8
<1>22. ASSUME UNCHANGED <<arriving, buffer, job, making, stored, block, message, delivery>>
       PROVE  Once(r)'
  BY <1>4, <1>22
<1>23. ASSUME \/ \E s \in Servers : EnsureWorker(s) \/ LoopEnds(s) \/ OnWorkerCompleted(s)
              \/ BufferTimeout \/ UNCHANGED vars
       PROVE  Once(r)'
  <2>1. CASE \E s \in Servers : EnsureWorker(s) \/ LoopEnds(s) \/ OnWorkerCompleted(s)
    BY <1>22, <2>1 DEF EnsureWorker, LoopEnds, OnWorkerCompleted
  <2>2. CASE BufferTimeout \/ UNCHANGED vars
    BY <1>22, <2>2 DEF BufferTimeout, BufferLapses, vars
  <2> QED
    BY <1>23, <2>1, <2>2
<1>24. ASSUME NEW d \in Deliveries, DeliveryStep(d) \/ WaitsTooLong(d) PROVE Once(r)'
  BY <1>13, <1>14, <1>15, <1>16, <1>17, <1>18, <1>19, <1>20, <1>21, <1>24
     DEF DeliveryStep, WaitsTooLong
<1>25. ASSUME NEW j \in Jobs, JobStep(j) \/ (\E s \in Servers : DequeueBuffer(j, s)) PROVE Once(r)'
  BY <1>8, <1>9, <1>25 DEF JobStep
<1>26. ASSUME NEW s \in Servers, WorkerStep(s) PROVE Once(r)'
  BY <1>11, <1>23, <1>26 DEF WorkerStep
<1> QED
  BY <1>0, <1>5, <1>6, <1>7, <1>10, <1>12, <1>23, <1>24, <1>25, <1>26, Faultless DEF Making

LEMMA OnceInit == Init => OnceInv
<1> SUFFICES ASSUME Init PROVE OnceInv
  OBVIOUS
<1>1. HoldInv
  BY DEF Init, HoldInv, OnItsBlock, Free, NoMessage
<1>2. OneJobInv
  BY StepsApart DEF Init, OneJobInv
<1>3. MergedInv
  BY DEF Init, MergedInv, At, Free
<1>4. ASSUME NEW r \in Rows PROVE Once(r)
  <2>1. \A t \in Makers : r \notin making[t].rows
    BY NothingIsRecord DEF Init
  <2>2. \A b \in Blocks : r \notin Unmerged(b)
    BY UnmergedIs DEF Init, NoRows
  <2>3. \A d \in Deliveries : r \notin Merging(d)
    BY MergingIs DEF Init, Free, At
  <2>4. \A p \in Places(r) : \E x \in Batches : r \in x /\ p = <<"batch", x>>
    BY <2>1, <2>2, <2>3, PlacesAre DEF Init
  <2>5. \A x, y \in Batches : r \in x /\ r \in y => x = y
    BY BatchesAssumption
  <2>6. stored[r] = 0
    BY DEF Init
  <2>7. \A p, q \in Places(r) : p = q
    BY <2>4, <2>5
  <2> QED
    BY <2>6, <2>7 DEF Once
<1> QED
  BY <1>1, <1>2, <1>3, <1>4 DEF OnceInv

(* While nothing goes wrong no row is merged twice, however the buffering    *)
(* jobs, the deliveries of the servers and Prepare of what was locked are    *)
(* interleaved: the row is in one place at a time, and in none once merged.  *)
THEOREM MergedOnce == Spec => []StoredOnce
<1>1. IInv /\ OnceInv /\ [Next]_vars => OnceInv'
  <2> SUFFICES ASSUME IInv, OnceInv, [Next]_vars, faults' = 0
               PROVE  HoldInv' /\ OneJobInv' /\ MergedInv' /\ \A r \in Rows : Once(r)'
    BY DEF OnceInv
  <2>1. faults = 0
    BY Faultless DEF IInv
  <2>2. HoldInv /\ OneJobInv /\ MergedInv /\ \A r \in Rows : Once(r)
    BY <2>1 DEF OnceInv
  <2>3. HoldInv' /\ OneJobInv' /\ MergedInv'
    BY <2>2, HoldStep, OneJobStep, MergedStep
  <2>4. \A r \in Rows : Once(r)'
    BY <2>2, OnceStep
  <2> QED
    BY <2>3, <2>4
<1>2. OnceInv => StoredOnce
  BY DEF OnceInv, Once, StoredOnce
<1> QED
  BY <1>1, <1>2, Invariance, OnceInit, PTL DEF Spec

===============================================================================

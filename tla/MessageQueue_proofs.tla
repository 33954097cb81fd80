-------------------------- MODULE MessageQueue_proofs --------------------------
(* What TLAPS proves of MessageQueue.tla for every set of entries, request   *)
(* threads and every lease: its types, that no accepted message is lost,     *)
(* that edits of a message exclude each other, that leases are respected,    *)
(* and, with a single flusher, that a clean repository is in the table.      *)
EXTENDS MessageQueue, SequenceTheorems, WellFoundedInduction, TLAPS

USE TimeAssumption, CountsAssumption

-------------------------------------------------------------------------------
(* Taking the first element off a list of targets. *)
LEMMA TailFacts ==
  ASSUME NEW S, NEW s \in Seq(S), s # <<>>
  PROVE  /\ Head(s) \in S /\ Head(s) = s[1] /\ 1 \in 1..Len(s)
         /\ Tail(s) \in Seq(S)
         /\ \A n \in 1..Len(Tail(s)) : Tail(s)[n] = s[n + 1] /\ n + 1 \in 1..Len(s)
         /\ Len(s) # 1 => Tail(s) # <<>>
<1>1. Len(s) \in Nat \ {0}
  BY EmptySeq
<1>2. /\ Head(s) \in S /\ Tail(s) \in Seq(S) /\ Len(Tail(s)) = Len(s) - 1
      /\ \A n \in 1..Len(Tail(s)) : Tail(s)[n] = s[n + 1]
  BY HeadTailProperties
<1>3. \A n \in 1..Len(Tail(s)) : n + 1 \in 1..Len(s)
  BY <1>1, <1>2
<1>4. Len(s) # 1 => Tail(s) # <<>>
  <2>1. Len(s) # 1 => Len(Tail(s)) # 0
    BY <1>1, <1>2
  <2> QED
    BY <2>1, EmptySeq
<1>5. 1 \in 1..Len(s) /\ Head(s) = s[1]
  BY <1>1
<1> QED
  BY <1>2, <1>3, <1>4, <1>5

(* A thread at work has a first target, and it is a real message. *)
LEMMA TargetFacts ==
  ASSUME IInv, NEW c \in Clients,
         pc[c] \in {"take", "edit", "ping", "pingEdit", "complete"}
  PROVE  /\ targets[c] # <<>> /\ targets[c] \in Seq(Ids)
         /\ Target(c) \in Ids /\ Real(msgs[Target(c)])
<1>1. targets[c] # <<>> /\ targets[c] \in Seq(Ids)
  BY DEF IInv, TypeOK, ThreadInv, ThreadOK
<1>2. Target(c) \in Ids /\ Target(c) = targets[c][1] /\ 1 \in 1..Len(targets[c])
  BY <1>1, TailFacts DEF Target
<1> QED
  BY <1>1, <1>2 DEF IInv, ThreadInv, ThreadOK

LEMMA RealIsNotNone == ~Real(NoMessage)
BY NoEntryAssumption DEF Real, Message, NoMessage

(* The slots of memory and table hold a message or nothing. *)
LEMMA SlotFacts ==
  ASSUME IInv, NEW id \in Ids
  PROVE  /\ Real(msgs[id]) \/ msgs[id] = NoMessage
         /\ Real(table[id]) \/ table[id] = NoMessage
BY DEF IInv, TypeOK, Real

-------------------------------------------------------------------------------
(* The largest id of a non-empty table exists: the least number below MaxId. *)
LessThan == OpToRel(<, Nat)

LEMMA LessThanIsWellFounded == IsWellFoundedOn(LessThan, Nat)
BY NatLessThanWellFounded DEF LessThan

LEMMA LessThanIs == \A x, y \in Nat : x < y => <<x, y>> \in LessThan
BY Zenon DEF OpToRel, LessThan

LEMMA HasMin ==
  ASSUME NEW T, T \subseteq Nat, T # {}
  PROVE  \E x \in T : \A y \in T : x <= y
<1>1. PICK x \in T : \A y \in T : ~(<<y, x>> \in LessThan)
  BY LessThanIsWellFounded, WFMin
<1>2. ASSUME NEW y \in T PROVE x <= y
  <2>1. x \in Nat /\ y \in Nat /\ ~(<<y, x>> \in LessThan)
    BY <1>1
  <2>2. ~(y < x)
    BY <2>1, LessThanIs
  <2> QED
    BY <2>1, <2>2
<1> QED
  BY <1>2

LEMMA SeedIsMax ==
  /\ Seed \in 0..MaxId
  /\ Saved \subseteq 1..Seed
<1> DEFINE T == {MaxId - id : id \in Saved}
<1>1. Saved \subseteq 1..MaxId
  BY DEF Saved, Ids
<1>2. CASE Saved = {}
  BY <1>2 DEF Seed
<1>3. CASE Saved # {}
  <2>1. T \subseteq Nat
    BY <1>1
  <2>2. T # {}
    BY <1>3
  <2>3. PICK x \in T : \A y \in T : x <= y
    <3> HIDE DEF T
    <3> QED
      BY <2>1, <2>2, HasMin
  <2>4. PICK id \in Saved : x = MaxId - id
    OBVIOUS
  <2>5. \A k \in Saved : x <= MaxId - k
    BY <2>3
  <2>6. \A k \in Saved : k <= id
    BY <1>1, <2>4, <2>5
  <2>7. Seed \in Saved /\ \A k \in Saved : k <= Seed
    BY <1>3, <2>6 DEF Seed
  <2> QED
    BY <1>1, <2>7
<1> QED
  BY <1>2, <1>3

(* The two records a step rewrites, and what it leaves of them. *)
LEMMA GrantFacts ==
  ASSUME NEW g \in [entry : Entries, until : Nat], NEW t \in Nat
  PROVE  /\ [g EXCEPT !.until = t] \in [entry : Entries, until : Nat]
         /\ [g EXCEPT !.until = t].entry = g.entry
         /\ [g EXCEPT !.until = t].until = t
OBVIOUS

LEMMA MessageFacts ==
  ASSUME NEW m \in Message, NEW t \in Nat
  PROVE  /\ [m EXCEPT !.nextVisible = t] \in Message
         /\ [m EXCEPT !.nextVisible = t].entry = m.entry
         /\ [m EXCEPT !.nextVisible = t].receipt = m.receipt
         /\ [m EXCEPT !.nextVisible = t].nextVisible = t
BY DEF Message

LEMMA ReturnType ==
  ASSUME TypeOK, NEW c \in Clients, Return(c)
  PROVE  /\ pc' \in [Clients -> Steps] /\ targets' \in [Clients -> Seq(Ids)]
         /\ receipt' \in [Clients -> Receipts]
<1>1. <<>> \in Seq(Ids)
  BY EmptySeq
<1>2. NoReceipt \in Receipts /\ "idle" \in Steps
  BY DEF NoReceipt, Receipts, Steps
<1> QED
  BY <1>1, <1>2 DEF TypeOK, Return

(* Types. *)
LEMMA TypeStep ==
  ASSUME IInv, [Next]_vars
  PROVE  TypeOK'
<1> USE DEF TypeOK, Steps, Fates, FlushSteps
<1>0. TypeOK
  BY DEF IInv
<1>1. ASSUME NEW c \in Clients, NEW e \in Entries, CheckDuplicate(c, e) PROVE TypeOK'
  <2>1. fate' \in [Entries -> Fates]
    BY <1>0, <1>1 DEF CheckDuplicate
  <2>2. pc' \in [Clients -> Steps]
    BY <1>0, <1>1 DEF CheckDuplicate
  <2>3. incoming' \in [Clients -> Entries \cup {NoEntry}]
    BY <1>0, <1>1 DEF CheckDuplicate
  <2> QED
    BY <1>0, <1>1, <2>1, <2>2, <2>3 DEF CheckDuplicate, memory, flushVars
<1>2. ASSUME NEW c \in Clients, Insert(c) PROVE TypeOK'
  <2>1. incoming[c] \in Entries
    BY <1>2 DEF Insert, IInv, ThreadInv, ThreadOK
  <2>2. PICK delay \in Delays :
           msgs' = [msgs EXCEPT ![identity + 1] = NewMessage(incoming[c], delay)]
    BY <1>2 DEF Insert
  <2>3. NewMessage(incoming[c], delay) \in Message
    BY <1>0, <2>1 DEF NewMessage, Message, Receipts, NoReceipt
  <2>4. identity + 1 \in Ids
    BY <1>0, <1>2 DEF Insert, Ids
  <2>5. msgs' \in [Ids -> Message \cup {NoMessage}]
    BY <1>0, <2>2, <2>3
  <2> QED
    BY <1>0, <1>2, <2>1, <2>4, <2>5 DEF Insert, flushVars, Ids
<1>3. ASSUME NEW c \in Clients, NEW n \in Counts, SelectTargets(c, n) PROVE TypeOK'
  <2>1. PICK s \in UNION {[1..k -> Visible] : k \in 1..n} :
           targets' = [targets EXCEPT ![c] = s]
    BY <1>3 DEF SelectTargets
  <2>2. s \in Seq(Ids)
    <3>1. Visible \subseteq Ids
      BY <1>0 DEF Visible
    <3>2. PICK k \in 1..n : s \in [1..k -> Visible]
      BY <2>1
    <3>3. k \in Nat
      BY <3>2
    <3> QED
      BY <3>1, <3>2, <3>3
  <2> QED
    BY <1>0, <1>3, <2>1, <2>2 DEF SelectTargets, memory, flushVars, history
<1>4. ASSUME NEW c \in Clients, BeginEdit(c) PROVE TypeOK'
  <2>1. Target(c) \in Ids /\ Tail(targets[c]) \in Seq(Ids)
    BY <1>4, TargetFacts, TailFacts DEF BeginEdit
  <2> QED
    <3>1. UNCHANGED <<now, identity, msgs, cache, dirty, table, receipt, incoming,
                      flush, flushing, grants, fate, overtaken, flushFailed, crashes>>
      BY <1>4 DEF BeginEdit, flushVars, history
    <3>2. targets' = targets \/ targets' = [targets EXCEPT ![c] = Tail(targets[c])]
      BY <1>4 DEF BeginEdit, NextTarget
    <3>3. targets' \in [Clients -> Seq(Ids)]
      BY <1>0, <2>1, <3>2
    <3>4. pc' \in [Clients -> Steps]
      BY <1>0, <1>4 DEF BeginEdit, NextTarget
    <3>5. locked' \subseteq Ids
      BY <1>0, <1>4, <2>1 DEF BeginEdit
    <3> QED
      BY <1>0, <3>1, <3>3, <3>4, <3>5
<1>5. ASSUME NEW c \in Clients, Take(c) PROVE TypeOK'
  <2>1. Target(c) \in Ids /\ Tail(targets[c]) \in Seq(Ids) /\ Real(msgs[Target(c)])
    BY <1>5, TargetFacts, TailFacts DEF Take
  <2>2. targets' \in [Clients -> Seq(Ids)] /\ pc' \in [Clients -> Steps]
    BY <1>0, <1>5, <2>1 DEF Take, NextTarget
  <2>3. CASE ~StillVisible(Target(c)) /\ UNCHANGED <<msgs, dirty, grants>>
    BY <1>0, <1>5, <2>2, <2>3 DEF Take, EndEdit, flushVars
  <2>4. CASE /\ Len(grants) < MaxReceipt
             /\ msgs' = [msgs EXCEPT ![Target(c)].nextVisible = now + DequeueLease,
                                     ![Target(c)].count = msgs[Target(c)].count + 1,
                                     ![Target(c)].receipt = Len(grants) + 1]
             /\ grants' = Append(grants, [entry |-> msgs[Target(c)].entry,
                                          until |-> now + DequeueLease])
             /\ dirty' = TRUE
    <3>1. Len(grants) \in Nat
      BY <1>0, LenProperties
    <3>2. msgs' \in [Ids -> Message \cup {NoMessage}]
      <4>1. msgs[Target(c)] \in Message
        BY <1>0, <2>1 DEF Real
      <4>2. /\ now + DequeueLease \in Nat /\ Len(grants) + 1 \in Receipts
            /\ msgs[Target(c)].count + 1 \in Nat
        <5>1. now \in Nat /\ DequeueLease \in Nat /\ MaxReceipt \in Nat
          BY <1>0
        <5>2. Len(grants) + 1 \in Receipts
          BY <2>4, <3>1, <5>1 DEF Receipts
        <5>3. msgs[Target(c)].count \in Nat
          BY <4>1 DEF Message
        <5> QED
          BY <5>1, <5>2, <5>3
      <4>3. [[[msgs[Target(c)] EXCEPT !.nextVisible = now + DequeueLease]
                EXCEPT !.count = msgs[Target(c)].count + 1]
                EXCEPT !.receipt = Len(grants) + 1] \in Message
        BY <4>1, <4>2 DEF Message
      <4>4. msgs' = [msgs EXCEPT ![Target(c)] =
                       [[[msgs[Target(c)] EXCEPT !.nextVisible = now + DequeueLease]
                           EXCEPT !.count = msgs[Target(c)].count + 1]
                           EXCEPT !.receipt = Len(grants) + 1]]
        BY <1>0, <2>1, <2>4, <4>1 DEF Message
      <4> QED
        BY <1>0, <2>1, <4>3, <4>4
    <3>3. [entry |-> msgs[Target(c)].entry, until |-> now + DequeueLease]
             \in [entry : Entries, until : Nat]
      BY <1>0, <2>1 DEF Real, Message
    <3>4. grants' \in Seq([entry : Entries, until : Nat]) /\ Len(grants') <= MaxReceipt
      BY <1>0, <2>4, <3>1, <3>3, AppendProperties
    <3> QED
      BY <1>0, <1>5, <2>2, <2>4, <3>2, <3>4 DEF Take, EndEdit, flushVars
  <2> QED
    BY <1>5, <2>3, <2>4 DEF Take
<1>6. ASSUME NEW c \in Clients, NEW r \in 1..Len(grants), NEW step \in {"ping", "complete"},
             Lookup(c, r, step)
      PROVE  TypeOK'
  <2>1. r \in Receipts
    BY <1>0, LenProperties DEF Receipts
  <2>2. \A id \in cache : <<id>> \in Seq(Ids)
    BY <1>0
  <2> QED
    BY <1>0, <1>6, <2>1, <2>2 DEF Lookup, memory, flushVars, history
<1>7. ASSUME NEW c \in Clients, PingBegin(c) PROVE TypeOK'
  <2>1. Target(c) \in Ids
    BY <1>7, TargetFacts DEF PingBegin
  <2>2. /\ pc' \in [Clients -> Steps] /\ targets' \in [Clients -> Seq(Ids)]
        /\ receipt' \in [Clients -> Receipts]
    BY <1>0, <1>7, ReturnType DEF PingBegin
  <2>3. locked' \subseteq Ids
    BY <1>0, <1>7, <2>1 DEF PingBegin
  <2> QED
    BY <1>0, <1>7, <2>1, <2>2, <2>3 DEF PingBegin, flushVars, history
<1>8. ASSUME NEW c \in Clients, PingApply(c) PROVE TypeOK'
  <2>1. Target(c) \in Ids /\ Real(msgs[Target(c)])
    BY <1>8, TargetFacts DEF PingApply
  <2>2. receipt[c] \in 1..Len(grants)
    BY <1>8 DEF PingApply, IInv, ThreadInv, ThreadOK
  <2>3. PICK lease \in PingLeases :
           /\ msgs' = [msgs EXCEPT ![Target(c)].nextVisible = now + lease]
           /\ grants' = [grants EXCEPT ![receipt[c]].until = now + lease]
    BY <1>8 DEF PingApply
  <2>4. msgs' \in [Ids -> Message \cup {NoMessage}]
    <3>1. msgs[Target(c)] \in Message /\ now + lease \in Nat
      BY <1>0, <2>1 DEF Real
    <3>3. [msgs[Target(c)] EXCEPT !.nextVisible = now + lease] \in Message
      BY <3>1, MessageFacts
    <3>2. msgs' = [msgs EXCEPT ![Target(c)] = [msgs[Target(c)] EXCEPT !.nextVisible = now + lease]]
      BY <2>3
    <3>4. msgs \in [Ids -> Message \cup {NoMessage}]
      BY <1>0
    <3> QED
      BY <3>2, <3>3, <3>4
  <2>5. grants' \in Seq([entry : Entries, until : Nat]) /\ Len(grants') = Len(grants)
    <3>1. grants[receipt[c]] \in [entry : Entries, until : Nat]
      BY <1>0, <2>2, ElementOfSeq
    <3>2. [grants[receipt[c]] EXCEPT !.until = now + lease] \in [entry : Entries, until : Nat]
      <4>1. now + lease \in Nat
        BY <1>0
      <4> QED
        BY <3>1, <4>1, GrantFacts
    <3>3. grants' = [grants EXCEPT ![receipt[c]] = [grants[receipt[c]] EXCEPT !.until = now + lease]]
      BY <2>3
    <3>4. grants \in Seq([entry : Entries, until : Nat]) /\ receipt[c] \in 1..Len(grants)
      BY <1>0, <2>2
    <3> QED
      BY <3>2, <3>3, <3>4, ExceptSeq
  <2>6. overtaken' \subseteq Entries
    BY <1>0, <1>8, <2>1 DEF PingApply, Real, Message
  <2>7. /\ pc' \in [Clients -> Steps] /\ targets' \in [Clients -> Seq(Ids)]
        /\ receipt' \in [Clients -> Receipts]
    BY <1>0, <1>8, ReturnType DEF PingApply
  <2>8. locked' \subseteq Ids
    BY <1>0, <1>8 DEF PingApply, EndEdit
  <2> QED
    BY <1>0, <1>8, <2>4, <2>5, <2>6, <2>7, <2>8 DEF PingApply, flushVars
<1>9. ASSUME NEW c \in Clients, Remove(c) PROVE TypeOK'
  <2>1. /\ pc' \in [Clients -> Steps] /\ targets' \in [Clients -> Seq(Ids)]
        /\ receipt' \in [Clients -> Receipts]
    BY <1>0, <1>9, ReturnType DEF Remove
  <2>2. fate' \in [Entries -> Fates]
    BY <1>0, <1>9 DEF Remove, Settle
  <2>3. cache' \subseteq Ids
    BY <1>0, <1>9 DEF Remove
  <2> QED
    BY <1>0, <1>9, <2>1, <2>2, <2>3 DEF Remove, flushVars
<1>10. ASSUME NEW f \in Flushers, Flush(f) PROVE TypeOK'
  BY <1>0, <1>10 DEF Flush, FlushBegin, FlushSnapshot, FlushWrite, FlushFails, Settle, Listed,
                     memory, threads, history
<1>11. CASE Restart
  <2>1. Seed \in 0..MaxId
    BY SeedIsMax
  <2>2. overtaken' \subseteq Entries
    <3>1. \A r \in 1..Len(grants) : grants[r].entry \in Entries
      <4>1. TAKE r \in 1..Len(grants)
      <4>2. grants[r] \in [entry : Entries, until : Nat]
        BY <1>0, ElementOfSeq
      <4> QED
        BY <4>2
    <3> QED
      BY <1>0, <1>11, <3>1 DEF Restart
  <2>3. fate' \in [Entries -> Fates]
    BY <1>0, <1>11 DEF Restart
  <2>4. <<>> \in Seq(Ids)
    BY EmptySeq
  <2>5. /\ pc' \in [Clients -> Steps] /\ targets' \in [Clients -> Seq(Ids)]
        /\ receipt' \in [Clients -> Receipts]
        /\ incoming' \in [Clients -> Entries \cup {NoEntry}]
    BY <1>0, <1>11, <2>4 DEF Restart, Receipts, NoReceipt
  <2>6. /\ flush' \in [Flushers -> FlushSteps] /\ flushing' \in [Flushers -> SUBSET Ids]
    BY <1>0, <1>11 DEF Restart
  <2>7. cache' \subseteq Ids /\ crashes' \in Nat
    BY <1>0, <1>11 DEF Restart, Saved
  <2> QED
    BY <1>0, <1>11, <2>1, <2>2, <2>3, <2>5, <2>6, <2>7 DEF Restart
<1>12. CASE Tick
  BY <1>0, <1>12 DEF Tick, memory, threads, flushVars, history
<1>13. CASE UNCHANGED vars
  BY <1>0, <1>13 DEF vars
<1> QED
  BY <1>1, <1>2, <1>3, <1>4, <1>5, <1>6, <1>7, <1>8, <1>9, <1>10, <1>11, <1>12, <1>13
     DEF Next, Request, Enqueue, Dequeue, Ping, Complete

-------------------------------------------------------------------------------
(* What the three actions that write a message do to memory and grants. *)
LEMMA InsertEffect ==
  ASSUME IInv, NEW c \in Clients, Insert(c)
  PROVE  /\ incoming[c] \in Entries /\ fate[incoming[c]] = "arriving"
         /\ identity \in Nat /\ identity + 1 \in Ids /\ ~Real(msgs[identity + 1])
         /\ Real(msgs'[identity + 1]) /\ msgs'[identity + 1].entry = incoming[c]
         /\ msgs'[identity + 1].receipt = NoReceipt
         /\ \A id \in Ids : id # identity + 1 => msgs'[id] = msgs[id]
<1>0. TypeOK
  BY DEF IInv
<1>1. incoming[c] \in Entries /\ fate[incoming[c]] = "arriving"
  BY DEF Insert, IInv, ThreadInv, ThreadOK
<1>2. identity \in Nat /\ identity + 1 \in Ids
  BY <1>0 DEF TypeOK, Insert, Ids
<1>3. ~Real(msgs[identity + 1])
  BY <1>2 DEF IInv, CacheInv
<1>4. PICK delay \in Delays :
         msgs' = [msgs EXCEPT ![identity + 1] = NewMessage(incoming[c], delay)]
  BY DEF Insert
<1> DEFINE new == NewMessage(incoming[c], delay)
<1>5. new \in Message
  BY <1>0, <1>1 DEF TypeOK, NewMessage, Message, Receipts, NoReceipt
<1>6. msgs'[identity + 1] = new
  BY <1>0, <1>2, <1>4 DEF TypeOK
<1>7. \A id \in Ids : id # identity + 1 => msgs'[id] = msgs[id]
  BY <1>0, <1>4 DEF TypeOK
<1>8. new.entry = incoming[c] /\ new.receipt = NoReceipt
  BY DEF NewMessage
<1> QED
  BY <1>1, <1>2, <1>3, <1>5, <1>6, <1>7, <1>8 DEF Real

Taken(c) ==
    LET id == Target(c) IN
    /\ StillVisible(id)
    /\ Real(msgs'[id]) /\ msgs'[id].entry = msgs[id].entry
    /\ msgs'[id].nextVisible = now + DequeueLease
    /\ msgs'[id].receipt = Len(grants) + 1
    /\ \A k \in Ids : k # id => msgs'[k] = msgs[k]
    /\ Len(grants') = Len(grants) + 1
    /\ \A r \in 1..Len(grants) : grants'[r] = grants[r]
    /\ grants'[Len(grants) + 1].entry = msgs[id].entry
    /\ grants'[Len(grants) + 1].until = now + DequeueLease

LEMMA TakeEffect ==
  ASSUME IInv, NEW c \in Clients, Take(c)
  PROVE  /\ Target(c) \in Ids /\ Real(msgs[Target(c)])
         /\ UNCHANGED <<msgs, grants>> \/ Taken(c)
<1>0. TypeOK
  BY DEF IInv
<1>1. Target(c) \in Ids /\ Real(msgs[Target(c)])
  BY TargetFacts DEF Take
<1> DEFINE id == Target(c)
<1> DEFINE new == [msgs[id] EXCEPT !.nextVisible = now + DequeueLease,
                                   !.count = msgs[id].count + 1,
                                   !.receipt = Len(grants) + 1]
<1> DEFINE g == [entry |-> msgs[id].entry, until |-> now + DequeueLease]
<1>2. CASE /\ StillVisible(id)
           /\ Len(grants) < MaxReceipt
           /\ msgs' = [msgs EXCEPT ![id].nextVisible = now + DequeueLease,
                                   ![id].count = msgs[id].count + 1,
                                   ![id].receipt = Len(grants) + 1]
           /\ grants' = Append(grants, g)
  <2>1. Len(grants) \in Nat
    BY <1>0, LenProperties DEF TypeOK
  <2>2. msgs' = [msgs EXCEPT ![id] = new]
    BY <1>2
  <2>3. /\ new \in Message /\ new.entry = msgs[id].entry
        /\ new.nextVisible = now + DequeueLease /\ new.receipt = Len(grants) + 1
    <3>1. msgs[id] \in Message /\ now + DequeueLease \in Nat
      BY <1>0, <1>1 DEF TypeOK, Real
    <3>2. Len(grants) + 1 \in Receipts
      BY <1>0, <1>2, <2>1 DEF Receipts
    <3>3. msgs[id].count + 1 \in Nat
      BY <3>1 DEF Message
    <3> HIDE DEF id
    <3> QED
      BY <3>1, <3>2, <3>3 DEF Message
  <2>4. msgs'[id] = new /\ \A k \in Ids : k # id => msgs'[k] = msgs[k]
    BY <1>0, <1>1, <2>2 DEF TypeOK
  <2>5. g \in [entry : Entries, until : Nat]
    BY <1>0, <1>1 DEF TypeOK, Real, Message
  <2>6. /\ Len(grants') = Len(grants) + 1
        /\ \A r \in 1..Len(grants) : grants'[r] = grants[r]
        /\ grants'[Len(grants) + 1] = g
    BY <1>0, <1>2, <2>5, AppendProperties DEF TypeOK
  <2>7. g.entry = msgs[id].entry /\ g.until = now + DequeueLease
    OBVIOUS
  <2> QED
    BY <1>1, <1>2, <2>3, <2>4, <2>6, <2>7 DEF Taken, Real
<1> QED
  BY <1>1, <1>2 DEF Take

Pinged(c) ==
    LET id == Target(c) IN
    /\ Real(msgs'[id]) /\ msgs'[id].entry = msgs[id].entry
    /\ msgs'[id].receipt = msgs[id].receipt
    /\ msgs'[id].nextVisible \in Nat
    /\ now <= msgs'[id].nextVisible
    /\ \A k \in Ids : k # id => msgs'[k] = msgs[k]
    /\ Len(grants') = Len(grants)
    /\ \A r \in 1..Len(grants) : r # receipt[c] => grants'[r] = grants[r]
    /\ grants'[receipt[c]].entry = grants[receipt[c]].entry
    /\ grants'[receipt[c]].until = msgs'[id].nextVisible

LEMMA PingEffect ==
  ASSUME IInv, NEW c \in Clients, PingApply(c)
  PROVE  /\ Target(c) \in Ids /\ Real(msgs[Target(c)])
         /\ receipt[c] \in 1..Len(grants)
         /\ grants[receipt[c]].entry = msgs[Target(c)].entry
         /\ Pinged(c)
<1>0. TypeOK
  BY DEF IInv
<1>1. Target(c) \in Ids /\ Real(msgs[Target(c)])
  BY TargetFacts DEF PingApply
<1>2. receipt[c] \in 1..Len(grants) /\ grants[receipt[c]].entry = msgs[Target(c)].entry
  BY DEF PingApply, IInv, ThreadInv, ThreadOK
<1> DEFINE id == Target(c)
<1> DEFINE r == receipt[c]
<1>3. PICK lease \in PingLeases :
         /\ msgs' = [msgs EXCEPT ![id].nextVisible = now + lease]
         /\ grants' = [grants EXCEPT ![r].until = now + lease]
  BY DEF PingApply
<1> DEFINE new == [msgs[id] EXCEPT !.nextVisible = now + lease]
<1> DEFINE g == [grants[r] EXCEPT !.until = now + lease]
<1>4. now + lease \in Nat /\ now <= now + lease
  BY <1>0 DEF TypeOK
<1>5. msgs' = [msgs EXCEPT ![id] = new] /\ grants' = [grants EXCEPT ![r] = g]
  BY <1>3
<1>6. msgs'[id] = new /\ \A k \in Ids : k # id => msgs'[k] = msgs[k]
  BY <1>0, <1>1, <1>5 DEF TypeOK
<1>7. /\ new \in Message /\ new.entry = msgs[id].entry
      /\ new.receipt = msgs[id].receipt /\ new.nextVisible = now + lease
  BY <1>1, <1>4, MessageFacts DEF Real
<1>8. g \in [entry : Entries, until : Nat] /\ g.entry = grants[r].entry /\ g.until = now + lease
  <2>1. grants[r] \in [entry : Entries, until : Nat]
    BY <1>0, <1>2, ElementOfSeq DEF TypeOK
  <2> QED
    BY <1>4, <2>1, GrantFacts
<1>9. /\ Len(grants') = Len(grants)
      /\ \A s \in 1..Len(grants) : grants'[s] = IF s = r THEN g ELSE grants[s]
  <2>1. /\ grants \in Seq([entry : Entries, until : Nat])
        /\ r \in 1..Len(grants) /\ g \in [entry : Entries, until : Nat]
    BY <1>0, <1>2, <1>8 DEF TypeOK
  <2>2. grants' = [grants EXCEPT ![r] = g]
    BY <1>5
  <2> HIDE DEF g, r
  <2>3. /\ Len([grants EXCEPT ![r] = g]) = Len(grants)
        /\ \A s \in 1..Len(grants) : [grants EXCEPT ![r] = g][s] = IF s = r THEN g ELSE grants[s]
    BY <2>1, ExceptSeq
  <2> QED
    BY <2>2, <2>3
<1>10. /\ grants'[r] = g /\ \A s \in 1..Len(grants) : s # r => grants'[s] = grants[s]
  BY <1>2, <1>9
<1> HIDE DEF g, new
<1>11. /\ Real(msgs'[id]) /\ msgs'[id].entry = msgs[id].entry
       /\ msgs'[id].receipt = msgs[id].receipt
       /\ msgs'[id].nextVisible = now + lease
  BY <1>6, <1>7 DEF Real
<1>12. /\ grants'[r].entry = grants[r].entry
       /\ grants'[r].until = now + lease
  BY <1>8, <1>10
<1> QED
  BY <1>1, <1>2, <1>4, <1>6, <1>9, <1>10, <1>11, <1>12 DEF Pinged

-------------------------------------------------------------------------------
(* Which steps change memory, which change the fate of an entry. *)
LEMMA MessageFrame ==
  ASSUME [Next]_vars
  PROVE  \/ \E c \in Clients : Insert(c) \/ Take(c) \/ PingApply(c)
         \/ Restart
         \/ UNCHANGED <<msgs, grants, overtaken>>
<1>1. ASSUME NEW c \in Clients, Request(c), ~Insert(c), ~Take(c), ~PingApply(c)
      PROVE  UNCHANGED <<msgs, grants, overtaken>>
  BY <1>1 DEF Request, Enqueue, Dequeue, Ping, Complete, CheckDuplicate, SelectTargets, BeginEdit,
              Lookup, PingBegin, Remove, memory, history
<1>2. ASSUME NEW f \in Flushers, Flush(f)
      PROVE  UNCHANGED <<msgs, grants, overtaken>>
  BY <1>2 DEF Flush, FlushBegin, FlushSnapshot, FlushWrite, FlushFails, memory, history
<1>3. ASSUME Tick \/ UNCHANGED vars
      PROVE  UNCHANGED <<msgs, grants, overtaken>>
  BY <1>3 DEF Tick, memory, history, vars
<1> QED
  BY <1>1, <1>2, <1>3 DEF Next

LEMMA FateFrame ==
  ASSUME [Next]_vars
  PROVE  \/ \E c \in Clients : \E e \in Entries : CheckDuplicate(c, e)
         \/ \E c \in Clients : Insert(c) \/ Remove(c)
         \/ \E f \in Flushers : FlushSnapshot(f)
         \/ Restart
         \/ UNCHANGED <<fate, cache, identity>>
<1>1. ASSUME NEW c \in Clients, Request(c), ~Insert(c), ~Remove(c),
             ~\E e \in Entries : CheckDuplicate(c, e)
      PROVE  UNCHANGED <<fate, cache, identity>>
  BY <1>1 DEF Request, Enqueue, Dequeue, Ping, Complete, SelectTargets, BeginEdit, Take,
              Lookup, PingBegin, PingApply, memory, history
<1>2. ASSUME NEW f \in Flushers, Flush(f), ~FlushSnapshot(f)
      PROVE  UNCHANGED <<fate, cache, identity>>
  BY <1>2 DEF Flush, FlushBegin, FlushWrite, FlushFails, memory, history
<1>3. ASSUME Tick \/ UNCHANGED vars
      PROVE  UNCHANGED <<fate, cache, identity>>
  BY <1>3 DEF Tick, memory, history, vars
<1> QED
  BY <1>1, <1>2, <1>3 DEF Next

(* Only Insert and Restart move the identity. *)
LEMMA IdentityFrame ==
  ASSUME [Next]_vars
  PROVE  \/ \E c \in Clients : Insert(c)
         \/ Restart
         \/ UNCHANGED identity
<1>1. ASSUME NEW c \in Clients, NEW e \in Entries, CheckDuplicate(c, e) PROVE UNCHANGED identity
  BY <1>1 DEF CheckDuplicate, memory
<1>2. ASSUME NEW c \in Clients, Remove(c) PROVE UNCHANGED identity
  BY <1>2 DEF Remove
<1>3. ASSUME NEW f \in Flushers, FlushSnapshot(f) PROVE UNCHANGED identity
  BY <1>3 DEF FlushSnapshot
<1> QED
  BY <1>1, <1>2, <1>3, FateFrame

-------------------------------------------------------------------------------
(* What no step undoes: an entry has arrived, a pop receipt belongs to its   *)
(* entry.  And, as long as the server is up, a message object stays one.     *)
Kept ==
    /\ Arrived \subseteq Arrived'
    /\ Len(grants) <= Len(grants')
    /\ \A r \in 1..Len(grants) : grants'[r].entry = grants[r].entry

ObjectsKept ==
    \A id \in Ids : Real(msgs[id]) => Real(msgs'[id]) /\ msgs'[id].entry = msgs[id].entry

LEMMA KeptStep ==
  ASSUME IInv, [Next]_vars
  PROVE  Kept
<1>0. TypeOK
  BY DEF IInv
<1>1. ASSUME NEW e \in Entries, e \in Arrived PROVE e \in Arrived'
  <2>1. CASE \E c \in Clients : \E d \in Entries : CheckDuplicate(c, d)
    BY <1>0, <1>1, <2>1 DEF TypeOK, CheckDuplicate, Arrived
  <2>2. ASSUME NEW c \in Clients, Insert(c) PROVE e \in Arrived'
    BY <1>0, <1>1, <2>2, InsertEffect DEF TypeOK, Insert, Arrived
  <2>3. ASSUME NEW c \in Clients, Remove(c) PROVE e \in Arrived'
    BY <1>0, <1>1, <2>3 DEF TypeOK, Remove, Settle, Arrived
  <2>4. ASSUME NEW f \in Flushers, FlushSnapshot(f) PROVE e \in Arrived'
    BY <1>0, <1>1, <2>4 DEF TypeOK, FlushSnapshot, Settle, Arrived
  <2>5. CASE Restart
    BY <1>0, <1>1, <2>5 DEF TypeOK, Restart, Arrived
  <2>6. CASE UNCHANGED fate
    BY <1>1, <2>6 DEF Arrived
  <2> QED
    BY <2>1, <2>2, <2>3, <2>4, <2>5, <2>6, FateFrame
<1>2. /\ Len(grants) <= Len(grants')
      /\ \A r \in 1..Len(grants) : grants'[r].entry = grants[r].entry
  <2>0. Len(grants) \in Nat
    BY <1>0, LenProperties DEF TypeOK
  <2>1. CASE UNCHANGED grants
    BY <2>0, <2>1
  <2>2. ASSUME NEW c \in Clients, Take(c), Taken(c)
        PROVE  /\ Len(grants) <= Len(grants')
               /\ \A r \in 1..Len(grants) : grants'[r].entry = grants[r].entry
    BY <2>0, <2>2 DEF Taken
  <2>3. ASSUME NEW c \in Clients, PingApply(c)
        PROVE  /\ Len(grants) <= Len(grants')
               /\ \A r \in 1..Len(grants) : grants'[r].entry = grants[r].entry
    BY <2>0, <2>3, PingEffect DEF Pinged
  <2> QED
    BY <2>1, <2>2, <2>3, TakeEffect, MessageFrame DEF Insert, Restart
<1>3. Arrived \subseteq Entries
  BY DEF Arrived
<1> QED
  BY <1>1, <1>2, <1>3 DEF Kept

LEMMA ObjectsStep ==
  ASSUME IInv, [Next]_vars, ~Restart
  PROVE  ObjectsKept
<1>1. ASSUME NEW c \in Clients, Insert(c) PROVE ObjectsKept
  BY <1>1, InsertEffect DEF ObjectsKept
<1>2. ASSUME NEW c \in Clients, Take(c) PROVE ObjectsKept
  BY <1>2, TakeEffect DEF Taken, ObjectsKept
<1>3. ASSUME NEW c \in Clients, PingApply(c) PROVE ObjectsKept
  BY <1>3, PingEffect DEF Pinged, ObjectsKept
<1>4. CASE UNCHANGED msgs
  BY <1>4 DEF ObjectsKept
<1> QED
  BY <1>1, <1>2, <1>3, <1>4, MessageFrame

LEMMA CacheStep ==
  ASSUME IInv, [Next]_vars
  PROVE  CacheInv'
<1>0. TypeOK /\ CacheInv
  BY DEF IInv
<1>1. CASE Restart
  <2>1. Saved \subseteq 1..Seed /\ Saved \subseteq Ids
    BY SeedIsMax DEF Saved
  <2>2. \A id \in Saved : Real(table[id])
    BY <2>1, SlotFacts DEF Saved
  <2>3. \A id \in Ids : Real(table[id]) => id \in Saved
    BY RealIsNotNone DEF Saved
  <2>4. \A id \in Ids : Real(table[id]) => id <= Seed
    BY <2>1, <2>3, SeedIsMax
  <2> QED
    BY <1>1, <2>2, <2>4 DEF CacheInv, Restart, Real
<1>2. ASSUME NEW c \in Clients, Insert(c) PROVE CacheInv'
  <2>1. cache' = cache \cup {identity + 1} /\ identity' = identity + 1
    BY <1>2 DEF Insert
  <2>2. \A id \in cache' : Real(msgs'[id])
    BY <1>0, <1>2, <2>1, InsertEffect DEF CacheInv, TypeOK
  <2>3. \A id \in Ids : Real(msgs'[id]) => id <= identity'
    BY <1>0, <1>2, <2>1, InsertEffect DEF CacheInv, Ids
  <2> QED
    BY <2>2, <2>3 DEF CacheInv, Real
<1>3. CASE ~Restart /\ UNCHANGED identity
  <2>1. cache' \subseteq cache
    <3>1. ASSUME NEW c \in Clients, Insert(c) PROVE FALSE
      BY <1>0, <1>3, <3>1, InsertEffect DEF Insert
    <3>2. ASSUME NEW c \in Clients, NEW e \in Entries, CheckDuplicate(c, e) PROVE UNCHANGED cache
      BY <3>2 DEF CheckDuplicate, memory
    <3>3. ASSUME NEW c \in Clients, Remove(c) PROVE cache' \subseteq cache
      BY <3>3 DEF Remove
    <3>4. ASSUME NEW f \in Flushers, FlushSnapshot(f) PROVE cache' \subseteq cache
      BY <3>4 DEF FlushSnapshot
    <3> QED
      BY <1>3, <3>1, <3>2, <3>3, <3>4, FateFrame
  <2>2. \A id \in cache' : Real(msgs'[id])
    BY <1>0, <1>3, <2>1, ObjectsStep DEF ObjectsKept, CacheInv, TypeOK
  <2>3. \A id \in Ids : Real(msgs'[id]) => Real(msgs[id])
    <3>1. ASSUME NEW c \in Clients, Insert(c) PROVE FALSE
      BY <1>0, <1>3, <3>1, InsertEffect DEF Insert
    <3>2. ASSUME NEW c \in Clients, Take(c), NEW id \in Ids, Real(msgs'[id])
          PROVE  Real(msgs[id])
      BY <3>2, TakeEffect DEF Taken
    <3>3. ASSUME NEW c \in Clients, PingApply(c), NEW id \in Ids, Real(msgs'[id])
          PROVE  Real(msgs[id])
      BY <3>3, PingEffect DEF Pinged
    <3> QED
      BY <1>3, <3>1, <3>2, <3>3, MessageFrame
  <2> QED
    BY <1>0, <1>3, <2>2, <2>3 DEF CacheInv, Real
<1> QED
  BY <1>1, <1>2, <1>3, IdentityFrame

-------------------------------------------------------------------------------
(* A store, as seen after the step, keeps StoreInv if its messages are ones  *)
(* it had before, under the same entry and pop receipt.                      *)
StoreAfter(new) ==
    /\ \A id \in Ids : Real(new[id]) =>
          /\ new[id].entry \in Arrived'
          /\ new[id].receipt # NoReceipt =>
                /\ new[id].receipt \in 1..Len(grants')
                /\ grants'[new[id].receipt].entry = new[id].entry
    /\ \A i, j \in Ids :
          (Real(new[i]) /\ Real(new[j]) /\ new[i].entry = new[j].entry) => i = j

LEMMA StoreFollows ==
  ASSUME TypeOK, Kept, TypeOK', NEW old, NEW new, StoreInv(old),
         \A id \in Ids : Real(new[id]) =>
             /\ Real(old[id]) /\ new[id].entry = old[id].entry
             /\ new[id].receipt = old[id].receipt
  PROVE  StoreAfter(new)
<1>1. Len(grants) \in Nat /\ Len(grants') \in Nat /\ Len(grants) <= Len(grants')
  BY LenProperties DEF TypeOK, Kept
<1>2. ASSUME NEW id \in Ids, Real(new[id])
      PROVE  /\ new[id].entry \in Arrived'
             /\ new[id].receipt # NoReceipt =>
                   /\ new[id].receipt \in 1..Len(grants')
                   /\ grants'[new[id].receipt].entry = new[id].entry
  <2>1. /\ new[id].entry \in Entries /\ new[id].entry \in Arrived
        /\ new[id].receipt # NoReceipt =>
              /\ new[id].receipt \in 1..Len(grants)
              /\ grants[new[id].receipt].entry = new[id].entry
    BY <1>2 DEF StoreInv, Real, Message
  <2>2. new[id].entry \in Arrived'
    BY <2>1 DEF Kept
  <2> QED
    BY <1>1, <2>1, <2>2 DEF Kept
<1>3. \A i, j \in Ids :
          (Real(new[i]) /\ Real(new[j]) /\ new[i].entry = new[j].entry) => i = j
  BY DEF StoreInv
<1> QED
  BY <1>2, <1>3 DEF StoreAfter

LEMMA MemoryStep ==
  ASSUME IInv, [Next]_vars
  PROVE  StoreInv(msgs)'
<1>0. TypeOK /\ TypeOK' /\ Kept /\ StoreInv(msgs) /\ StoreInv(table)
  BY TypeStep, KeptStep DEF IInv
<1>1. SUFFICES StoreAfter(msgs')
  BY DEF StoreAfter, StoreInv
<1>2. CASE Restart
  <2>1. msgs' = table
    BY <1>2 DEF Restart
  <2> QED
    BY <1>0, <2>1, StoreFollows
<1>3. CASE UNCHANGED msgs
  BY <1>0, <1>3, StoreFollows
<1>4. ASSUME NEW c \in Clients, PingApply(c) PROVE StoreAfter(msgs')
  <2>1. \A id \in Ids : Real(msgs'[id]) =>
           /\ Real(msgs[id]) /\ msgs'[id].entry = msgs[id].entry
           /\ msgs'[id].receipt = msgs[id].receipt
    BY <1>4, PingEffect DEF Pinged
  <2> QED
    BY <1>0, <2>1, StoreFollows
<1>5. ASSUME NEW c \in Clients, Take(c), Taken(c) PROVE StoreAfter(msgs')
  <2> DEFINE k == Target(c)
  <2>1. k \in Ids /\ Real(msgs[k]) /\ Len(grants) \in Nat
    BY <1>0, <1>5, TakeEffect, LenProperties DEF TypeOK
  <2>2. ASSUME NEW id \in Ids, Real(msgs'[id])
        PROVE  /\ Real(msgs[id]) /\ msgs'[id].entry = msgs[id].entry
               /\ msgs'[id].entry \in Arrived'
               /\ msgs'[id].receipt # NoReceipt =>
                     /\ msgs'[id].receipt \in 1..Len(grants')
                     /\ grants'[msgs'[id].receipt].entry = msgs'[id].entry
    <3>1. Real(msgs[id]) /\ msgs'[id].entry = msgs[id].entry
      BY <1>5, <2>1, <2>2 DEF Taken
    <3>2. msgs'[id].entry \in Arrived'
      <4>1. msgs[id].entry \in Entries /\ msgs[id].entry \in Arrived
        BY <1>0, <3>1 DEF StoreInv, Real, Message
      <4> QED
        BY <1>0, <3>1, <4>1 DEF Kept
    <3>3. CASE id = k
      <4>1. /\ msgs'[id].receipt = Len(grants) + 1 /\ Len(grants') = Len(grants) + 1
            /\ grants'[Len(grants) + 1].entry = msgs[id].entry
        BY <1>5, <3>3 DEF Taken
      <4> QED
        BY <2>1, <3>1, <3>2, <4>1
    <3>4. CASE id # k
      <4>1. /\ msgs'[id] = msgs[id] /\ Len(grants') = Len(grants) + 1
            /\ \A r \in 1..Len(grants) : grants'[r].entry = grants[r].entry
        BY <1>0, <1>5, <3>4 DEF Taken, Kept
      <4>2. msgs[id].receipt # NoReceipt =>
                /\ msgs[id].receipt \in 1..Len(grants)
                /\ grants[msgs[id].receipt].entry = msgs[id].entry
        BY <1>0, <3>1 DEF StoreInv
      <4> QED
        BY <2>1, <3>1, <3>2, <4>1, <4>2
    <3> QED
      BY <3>3, <3>4
  <2>3. \A i, j \in Ids :
          (Real(msgs'[i]) /\ Real(msgs'[j]) /\ msgs'[i].entry = msgs'[j].entry) => i = j
    BY <1>0, <2>2 DEF StoreInv
  <2> QED
    BY <2>2, <2>3 DEF StoreAfter
<1>6. ASSUME NEW c \in Clients, Insert(c) PROVE StoreAfter(msgs')
  <2> DEFINE k == identity + 1
  <2>1. /\ k \in Ids /\ ~Real(msgs[k]) /\ incoming[c] \in Entries
        /\ fate[incoming[c]] = "arriving"
        /\ msgs'[k].entry = incoming[c] /\ msgs'[k].receipt = NoReceipt
        /\ \A id \in Ids : id # k => msgs'[id] = msgs[id]
    BY <1>6, InsertEffect
  <2> HIDE DEF k
  <2>2. fate'[incoming[c]] = "accepted"
    BY <1>0, <1>6, <2>1 DEF Insert, TypeOK
  <2>3. grants' = grants
    BY <1>6 DEF Insert
  <2>4. ASSUME NEW id \in Ids, Real(msgs'[id]), id # k
        PROVE  /\ msgs'[id].entry \in Arrived'
               /\ msgs'[id].entry # incoming[c]
               /\ msgs'[id].receipt # NoReceipt =>
                     /\ msgs'[id].receipt \in 1..Len(grants')
                     /\ grants'[msgs'[id].receipt].entry = msgs'[id].entry
    <3>1. /\ msgs'[id] = msgs[id] /\ Real(msgs[id])
          /\ msgs[id].entry \in Entries /\ msgs[id].entry \in Arrived
      BY <1>0, <2>1, <2>4 DEF StoreInv, Real, Message
    <3>2. msgs[id].entry \in Arrived'
      BY <1>0, <3>1 DEF Kept
    <3>3. msgs[id].entry # incoming[c]
      BY <2>1, <3>1 DEF Arrived
    <3> QED
      BY <1>0, <2>3, <3>1, <3>2, <3>3 DEF StoreInv
  <2>5. \A i, j \in Ids :
          (Real(msgs'[i]) /\ Real(msgs'[j]) /\ msgs'[i].entry = msgs'[j].entry) => i = j
    BY <1>0, <2>1, <2>4 DEF StoreInv
  <2>6. msgs'[k].entry \in Arrived'
    BY <2>1, <2>2 DEF Arrived
  <2> QED
    BY <2>1, <2>4, <2>5, <2>6 DEF StoreAfter
<1> QED
  BY <1>2, <1>3, <1>4, <1>5, <1>6, MessageFrame, TakeEffect

(* The table gets what memory has, or keeps what it had. *)
LEMMA TableStep ==
  ASSUME IInv, [Next]_vars
  PROVE  StoreInv(table)'
<1>0. TypeOK /\ TypeOK' /\ Kept /\ StoreInv(msgs) /\ StoreInv(table)
  BY TypeStep, KeptStep DEF IInv
<1>1. SUFFICES StoreAfter(table')
  BY DEF StoreAfter, StoreInv
<1>2. ASSUME NEW f \in Flushers, FlushWrite(f) PROVE StoreAfter(table')
  <2>1. \A id \in Ids : Real(table'[id]) => table'[id] = msgs[id]
    BY <1>2, RealIsNotNone DEF FlushWrite
  <2> QED
    BY <1>0, <2>1, StoreFollows
<1>3. CASE UNCHANGED table
  BY <1>0, <1>3, StoreFollows
<1>4. (\E f \in Flushers : FlushWrite(f)) \/ UNCHANGED table
  <2>1. ASSUME NEW c \in Clients, Request(c) PROVE UNCHANGED table
    BY <2>1 DEF Request, Enqueue, Dequeue, Ping, Complete, CheckDuplicate, Insert, SelectTargets,
                BeginEdit, Take, Lookup, PingBegin, PingApply, Remove
  <2>2. ASSUME NEW f \in Flushers, Flush(f), ~FlushWrite(f) PROVE UNCHANGED table
    BY <2>2 DEF Flush, FlushBegin, FlushSnapshot, FlushFails
  <2>3. ASSUME Restart \/ Tick \/ UNCHANGED vars PROVE UNCHANGED table
    BY <2>3 DEF Restart, Tick, vars
  <2> QED
    BY <2>1, <2>2, <2>3 DEF Next
<1> QED
  BY <1>2, <1>3, <1>4

LEMMA GrantStep ==
  ASSUME IInv, [Next]_vars
  PROVE  GrantInv'
<1>0. TypeOK /\ TypeOK' /\ Kept /\ GrantInv /\ Len(grants) \in Nat
  BY TypeStep, KeptStep, LenProperties DEF IInv, TypeOK
<1>1. ASSUME NEW r \in 1..Len(grants) PROVE grants'[r].entry \in Arrived'
  <2>1. grants[r] \in [entry : Entries, until : Nat]
    BY <1>0, ElementOfSeq DEF TypeOK
  <2>2. grants[r].entry \in Entries /\ grants[r].entry \in Arrived
    BY <1>0, <2>1 DEF GrantInv
  <2> QED
    BY <1>0, <2>2 DEF Kept
<1>2. ASSUME NEW c \in Clients, Take(c), Taken(c) PROVE GrantInv'
  <2>1. /\ Len(grants') = Len(grants) + 1 /\ Target(c) \in Ids /\ Real(msgs[Target(c)])
        /\ grants'[Len(grants) + 1].entry = msgs[Target(c)].entry
    BY <1>2, TakeEffect DEF Taken
  <2>2. msgs[Target(c)].entry \in Entries /\ msgs[Target(c)].entry \in Arrived
    BY <2>1 DEF IInv, StoreInv, Real, Message
  <2>3. grants'[Len(grants) + 1].entry \in Arrived'
    BY <1>0, <2>1, <2>2 DEF Kept
  <2>4. \A r \in 1..Len(grants') : r \in 1..Len(grants) \/ r = Len(grants) + 1
    BY <1>0, <2>1
  <2> QED
    BY <1>1, <2>3, <2>4 DEF GrantInv
<1>3. CASE Len(grants') = Len(grants)
  BY <1>1, <1>3 DEF GrantInv
<1>4. (\E c \in Clients : Take(c) /\ Taken(c)) \/ Len(grants') = Len(grants)
  BY MessageFrame, TakeEffect, PingEffect DEF Pinged, Insert, Restart
<1> QED
  BY <1>2, <1>3, <1>4

-------------------------------------------------------------------------------
(* Leases.  Time only passes, and a lease only counts until now.  The one    *)
(* action that shortens a message's NextVisible is a ping, and then either   *)
(* its receipt is the current one, so the others have run out, or the entry  *)
(* counts as overtaken.                                                      *)
LEMMA NowStep ==
  ASSUME TypeOK, [Next]_vars
  PROVE  /\ now \in Nat /\ now' \in Nat /\ now <= now'
         /\ now' = now \/ UNCHANGED <<msgs, grants, overtaken>>
<1>1. ASSUME NEW c \in Clients, Request(c) PROVE UNCHANGED now
  BY <1>1 DEF Request, Enqueue, Dequeue, Ping, Complete, CheckDuplicate, Insert, SelectTargets,
              BeginEdit, Take, Lookup, PingBegin, PingApply, Remove
<1>2. ASSUME NEW f \in Flushers, Flush(f) PROVE UNCHANGED now
  BY <1>2 DEF Flush, FlushBegin, FlushSnapshot, FlushWrite, FlushFails
<1>3. ASSUME Restart \/ UNCHANGED vars PROVE UNCHANGED now
  BY <1>3 DEF Restart, vars
<1>4. ASSUME Tick PROVE now' = now + 1 /\ UNCHANGED <<msgs, grants, overtaken>>
  BY <1>4 DEF Tick, memory, history
<1> QED
  BY <1>1, <1>2, <1>3, <1>4 DEF Next, TypeOK

LeaseOK(id) ==
    (Real(msgs[id]) /\ msgs[id].entry \notin overtaken) =>
        \A r \in 1..Len(grants) : grants[r].entry = msgs[id].entry =>
            /\ grants[r].until <= msgs[id].nextVisible
            /\ r # msgs[id].receipt => grants[r].until <= now

LEMMA LeaseInvIs == LeaseInv <=> \A id \in Ids : LeaseOK(id)
BY DEF LeaseInv, LeaseOK, Delivered

LEMMA LeaseStep ==
  ASSUME IInv, [Next]_vars
  PROVE  LeaseInv'
<1>0. /\ TypeOK /\ TypeOK' /\ Kept /\ StoreInv(msgs) /\ GrantInv /\ Len(grants) \in Nat
      /\ \A id \in Ids : LeaseOK(id)
  BY TypeStep, KeptStep, LenProperties, LeaseInvIs DEF IInv, TypeOK
<1>1. \A r \in 1..Len(grants) : grants[r].until \in Nat /\ grants[r].entry \in Entries
  <2>1. TAKE r \in 1..Len(grants)
  <2>2. grants[r] \in [entry : Entries, until : Nat]
    BY <1>0, ElementOfSeq DEF TypeOK
  <2> QED
    BY <2>2
<1>2. now \in Nat /\ now' \in Nat /\ now <= now'
  BY <1>0, NowStep
<1>3. \A id \in Ids : Real(msgs[id]) => msgs[id].nextVisible \in Nat /\ msgs[id].entry \in Entries
  BY DEF Real, Message
<1>4. SUFFICES ASSUME NEW id \in Ids PROVE LeaseOK(id)'
  BY DEF LeaseInv, LeaseOK, Delivered
<1>5. CASE UNCHANGED <<msgs, grants, overtaken>>
  BY <1>0, <1>1, <1>2, <1>5 DEF LeaseOK, Real
<1>6. CASE Restart
  <2>1. grants' = grants /\ overtaken' = overtaken \cup {grants[r].entry : r \in 1..Len(grants)}
    BY <1>6 DEF Restart
  <2>2. \A r \in 1..Len(grants') : grants'[r].entry \in overtaken'
    BY <2>1
  <2> QED
    BY <2>2 DEF LeaseOK
<1>7. ASSUME NEW c \in Clients, Insert(c) PROVE LeaseOK(id)'
  <2>1. UNCHANGED <<grants, overtaken, now>>
    BY <1>7 DEF Insert
  <2>2. CASE id = identity + 1
    <3>1. msgs'[id].entry = incoming[c] /\ fate[incoming[c]] = "arriving"
      BY <1>7, <2>2, InsertEffect
    <3>2. \A r \in 1..Len(grants) : grants[r].entry # msgs'[id].entry
      BY <1>0, <3>1 DEF GrantInv, Arrived
    <3> QED
      BY <2>1, <3>2 DEF LeaseOK
  <2>3. CASE id # identity + 1
    <3>1. msgs'[id] = msgs[id]
      BY <1>7, <2>3, InsertEffect
    <3> QED
      BY <1>0, <2>1, <3>1 DEF LeaseOK, Real
  <2> QED
    BY <2>2, <2>3
<1>8. ASSUME NEW c \in Clients, Take(c), Taken(c) PROVE LeaseOK(id)'
  <2>1. UNCHANGED <<overtaken, now>>
    BY <1>8 DEF Take
  <2>2. /\ Target(c) \in Ids /\ Real(msgs[Target(c)])
        /\ msgs[Target(c)].nextVisible <= now
        /\ Len(grants') = Len(grants) + 1
        /\ \A r \in 1..Len(grants) : grants'[r] = grants[r]
        /\ grants'[Len(grants) + 1].entry = msgs[Target(c)].entry
        /\ grants'[Len(grants) + 1].until = now + DequeueLease
    BY <1>8, TakeEffect DEF Taken, StillVisible
  <2>3. CASE id = Target(c)
    <3>1. /\ msgs'[id].entry = msgs[id].entry /\ msgs'[id].receipt = Len(grants) + 1
          /\ msgs'[id].nextVisible = now + DequeueLease
      BY <1>8, <2>3 DEF Taken
    <3>2. SUFFICES ASSUME msgs'[id].entry \notin overtaken',
                          NEW r \in 1..Len(grants'), grants'[r].entry = msgs'[id].entry
                   PROVE  /\ grants'[r].until <= msgs'[id].nextVisible
                          /\ r # msgs'[id].receipt => grants'[r].until <= now'
      BY DEF LeaseOK
    <3>3. CASE r = Len(grants) + 1
      BY <1>2, <2>2, <3>1, <3>3
    <3>4. CASE r \in 1..Len(grants)
      <4>1. grants'[r] = grants[r] /\ grants[r].until <= msgs[id].nextVisible
        BY <1>0, <2>1, <2>2, <2>3, <3>1, <3>2, <3>4 DEF LeaseOK
      <4>2. grants[r].until <= now
        BY <1>1, <1>2, <1>3, <2>2, <2>3, <3>4, <4>1
      <4>3. now <= now + DequeueLease /\ now + DequeueLease \in Nat
        BY <1>2
      <4>4. grants[r].until <= now + DequeueLease
        BY <1>1, <1>2, <3>4, <4>2, <4>3
      <4> QED
        BY <2>1, <3>1, <4>1, <4>2, <4>4
    <3> QED
      BY <1>0, <2>2, <3>3, <3>4
  <2>4. CASE id # Target(c)
    <3>1. msgs'[id] = msgs[id]
      BY <1>8, <2>4 DEF Taken
    <3>2. SUFFICES ASSUME Real(msgs[id]), msgs[id].entry \notin overtaken,
                          NEW r \in 1..Len(grants'), grants'[r].entry = msgs[id].entry
                   PROVE  /\ grants'[r].until <= msgs[id].nextVisible
                          /\ r # msgs[id].receipt => grants'[r].until <= now
      BY <2>1, <3>1 DEF LeaseOK, Real
    <3>3. r # Len(grants) + 1
      BY <1>0, <2>2, <2>4, <3>2 DEF StoreInv
    <3>4. r \in 1..Len(grants)
      BY <1>0, <2>2, <3>3
    <3> QED
      BY <1>0, <2>2, <3>2, <3>4 DEF LeaseOK
  <2> QED
    BY <2>3, <2>4
<1>9. ASSUME NEW c \in Clients, PingApply(c) PROVE LeaseOK(id)'
  <2>1. /\ Target(c) \in Ids /\ Real(msgs[Target(c)])
        /\ receipt[c] \in 1..Len(grants)
        /\ grants[receipt[c]].entry = msgs[Target(c)].entry
        /\ Pinged(c)
    BY <1>9, PingEffect
  <2>2. /\ now' = now
        /\ overtaken' = IF msgs[Target(c)].receipt = receipt[c] THEN overtaken
                        ELSE overtaken \cup {msgs[Target(c)].entry}
    BY <1>9 DEF PingApply
  <2>3. CASE id = Target(c)
    <3>1. /\ msgs'[id].entry = msgs[id].entry /\ msgs'[id].receipt = msgs[id].receipt
          /\ msgs'[id].nextVisible \in Nat /\ now <= msgs'[id].nextVisible
          /\ Len(grants') = Len(grants)
          /\ \A s \in 1..Len(grants) : s # receipt[c] => grants'[s] = grants[s]
          /\ grants'[receipt[c]].until = msgs'[id].nextVisible
      BY <2>1, <2>3 DEF Pinged
    <3>2. SUFFICES ASSUME msgs'[id].entry \notin overtaken',
                          NEW r \in 1..Len(grants'), grants'[r].entry = msgs'[id].entry
                   PROVE  /\ grants'[r].until <= msgs'[id].nextVisible
                          /\ r # msgs'[id].receipt => grants'[r].until <= now'
      BY DEF LeaseOK
    <3>3. msgs[id].receipt = receipt[c] /\ msgs[id].entry \notin overtaken
      BY <2>2, <2>3, <3>1, <3>2
    <3>4. CASE r = receipt[c]
      BY <3>1, <3>3, <3>4
    <3>5. CASE r # receipt[c]
      <4>1. r \in 1..Len(grants) /\ grants'[r] = grants[r] /\ grants[r].until <= now
        BY <1>0, <2>1, <2>3, <3>1, <3>2, <3>3, <3>5 DEF LeaseOK
      <4> QED
        BY <1>1, <1>2, <2>2, <3>1, <4>1
    <3> QED
      BY <3>4, <3>5
  <2>4. CASE id # Target(c)
    <3>1. /\ msgs'[id] = msgs[id] /\ Len(grants') = Len(grants)
          /\ \A s \in 1..Len(grants) : s # receipt[c] => grants'[s] = grants[s]
          /\ grants'[receipt[c]].entry = grants[receipt[c]].entry
      BY <2>1, <2>4 DEF Pinged
    <3>2. SUFFICES ASSUME Real(msgs[id]), msgs[id].entry \notin overtaken,
                          NEW r \in 1..Len(grants), grants'[r].entry = msgs[id].entry
                   PROVE  /\ grants'[r].until <= msgs[id].nextVisible
                          /\ r # msgs[id].receipt => grants'[r].until <= now
      BY <2>2, <3>1 DEF LeaseOK, Real
    <3>3. r # receipt[c]
      BY <1>0, <2>1, <2>4, <3>1, <3>2 DEF StoreInv
    <3> QED
      BY <1>0, <3>1, <3>2, <3>3 DEF LeaseOK
  <2> QED
    BY <2>3, <2>4
<1>10. \A c \in Clients : Take(c) => Taken(c) \/ UNCHANGED <<msgs, grants, overtaken>>
  BY TakeEffect DEF Take
<1> QED
  BY <1>5, <1>6, <1>7, <1>8, <1>9, <1>10, MessageFrame

-------------------------------------------------------------------------------
(* Request threads.  A step of one thread leaves the others where they are,  *)
(* and what they work on keeps its meaning.                                  *)
ThreadSame(d) == /\ pc'[d] = pc[d] /\ targets'[d] = targets[d]
                 /\ receipt'[d] = receipt[d] /\ incoming'[d] = incoming[d]

LEMMA OthersSame ==
  ASSUME TypeOK, NEW c \in Clients, Request(c), NEW d \in Clients, d # c
  PROVE  ThreadSame(d)
<1> USE DEF ThreadSame, TypeOK
<1>1. ASSUME Enqueue(c) PROVE ThreadSame(d)
  <2>1. PICK e \in Entries : CheckDuplicate(c, e)
    BY <1>1 DEF Enqueue
  <2>2. UNCHANGED <<targets, receipt>> /\ pc'[d] = pc[d] /\ incoming'[d] = incoming[d]
    BY <2>1 DEF CheckDuplicate
  <2> QED
    BY <2>2
<1>2. ASSUME Insert(c) PROVE ThreadSame(d)
  BY <1>2 DEF Insert
<1>3. ASSUME Dequeue(c) PROVE ThreadSame(d)
  <2>1. PICK n \in Counts : SelectTargets(c, n)
    BY <1>3 DEF Dequeue
  <2>2. UNCHANGED <<incoming, receipt>> /\ pc'[d] = pc[d] /\ targets'[d] = targets[d]
    BY <2>1 DEF SelectTargets
  <2> QED
    BY <2>2
<1>4. ASSUME BeginEdit(c) PROVE ThreadSame(d)
  BY <1>4 DEF BeginEdit, NextTarget
<1>5. ASSUME Take(c) PROVE ThreadSame(d)
  BY <1>5 DEF Take, NextTarget
<1>6. ASSUME Ping(c) \/ Complete(c) PROVE ThreadSame(d)
  <2>1. PICK r \in 1..Len(grants) : Lookup(c, r, "ping") \/ Lookup(c, r, "complete")
    BY <1>6 DEF Ping, Complete
  <2>2. /\ UNCHANGED incoming /\ receipt' = [receipt EXCEPT ![c] = r] /\ pc'[d] = pc[d]
        /\ \E s : targets' = [targets EXCEPT ![c] = s]
    BY <2>1 DEF Lookup
  <2> QED
    BY <2>2
<1>7. ASSUME PingBegin(c) PROVE ThreadSame(d)
  BY <1>7 DEF PingBegin, Return
<1>8. ASSUME PingApply(c) PROVE ThreadSame(d)
  BY <1>8 DEF PingApply, Return
<1>9. ASSUME Remove(c) PROVE ThreadSame(d)
  BY <1>9 DEF Remove, Return
<1> QED
  BY <1>1, <1>2, <1>3, <1>4, <1>5, <1>6, <1>7, <1>8, <1>9 DEF Request

(* No step but its own takes an arriving entry out of a thread's hands. *)
LEMMA StillArriving ==
  ASSUME IInv, [Next]_vars, ~Restart, NEW e \in Entries, fate[e] = "arriving",
         \A c \in Clients : Insert(c) => incoming[c] # e
  PROVE  fate'[e] = "arriving"
<1>0. TypeOK
  BY DEF IInv
<1>1. ASSUME NEW c \in Clients, NEW d \in Entries, CheckDuplicate(c, d) PROVE fate'[e] = "arriving"
  <2>1. d # e
    BY <1>1 DEF CheckDuplicate
  <2> QED
    BY <1>0, <1>1, <2>1 DEF CheckDuplicate, TypeOK
<1>2. ASSUME NEW c \in Clients, Insert(c) PROVE fate'[e] = "arriving"
  BY <1>0, <1>2 DEF Insert, TypeOK
<1>3. ASSUME NEW c \in Clients, Remove(c) PROVE fate'[e] = "arriving"
  BY <1>0, <1>3 DEF Remove, Settle, TypeOK
<1>4. ASSUME NEW f \in Flushers, FlushSnapshot(f) PROVE fate'[e] = "arriving"
  BY <1>0, <1>4 DEF FlushSnapshot, Settle, TypeOK
<1>5. CASE UNCHANGED fate
  BY <1>5
<1> QED
  BY <1>1, <1>2, <1>3, <1>4, <1>5, FateFrame

(* The work of a thread, as it was before the step, still makes sense after. *)
LEMMA WorkKept ==
  ASSUME IInv, [Next]_vars, ~Restart, NEW d \in Clients,
         pc[d] \in {"take", "edit", "ping", "pingEdit", "complete"}
  PROVE  /\ targets[d] # <<>>
         /\ \A n \in 1..Len(targets[d]) : Real(msgs'[targets[d][n]])
         /\ pc[d] \in {"ping", "pingEdit", "complete"} =>
               /\ receipt[d] \in 1..Len(grants')
               /\ grants'[receipt[d]].entry = msgs'[Target(d)].entry
<1>0. TypeOK /\ TypeOK' /\ Kept /\ ObjectsKept /\ ThreadOK(d) /\ Len(grants) \in Nat /\ Len(grants') \in Nat
  BY TypeStep, KeptStep, ObjectsStep, LenProperties DEF IInv, ThreadInv, TypeOK
<1>1. targets[d] # <<>> /\ targets[d] \in Seq(Ids) /\ Target(d) \in Ids /\ Real(msgs[Target(d)])
  BY TargetFacts
<1>2. ASSUME NEW n \in 1..Len(targets[d]) PROVE Real(msgs'[targets[d][n]])
  <2>1. targets[d][n] \in Ids
    BY <1>1, <1>2, ElementOfSeq
  <2>2. Real(msgs[targets[d][n]])
    BY <1>0 DEF ThreadOK
  <2> QED
    BY <1>0, <2>1, <2>2 DEF ObjectsKept
<1>3. ASSUME pc[d] \in {"ping", "pingEdit", "complete"}
      PROVE  /\ receipt[d] \in 1..Len(grants')
             /\ grants'[receipt[d]].entry = msgs'[Target(d)].entry
  <2>1. receipt[d] \in 1..Len(grants) /\ grants[receipt[d]].entry = msgs[Target(d)].entry
    BY <1>0, <1>3 DEF ThreadOK
  <2>2. msgs'[Target(d)].entry = msgs[Target(d)].entry
    BY <1>0, <1>1 DEF ObjectsKept
  <2>3. grants'[receipt[d]].entry = grants[receipt[d]].entry /\ Len(grants) <= Len(grants')
    BY <1>0, <2>1 DEF Kept
  <2> QED
    BY <1>0, <2>1, <2>2, <2>3
<1> QED
  BY <1>1, <1>2, <1>3

LEMMA ThreadSameOK ==
  ASSUME IInv, [Next]_vars, ~Restart, NEW d \in Clients, ThreadSame(d),
         \A c \in Clients : Insert(c) => c # d
  PROVE  ThreadOK(d)'
<1>0. ThreadOK(d) /\ ArrivalInv
  BY DEF IInv, ThreadInv
<1>1. ASSUME pc[d] = "insert"
      PROVE  incoming'[d] \in Entries /\ fate'[incoming'[d]] = "arriving"
  <2>1. incoming[d] \in Entries /\ fate[incoming[d]] = "arriving"
    BY <1>0, <1>1 DEF ThreadOK
  <2>2. \A c \in Clients : Insert(c) => incoming[c] # incoming[d]
    BY <1>0, <1>1 DEF ArrivalInv, Insert
  <2> QED
    BY <2>1, <2>2, StillArriving DEF ThreadSame
<1>2. ASSUME pc[d] \in {"take", "edit", "ping", "pingEdit", "complete"}
      PROVE  /\ targets'[d] # <<>>
             /\ \A n \in 1..Len(targets'[d]) : Real(msgs'[targets'[d][n]])
             /\ pc[d] \in {"ping", "pingEdit", "complete"} =>
                   /\ receipt'[d] \in 1..Len(grants')
                   /\ grants'[receipt'[d]].entry = msgs'[Head(targets'[d])].entry
  BY <1>2, WorkKept DEF ThreadSame, Target
<1> QED
  BY <1>1, <1>2 DEF ThreadOK, ThreadSame, Target, Real

(* An idle thread has no obligation. *)
LEMMA IdleOK ==
  ASSUME NEW d \in Clients, pc'[d] = "idle"
  PROVE  ThreadOK(d)'
BY DEF ThreadOK

(* The thread steps to its next target, or to its first edit of this one. *)
LEMMA NextTargetOK ==
  ASSUME IInv, [Next]_vars, ~Restart, NEW c \in Clients, pc[c] \in {"take", "edit"}, NextTarget(c)
  PROVE  ThreadOK(c)'
<1>0. TypeOK
  BY DEF IInv
<1>1. /\ targets[c] # <<>> /\ targets[c] \in Seq(Ids)
      /\ \A n \in 1..Len(targets[c]) : Real(msgs'[targets[c][n]])
  BY WorkKept, TargetFacts
<1>2. targets'[c] = Tail(targets[c])
  BY <1>0 DEF NextTarget, TypeOK
<1>3. pc'[c] = IF Len(targets[c]) = 1 THEN "idle" ELSE "take"
  BY <1>0 DEF NextTarget, TypeOK
<1>4. CASE Len(targets[c]) = 1
  BY <1>3, <1>4, IdleOK
<1>5. CASE Len(targets[c]) # 1
  <2>1. /\ Tail(targets[c]) # <<>>
        /\ \A n \in 1..Len(Tail(targets[c])) :
              /\ Tail(targets[c])[n] = targets[c][n + 1]
              /\ n + 1 \in 1..Len(targets[c])
    BY <1>1, <1>5, TailFacts
  <2>2. \A n \in 1..Len(Tail(targets[c])) : Real(msgs'[Tail(targets[c])[n]])
    BY <1>1, <2>1
  <2> QED
    BY <1>2, <1>3, <1>5, <2>1, <2>2 DEF ThreadOK, Real
<1> QED
  BY <1>4, <1>5

(* Entering an edit keeps the list and the pop receipt. *)
LEMMA EnterEditOK ==
  ASSUME IInv, [Next]_vars, ~Restart, NEW c \in Clients,
         UNCHANGED <<targets, receipt>>,
         \/ pc[c] = "take" /\ pc'[c] = "edit"
         \/ pc[c] = "ping" /\ pc'[c] = "pingEdit"
  PROVE  ThreadOK(c)'
<1>1. /\ targets[c] # <<>>
      /\ \A n \in 1..Len(targets[c]) : Real(msgs'[targets[c][n]])
      /\ pc[c] = "ping" => /\ receipt[c] \in 1..Len(grants')
                           /\ grants'[receipt[c]].entry = msgs'[Head(targets[c])].entry
  BY WorkKept DEF Target
<1> QED
  BY <1>1 DEF ThreadOK, Target, Real

LEMMA ReturnOK ==
  ASSUME TypeOK, NEW c \in Clients, Return(c)
  PROVE  ThreadOK(c)'
<1>1. pc'[c] = "idle"
  BY DEF Return, TypeOK
<1> QED
  BY <1>1, IdleOK

LEMMA OwnStep ==
  ASSUME IInv, [Next]_vars, ~Restart, NEW c \in Clients, Request(c)
  PROVE  ThreadOK(c)'
<1>0. TypeOK /\ CacheInv /\ ThreadOK(c)
  BY DEF IInv, ThreadInv
<1>1. ASSUME NEW e \in Entries, CheckDuplicate(c, e) PROVE ThreadOK(c)'
  <2>1. pc'[c] = "idle" \/ (pc'[c] = "insert" /\ incoming'[c] = e /\ fate'[e] = "arriving")
    BY <1>0, <1>1 DEF CheckDuplicate, TypeOK
  <2> QED
    BY <2>1 DEF ThreadOK
<1>2. ASSUME Insert(c) PROVE ThreadOK(c)'
  <2>1. pc'[c] = "idle"
    BY <1>0, <1>2 DEF Insert, TypeOK
  <2> QED
    BY <2>1, IdleOK
<1>3. ASSUME NEW n \in Counts, SelectTargets(c, n) PROVE ThreadOK(c)'
  <2>1. PICK s \in UNION {[1..k -> Visible] : k \in 1..n} :
           targets' = [targets EXCEPT ![c] = s]
    BY <1>3 DEF SelectTargets
  <2>2. PICK k \in 1..n : s \in [1..k -> Visible]
    BY <2>1
  <2>3. k \in Nat /\ k # 0 /\ Visible \subseteq Ids /\ \A id \in Visible : Real(msgs[id])
    BY <1>0, <2>2 DEF TypeOK, CacheInv, Visible
  <2>4. s \in Seq(Ids) /\ Len(s) = k /\ s # <<>>
    <3>1. s \in Seq(Ids) /\ Len(s) = k
      BY <2>2, <2>3
    <3> QED
      BY <2>3, <3>1, EmptySeq
  <2>5. \A m \in 1..Len(s) : Real(msgs[s[m]])
    BY <2>2, <2>3, <2>4
  <2>6. pc'[c] = "take" /\ targets'[c] = s /\ msgs' = msgs
    BY <1>0, <1>3, <2>1 DEF SelectTargets, memory, TypeOK
  <2> QED
    BY <2>4, <2>5, <2>6 DEF ThreadOK, Real
<1>4. ASSUME BeginEdit(c) PROVE ThreadOK(c)'
  <2>1. CASE NextTarget(c)
    BY <1>4, <2>1, NextTargetOK DEF BeginEdit
  <2>2. CASE pc' = [pc EXCEPT ![c] = "edit"] /\ UNCHANGED targets
    <3>1. pc[c] = "take" /\ pc'[c] = "edit" /\ UNCHANGED <<targets, receipt>>
      BY <1>0, <1>4, <2>2 DEF BeginEdit, TypeOK
    <3> QED
      BY <3>1, EnterEditOK
  <2> QED
    BY <1>4, <2>1, <2>2 DEF BeginEdit
<1>5. ASSUME Take(c) PROVE ThreadOK(c)'
  BY <1>5, NextTargetOK DEF Take
<1>6. ASSUME NEW r \in 1..Len(grants), NEW step \in {"ping", "complete"}, Lookup(c, r, step)
      PROVE  ThreadOK(c)'
  <2>1. PICK id \in cache : msgs[id].receipt = r /\ targets' = [targets EXCEPT ![c] = <<id>>]
    BY <1>6 DEF Lookup
  <2>2. /\ UNCHANGED <<msgs, grants>> /\ pc'[c] = step /\ receipt'[c] = r
        /\ targets'[c] = <<id>> /\ id \in Ids /\ Real(msgs[id])
    BY <1>0, <1>6, <2>1 DEF Lookup, memory, history, TypeOK, CacheInv
  <2>3. r # NoReceipt /\ grants[r].entry = msgs[id].entry
    <3>1. r # NoReceipt
      BY DEF NoReceipt
    <3> QED
      BY <2>1, <2>2, <3>1 DEF IInv, StoreInv
  <2>4. <<id>> # <<>> /\ Len(<<id>>) = 1 /\ <<id>>[1] = id /\ Head(<<id>>) = id
    OBVIOUS
  <2> QED
    BY <2>2, <2>3, <2>4 DEF ThreadOK, Target, Real
<1>7. ASSUME PingBegin(c) PROVE ThreadOK(c)'
  <2>1. CASE Return(c)
    BY <1>0, <2>1, ReturnOK
  <2>2. CASE pc' = [pc EXCEPT ![c] = "pingEdit"] /\ UNCHANGED <<targets, receipt>>
    <3>1. pc[c] = "ping" /\ pc'[c] = "pingEdit"
      BY <1>0, <1>7, <2>2 DEF PingBegin, TypeOK
    <3> QED
      BY <2>2, <3>1, EnterEditOK
  <2> QED
    BY <1>7, <2>1, <2>2 DEF PingBegin
<1>8. ASSUME PingApply(c) \/ Remove(c) PROVE ThreadOK(c)'
  BY <1>0, <1>8, ReturnOK DEF PingApply, Remove
<1> QED
  BY <1>1, <1>2, <1>3, <1>4, <1>5, <1>6, <1>7, <1>8 DEF Request, Enqueue, Dequeue, Ping, Complete

LEMMA ThreadsStep ==
  ASSUME IInv, [Next]_vars
  PROVE  ThreadInv'
<1>0. TypeOK
  BY DEF IInv
<1>1. SUFFICES ASSUME NEW d \in Clients PROVE ThreadOK(d)'
  BY DEF ThreadInv
<1>2. CASE Restart
  <2>1. pc'[d] = "idle"
    BY <1>2 DEF Restart
  <2> QED
    BY <2>1, IdleOK
<1>3. ASSUME ~Restart, NEW c \in Clients, Request(c) PROVE ThreadOK(d)'
  <2>1. CASE d = c
    BY <1>3, <2>1, OwnStep
  <2>2. CASE d # c
    <3>1. ThreadSame(d)
      BY <1>0, <1>3, <2>2, OthersSame
    <3>2. ~Insert(d)
      BY <1>0, <3>1 DEF Insert, ThreadSame, TypeOK
    <3> QED
      BY <1>3, <3>1, <3>2, ThreadSameOK
  <2> QED
    BY <2>1, <2>2
<1>4. ASSUME ~Restart, UNCHANGED threads PROVE ThreadOK(d)'
  <2>1. ThreadSame(d) /\ ~Insert(d)
    BY <1>0, <1>4 DEF threads, ThreadSame, Insert, TypeOK
  <2> QED
    BY <1>4, <2>1, ThreadSameOK
<1>5. ASSUME NEW f \in Flushers, Flush(f) PROVE UNCHANGED threads
  BY <1>5 DEF Flush, FlushBegin, FlushSnapshot, FlushWrite, FlushFails
<1>6. ASSUME Tick \/ UNCHANGED vars PROVE UNCHANGED threads
  BY <1>6 DEF Tick, vars, threads
<1> QED
  BY <1>2, <1>3, <1>4, <1>5, <1>6 DEF Next

LEMMA ArrivalStep ==
  ASSUME IInv, [Next]_vars
  PROVE  ArrivalInv'
<1>0. TypeOK /\ ArrivalInv
  BY DEF IInv
<1>1. ASSUME NEW c \in Clients, NEW e \in Entries, CheckDuplicate(c, e) PROVE ArrivalInv'
  <2>1. \A d \in Clients : pc[d] = "insert" => incoming[d] # e
    BY <1>1 DEF CheckDuplicate, IInv, ThreadInv, ThreadOK
  <2>2. CASE UNCHANGED <<pc, incoming>>
    BY <1>0, <2>2 DEF ArrivalInv
  <2>3. CASE /\ pc' = [pc EXCEPT ![c] = "insert"]
             /\ incoming' = [incoming EXCEPT ![c] = e]
    <3>1. /\ incoming'[c] = e
          /\ \A d \in Clients : d # c => pc'[d] = pc[d] /\ incoming'[d] = incoming[d]
      BY <1>0, <2>3 DEF TypeOK
    <3> QED
      BY <1>0, <2>1, <3>1 DEF ArrivalInv
  <2> QED
    BY <1>1, <2>2, <2>3 DEF CheckDuplicate
<1>2. ASSUME NEW c \in Clients, pc'[c] # "insert",
             \A d \in Clients : d # c => ThreadSame(d)
      PROVE  ArrivalInv'
  BY <1>0, <1>2 DEF ArrivalInv, ThreadSame
<1>3. ASSUME NEW c \in Clients, Request(c), ~Enqueue(c) PROVE pc'[c] # "insert"
  BY <1>0, <1>3 DEF Request, Dequeue, Ping, Complete, Insert, SelectTargets, BeginEdit, Take,
     NextTarget, Lookup, PingBegin, PingApply, Remove, Return, TypeOK
<1>4. CASE UNCHANGED threads
  BY <1>0, <1>4 DEF threads, ArrivalInv
<1>5. CASE Restart
  BY <1>5 DEF Restart, ArrivalInv
<1>6. ASSUME NEW f \in Flushers, Flush(f) PROVE UNCHANGED threads
  BY <1>6 DEF Flush, FlushBegin, FlushSnapshot, FlushWrite, FlushFails
<1>7. ASSUME Tick \/ UNCHANGED vars PROVE UNCHANGED threads
  BY <1>7 DEF Tick, vars, threads
<1>8. ASSUME NEW c \in Clients, Request(c), ~Enqueue(c) PROVE ArrivalInv'
  <2>1. pc'[c] # "insert"
    BY <1>3, <1>8
  <2>2. \A d \in Clients : d # c => ThreadSame(d)
    BY <1>0, <1>8, OthersSame
  <2> QED
    BY <1>2, <2>1, <2>2
<1> QED
  BY <1>1, <1>4, <1>5, <1>6, <1>7, <1>8 DEF Next, Enqueue

-------------------------------------------------------------------------------
(* The inductive invariant holds from the start and is kept by every step. *)
LEMMA InitInv == Init => IInv
<1> SUFFICES ASSUME Init PROVE IInv
  OBVIOUS
<1>1. TypeOK
  <2>1. /\ <<>> \in Seq(Ids) /\ <<>> \in Seq([entry : Entries, until : Nat]) /\ Len(<<>>) = 0
    BY EmptySeq
  <2>2. msgs \in [Ids -> Message \cup {NoMessage}] /\ table \in [Ids -> Message \cup {NoMessage}]
    BY DEF Init
  <2>3. /\ targets \in [Clients -> Seq(Ids)] /\ receipt \in [Clients -> Receipts]
        /\ grants \in Seq([entry : Entries, until : Nat]) /\ Len(grants) <= MaxReceipt
    BY <2>1 DEF Init, Receipts, NoReceipt
  <2>4. now \in Nat /\ identity \in 0..MaxId /\ crashes \in Nat
    BY DEF Init
  <2>6. cache \subseteq Ids /\ locked \subseteq Ids /\ overtaken \subseteq Entries
    BY DEF Init
  <2>7. dirty \in BOOLEAN /\ flushFailed \in BOOLEAN
    BY Zenon DEF Init
  <2>5. /\ pc \in [Clients -> Steps] /\ incoming \in [Clients -> Entries \cup {NoEntry}]
        /\ flush \in [Flushers -> FlushSteps] /\ flushing \in [Flushers -> SUBSET Ids]
        /\ fate \in [Entries -> Fates]
    BY DEF Init, Steps, FlushSteps, Fates
  <2> QED
    BY <2>2, <2>3, <2>4, <2>5, <2>6, <2>7 DEF TypeOK
<1>2. \A id \in Ids : ~Real(msgs[id]) /\ ~Real(table[id])
  BY RealIsNotNone DEF Init
<1>3. CacheInv /\ StoreInv(msgs) /\ StoreInv(table) /\ LeaseInv
  BY <1>2 DEF Init, CacheInv, StoreInv, LeaseInv
<1>4. ThreadInv /\ ArrivalInv
  BY DEF Init, ThreadInv, ThreadOK, ArrivalInv
<1>5. GrantInv
  BY DEF Init, GrantInv
<1> QED
  BY <1>1, <1>3, <1>4, <1>5 DEF IInv

(* The inductive invariant: everything in the queue arrived once, under one  *)
(* id and with its own pop receipt, whatever threads, flushes and crashes do.*)
THEOREM Invariance == Spec => []IInv
<1>1. IInv /\ [Next]_vars => IInv'
  <2> SUFFICES ASSUME IInv, [Next]_vars PROVE IInv'
    OBVIOUS
  <2>1. TypeOK' /\ CacheInv' /\ ThreadInv' /\ ArrivalInv'
    BY TypeStep, CacheStep, ThreadsStep, ArrivalStep
  <2>2. StoreInv(msgs)' /\ StoreInv(table)' /\ GrantInv' /\ LeaseInv'
    BY MemoryStep, TableStep, GrantStep, LeaseStep
  <2> QED
    BY <2>1, <2>2 DEF IInv
<1> QED
  BY InitInv, <1>1, PTL DEF Spec

(* Types, for every size of the queue and number of request threads. *)
THEOREM TypeCorrect == Spec => []TypeOK
<1>1. IInv => TypeOK
  BY DEF IInv
<1> QED
  BY Invariance, <1>1, PTL

(* Dequeue never hands a message out while a lease granted for it runs,      *)
(* unless a ping raced a Dequeue on it or the server restarted meanwhile.    *)
THEOREM LeasesRespected == Spec => LeaseRespected
<1>1. IInv /\ [Next]_vars => [HandedOutFree]_vars
  <2> SUFFICES ASSUME IInv, [Next]_vars PROVE HandedOutFree
    OBVIOUS
  <2>0. TypeOK /\ Len(grants) \in Nat
    BY LenProperties DEF IInv, TypeOK
  <2>1. ASSUME NEW c \in Clients, Take(c), Taken(c) PROVE HandedOutFree
    <3> DEFINE id == Target(c)
    <3>1. /\ id \in Ids /\ Real(msgs[id]) /\ msgs[id].nextVisible <= now
          /\ Len(grants') = Len(grants) + 1
          /\ grants'[Len(grants) + 1].entry = msgs[id].entry
      BY <2>1, TakeEffect DEF Taken, StillVisible
    <3>2. SUFFICES ASSUME msgs[id].entry \notin overtaken,
                          NEW s \in Delivered(msgs[id].entry)
                   PROVE  grants[s].until <= now
      BY <2>0, <3>1 DEF HandedOutFree
    <3>3. grants[s].until <= msgs[id].nextVisible
      BY <3>1, <3>2 DEF IInv, LeaseInv
    <3>4. grants[s].until \in Nat /\ msgs[id].nextVisible \in Nat /\ now \in Nat
      <4>1. grants[s] \in [entry : Entries, until : Nat]
        BY <2>0, ElementOfSeq DEF TypeOK, Delivered
      <4> QED
        BY <2>0, <3>1, <4>1 DEF TypeOK, Real, Message
    <3> QED
      BY <3>1, <3>3, <3>4
  <2>2. CASE Len(grants') = Len(grants)
    BY <2>2 DEF HandedOutFree
  <2>3. (\E c \in Clients : Take(c) /\ Taken(c)) \/ Len(grants') = Len(grants)
    BY MessageFrame, TakeEffect, PingEffect DEF Pinged, Insert, Restart
  <2> QED
    BY <2>1, <2>2, <2>3
<1> QED
  BY Invariance, <1>1, PTL DEF Spec, LeaseRespected

-------------------------------------------------------------------------------
(* No accepted message leaves memory but through Remove, an expiring flush   *)
(* or a restart, and each of those settles its fate.                         *)
LEMMA NothingLostStep ==
  ASSUME IInv, NothingLost, [Next]_vars
  PROVE  NothingLost'
<1>0. TypeOK /\ CacheInv
  BY DEF IInv
<1>1. SUFFICES ASSUME NEW e \in Entries, fate'[e] = "accepted"
               PROVE  \E id \in cache' : msgs'[id].entry = e
  BY DEF NothingLost
<1>2. ASSUME NEW c \in Clients, Insert(c) PROVE \E id \in cache' : msgs'[id].entry = e
  <2>1. CASE e = incoming[c]
    BY <1>2, <2>1, InsertEffect DEF Insert
  <2>2. CASE e # incoming[c]
    <3>1. fate[e] = "accepted"
      BY <1>0, <1>1, <1>2, <2>2 DEF Insert, TypeOK
    <3>2. PICK id \in cache : msgs[id].entry = e
      BY <3>1 DEF NothingLost
    <3>3. id \in Ids /\ msgs'[id] = msgs[id]
      BY <1>0, <1>2, InsertEffect DEF TypeOK, CacheInv
    <3> QED
      BY <1>2, <3>2, <3>3 DEF Insert
  <2> QED
    BY <2>1, <2>2
<1>3. ASSUME NEW S, Settle(S, "completed") \/ Settle(S, "expired"),
             cache' = cache \ S, UNCHANGED msgs
      PROVE  \E id \in cache' : msgs'[id].entry = e
  <2>1. fate[e] = "accepted" /\ ~\E id \in S \cap cache : msgs[id].entry = e
    BY <1>1, <1>3 DEF Settle
  <2> QED
    BY <1>3, <2>1 DEF NothingLost
<1>4. CASE Restart
  <2>1. fate[e] = "accepted" /\ \E id \in Saved : table[id].entry = e
    BY <1>0, <1>1, <1>4 DEF Restart, TypeOK, Fates
  <2> QED
    BY <1>4, <2>1 DEF Restart
<1>5. ASSUME NEW c \in Clients, NEW d \in Entries, CheckDuplicate(c, d)
      PROVE  \E id \in cache' : msgs'[id].entry = e
  <2>1. fate[e] = "accepted"
    BY <1>0, <1>1, <1>5 DEF CheckDuplicate, TypeOK
  <2> QED
    BY <1>5, <2>1 DEF NothingLost, CheckDuplicate, memory
<1>6. ASSUME ~Restart, UNCHANGED <<fate, cache>> PROVE \E id \in cache' : msgs'[id].entry = e
  <2>1. PICK id \in cache : msgs[id].entry = e
    BY <1>1, <1>6 DEF NothingLost
  <2>2. id \in Ids /\ Real(msgs[id])
    BY <1>0 DEF TypeOK, CacheInv
  <2> QED
    BY <1>6, <2>1, <2>2, ObjectsStep DEF ObjectsKept
<1>7. ASSUME NEW c \in Clients, Remove(c) PROVE \E id \in cache' : msgs'[id].entry = e
  BY <1>3, <1>7 DEF Remove
<1>8. ASSUME NEW f \in Flushers, FlushSnapshot(f) PROVE \E id \in cache' : msgs'[id].entry = e
  BY <1>3, <1>8 DEF FlushSnapshot
<1> QED
  BY <1>2, <1>4, <1>5, <1>6, <1>7, <1>8, FateFrame

(* What Enqueue accepted stays until it is completed or expires, whatever    *)
(* interleaving of requests, flushes and restarts.                           *)
THEOREM NoMessageLost == Spec => []NothingLost
<1>1. Init => NothingLost
  BY DEF Init, NothingLost
<1>2. IInv /\ NothingLost /\ [Next]_vars => NothingLost'
  BY NothingLostStep
<1> QED
  BY Invariance, <1>1, <1>2, PTL DEF Spec

-------------------------------------------------------------------------------
(* Locks: a thread enters an edit with the lock of its target and leaves it  *)
(* without, and nothing else touches the locks.                              *)
LEMMA LockStep ==
  ASSUME IInv, LockDiscipline, [Next]_vars
  PROVE  LockDiscipline'
<1>0. TypeOK
  BY DEF IInv
<1> DEFINE In(d) == pc[d] \in {"edit", "pingEdit"}
<1>1. /\ \A id : id \in locked <=> \E d \in Clients : In(d) /\ id = Target(d)
      /\ \A a, b \in Clients : (In(a) /\ In(b) /\ Target(a) = Target(b)) => a = b
  BY DEF LockDiscipline, Editing
<1>2. ASSUME NEW c \in Clients, ~In(c), pc'[c] \in {"edit", "pingEdit"}, targets' = targets,
             \A d \in Clients : d # c => ThreadSame(d),
             Target(c) \notin locked, locked' = locked \cup {Target(c)}
      PROVE  LockDiscipline'
  <2>1. \A d \in Clients : In(d)' <=> (In(d) \/ d = c)
    BY <1>2 DEF ThreadSame
  <2>2. \A d \in Clients : Target(d)' = Target(d)
    BY <1>2 DEF Target
  <2>3. \A id : id \in locked' <=> \E d \in Clients : In(d)' /\ id = Target(d)'
    BY <1>1, <1>2, <2>1, <2>2
  <2>4. \A a, b \in Clients : (In(a)' /\ In(b)' /\ Target(a)' = Target(b)') => a = b
    BY <1>1, <1>2, <2>1, <2>2
  <2> QED
    BY <2>3, <2>4 DEF LockDiscipline, Editing
<1>3. ASSUME NEW c \in Clients, In(c), pc'[c] \notin {"edit", "pingEdit"},
             \A d \in Clients : d # c => ThreadSame(d),
             locked' = locked \ {Target(c)}
      PROVE  LockDiscipline'
  <2>1. \A d \in Clients : In(d)' <=> (In(d) /\ d # c)
    BY <1>3 DEF ThreadSame
  <2>2. \A d \in Clients : d # c => Target(d)' = Target(d)
    BY <1>3 DEF ThreadSame, Target
  <2>3. \A id : id \in locked' <=> \E d \in Clients : In(d)' /\ id = Target(d)'
    BY <1>1, <1>3, <2>1, <2>2
  <2>4. \A a, b \in Clients : (In(a)' /\ In(b)' /\ Target(a)' = Target(b)') => a = b
    BY <1>1, <2>1, <2>2
  <2> QED
    BY <2>3, <2>4 DEF LockDiscipline, Editing
<1>4. ASSUME NEW c \in Clients, ~In(c), pc'[c] \notin {"edit", "pingEdit"},
             \A d \in Clients : d # c => ThreadSame(d), locked' = locked
      PROVE  LockDiscipline'
  <2>1. \A d \in Clients : In(d)' <=> In(d)
    BY <1>4 DEF ThreadSame
  <2>2. \A d \in Clients : In(d) => Target(d)' = Target(d)
    BY <1>4 DEF ThreadSame, Target
  <2>3. \A id : id \in locked' <=> \E d \in Clients : In(d)' /\ id = Target(d)'
    BY <1>1, <1>4, <2>1, <2>2
  <2>4. \A a, b \in Clients : (In(a)' /\ In(b)' /\ Target(a)' = Target(b)') => a = b
    BY <1>1, <2>1, <2>2
  <2> QED
    BY <2>3, <2>4 DEF LockDiscipline, Editing
<1>5. ASSUME NEW c \in Clients, Request(c) PROVE LockDiscipline'
  <2>1. \A d \in Clients : d # c => ThreadSame(d)
    BY <1>0, <1>5, OthersSame
  <2>2. CASE Enqueue(c) \/ Insert(c) \/ Dequeue(c) \/ Ping(c) \/ Complete(c) \/ Remove(c)
    <3>1. ~In(c) /\ pc'[c] \notin {"edit", "pingEdit"} /\ locked' = locked
      BY <1>0, <2>2 DEF Enqueue, CheckDuplicate, Insert, Dequeue, SelectTargets, Ping, Complete,
                        Lookup, Remove, Return, memory, TypeOK
    <3> QED
      BY <1>4, <2>1, <3>1
  <2>3. CASE BeginEdit(c)
    <3>1. CASE NextTarget(c) /\ UNCHANGED locked
      <4>1. ~In(c) /\ pc'[c] \notin {"edit", "pingEdit"}
        BY <1>0, <2>3, <3>1 DEF BeginEdit, NextTarget, TypeOK
      <4> QED
        BY <1>4, <2>1, <3>1, <4>1
    <3>2. CASE /\ Target(c) \notin locked /\ locked' = locked \cup {Target(c)}
               /\ pc' = [pc EXCEPT ![c] = "edit"] /\ UNCHANGED targets
      <4>1. ~In(c) /\ pc'[c] = "edit"
        BY <1>0, <2>3, <3>2 DEF BeginEdit, TypeOK
      <4> QED
        BY <1>2, <2>1, <3>2, <4>1
    <3> QED
      BY <2>3, <3>1, <3>2 DEF BeginEdit
  <2>4. CASE PingBegin(c)
    <3>1. CASE Return(c) /\ UNCHANGED locked
      <4>1. ~In(c) /\ pc'[c] \notin {"edit", "pingEdit"}
        BY <1>0, <2>4, <3>1 DEF PingBegin, Return, TypeOK
      <4> QED
        BY <1>4, <2>1, <3>1, <4>1
    <3>2. CASE /\ Target(c) \notin locked /\ locked' = locked \cup {Target(c)}
               /\ pc' = [pc EXCEPT ![c] = "pingEdit"] /\ UNCHANGED targets
      <4>1. ~In(c) /\ pc'[c] = "pingEdit"
        BY <1>0, <2>4, <3>2 DEF PingBegin, TypeOK
      <4> QED
        BY <1>2, <2>1, <3>2, <4>1
    <3> QED
      BY <2>4, <3>1, <3>2 DEF PingBegin
  <2>5. CASE Take(c) \/ PingApply(c)
    <3>1. In(c) /\ pc'[c] \notin {"edit", "pingEdit"} /\ locked' = locked \ {Target(c)}
      BY <1>0, <2>5 DEF Take, PingApply, EndEdit, NextTarget, Return, TypeOK
    <3> QED
      BY <1>3, <2>1, <3>1
  <2> QED
    BY <1>5, <2>2, <2>3, <2>4, <2>5 DEF Request
<1>6. CASE Restart
  <2>1. locked' = {} /\ \A d \in Clients : pc'[d] = "idle"
    BY <1>6 DEF Restart
  <2> QED
    BY <2>1 DEF LockDiscipline, Editing
<1>7. CASE UNCHANGED <<pc, targets, locked>>
  BY <1>7 DEF LockDiscipline, Editing, Target
<1>8. ASSUME NEW f \in Flushers, Flush(f) PROVE UNCHANGED <<pc, targets, locked>>
  BY <1>8 DEF Flush, FlushBegin, FlushSnapshot, FlushWrite, FlushFails, threads, memory
<1>9. ASSUME Tick \/ UNCHANGED vars PROVE UNCHANGED <<pc, targets, locked>>
  BY <1>9 DEF Tick, threads, memory, vars
<1> QED
  BY <1>5, <1>6, <1>7, <1>8, <1>9 DEF Next

(* Dequeue and Ping never edit one message at once, and leave none locked. *)
THEOREM LocksDisciplined == Spec => []LockDiscipline
<1>1. Init => LockDiscipline
  BY DEF Init, LockDiscipline, Editing
<1>2. IInv /\ LockDiscipline /\ [Next]_vars => LockDiscipline'
  BY LockStep
<1> QED
  BY Invariance, <1>1, <1>2, PTL DEF Spec

-------------------------------------------------------------------------------
(* One flusher.  A change of memory marks the repository dirty, so while it  *)
(* is clean a write under way still holds all there is to save.              *)
LEMMA CleanFrame ==
  ASSUME [Next]_vars, ~dirty', ~Restart
  PROVE  \/ UNCHANGED <<msgs, cache, dirty>>
         \/ \E f \in Flushers : FlushBegin(f) \/ FlushSnapshot(f)
<1>1. ASSUME NEW c \in Clients, Request(c) PROVE UNCHANGED <<msgs, cache, dirty>>
  BY <1>1 DEF Request, Enqueue, Dequeue, Ping, Complete, CheckDuplicate, Insert, SelectTargets,
              BeginEdit, Take, Lookup, PingBegin, PingApply, Remove, memory
<1>2. ASSUME NEW f \in Flushers, Flush(f), ~FlushBegin(f), ~FlushSnapshot(f)
      PROVE  UNCHANGED <<msgs, cache, dirty>>
  BY <1>2 DEF Flush, FlushWrite, FlushFails, memory
<1>3. ASSUME Tick \/ UNCHANGED vars PROVE UNCHANGED <<msgs, cache, dirty>>
  BY <1>3 DEF Tick, memory, vars
<1> QED
  BY <1>1, <1>2, <1>3 DEF Next

LEMMA FlusherFrame ==
  ASSUME [Next]_vars
  PROVE  \/ \E f \in Flushers : Flush(f)
         \/ Restart
         \/ UNCHANGED <<flush, flushing, table, flushFailed>>
<1>1. ASSUME NEW c \in Clients, Request(c) PROVE UNCHANGED <<flush, flushing, table, flushFailed>>
  BY <1>1 DEF Request, Enqueue, Dequeue, Ping, Complete, CheckDuplicate, Insert, SelectTargets,
              BeginEdit, Take, Lookup, PingBegin, PingApply, Remove, flushVars
<1>2. ASSUME Tick \/ UNCHANGED vars PROVE UNCHANGED <<flush, flushing, table, flushFailed>>
  BY <1>2 DEF Tick, flushVars, vars
<1> QED
  BY <1>1, <1>2 DEF Next

(* FlushInv for a single flusher f. *)
OneFlushInv(f) ==
    /\ (~dirty /\ ~flushFailed /\ flush[f] = "idle") => InSync
    /\ (flush[f] = "write" /\ ~dirty) =>
          /\ cache \subseteq flushing[f]
          /\ \A id \in flushing[f] \ cache : msgs[id].expire < now
    /\ flush[f] = "write" => \A id \in flushing[f] : Real(msgs[id])

LEMMA FlushStep ==
  ASSUME NEW f, Flushers = {f}, IInv, OneFlushInv(f), [Next]_vars
  PROVE  OneFlushInv(f)'
<1>0. /\ TypeOK /\ CacheInv /\ f \in Flushers /\ now \in Nat /\ now' \in Nat /\ now <= now'
  BY NowStep DEF IInv, TypeOK
<1>1. ASSUME Restart PROVE OneFlushInv(f)'
  <2>1. /\ flush'[f] = "idle" /\ msgs' = table /\ table' = table /\ cache' = Saved
    BY <1>0, <1>1 DEF Restart
  <2>2. InSync'
    BY <2>1 DEF InSync, Saved
  <2> QED
    BY <2>1, <2>2 DEF OneFlushInv
<1>2. ASSUME ~Restart, FlushBegin(f) PROVE OneFlushInv(f)'
  <2>1. flush'[f] = "snapshot"
    BY <1>0, <1>2 DEF FlushBegin, TypeOK
  <2> QED
    BY <2>1 DEF OneFlushInv
<1>3. ASSUME ~Restart, FlushSnapshot(f) PROVE OneFlushInv(f)'
  <2>1. /\ flush'[f] = "write" /\ flushing'[f] = cache /\ cache' = cache \ Expired
        /\ msgs' = msgs /\ now' = now
    BY <1>0, <1>3 DEF FlushSnapshot, Listed, TypeOK
  <2>2. \A id \in flushing'[f] \ cache' : msgs'[id].expire < now'
    BY <2>1 DEF Expired
  <2>3. \A id \in flushing'[f] : Real(msgs'[id])
    BY <1>0, <2>1 DEF CacheInv
  <2> QED
    BY <2>1, <2>2, <2>3 DEF OneFlushInv, Real
<1>4. ASSUME ~Restart, FlushWrite(f) PROVE OneFlushInv(f)'
  <2>1. /\ flush'[f] = "idle" /\ flush[f] = "write"
        /\ UNCHANGED <<msgs, cache, dirty, now>>
        /\ table' = [id \in Ids |-> IF id \in flushing[f] THEN msgs[id] ELSE NoMessage]
    BY <1>0, <1>4 DEF FlushWrite, memory, TypeOK
  <2>2. ASSUME ~dirty PROVE InSync'
    BY <2>1, <2>2 DEF InSync, OneFlushInv
  <2> QED
    BY <2>1, <2>2 DEF OneFlushInv
<1>5. ASSUME ~Restart, FlushFails(f) PROVE OneFlushInv(f)'
  <2>1. flush'[f] = "idle" /\ flushFailed' = TRUE
    BY <1>0, <1>5 DEF FlushFails, TypeOK
  <2> QED
    BY <2>1 DEF OneFlushInv
<1>6. ASSUME ~Restart, ~Flush(f) PROVE OneFlushInv(f)'
  <2>1. UNCHANGED <<flush, flushing, table, flushFailed>>
    BY <1>0, <1>6, FlusherFrame
  <2>2. ~dirty' => UNCHANGED <<msgs, cache, dirty>>
    BY <1>0, <1>6, CleanFrame DEF Flush
  <2>3. \A id \in Ids : Real(msgs[id]) => Real(msgs'[id])
    BY <1>6, ObjectsStep DEF ObjectsKept
  <2>4. flush[f] = "write" => \A id \in flushing[f] : Real(msgs'[id])
    BY <1>0, <2>3 DEF OneFlushInv, TypeOK
  <2>5. \A id \in Ids : table[id] # NoMessage => table[id].expire \in Nat
    BY SlotFacts DEF Real, Message
  <2>6. (~dirty' /\ ~flushFailed /\ flush[f] = "idle") => InSync'
    BY <1>0, <2>1, <2>2, <2>5 DEF OneFlushInv, InSync
  <2>7. (flush[f] = "write" /\ ~dirty') =>
          /\ cache' \subseteq flushing[f]
          /\ \A id \in flushing[f] \ cache' : msgs'[id].expire < now'
    <3>1. SUFFICES ASSUME flush[f] = "write", ~dirty'
                   PROVE  /\ cache' \subseteq flushing[f]
                          /\ \A id \in flushing[f] \ cache' : msgs'[id].expire < now'
      OBVIOUS
    <3>2. \A id \in flushing[f] : msgs[id].expire \in Nat
      BY <3>1 DEF OneFlushInv, Real, Message
    <3> QED
      BY <1>0, <2>2, <3>1, <3>2 DEF OneFlushInv
  <2> QED
    BY <2>1, <2>4, <2>6, <2>7 DEF OneFlushInv, Real
<1> QED
  BY <1>1, <1>2, <1>3, <1>4, <1>5, <1>6 DEF Flush

(* With one flusher, a repository that calls itself clean is in the table.   *)
THEOREM CleanIsDurable ==
  ASSUME NEW f, Flushers = {f}
  PROVE  Spec => []DurableWhenClean
<1>1. Init => OneFlushInv(f)
  <2> SUFFICES ASSUME Init PROVE OneFlushInv(f)
    OBVIOUS
  <2>1. InSync /\ flush[f] = "idle"
    BY DEF Init, InSync
  <2> QED
    BY <2>1 DEF OneFlushInv
<1>2. IInv /\ OneFlushInv(f) /\ [Next]_vars => OneFlushInv(f)'
  BY FlushStep
<1>3. OneFlushInv(f) => DurableWhenClean
  BY DEF OneFlushInv, DurableWhenClean
<1> QED
  BY Invariance, <1>1, <1>2, <1>3, PTL DEF Spec
===============================================================================

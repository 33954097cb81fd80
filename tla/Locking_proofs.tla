---------------------------- MODULE Locking_proofs ----------------------------
(* What TLAPS proves of Locking.tla for every set of threads and timeouts:   *)
(* its types; that a lock is exclusive, and _lockKeys agrees with _locks,    *)
(* until some Lock call has found a lock timed out; and that a ping extends  *)
(* the lock in both dictionaries, whatever has timed out.                    *)
EXTENDS Locking, FiniteSetTheorems, TLAPS

USE TimeAssumption, NoLockAssumption

-------------------------------------------------------------------------------
(* What a typed state says of the parts of a lock object. *)
LEMMA LockParts ==
  ASSUME NEW l \in Lock
  PROVE  l.object \in Objects /\ l.key \in Objects /\ l.until \in Nat
BY DEF Lock

LEMMA InitInv == Init => IInv
<1> SUFFICES ASSUME Init PROVE IInv
  OBVIOUS
<1>1. TypeOK
  <2>1. now \in Nat /\ made \in 0..MaxObjects
    BY DEF Init
  <2>2. /\ entity \in Lock \cup {NoLock}
        /\ keys \in [Objects -> Lock \cup {NoLock}]
        /\ old \in [Threads -> Lock \cup {NoLock}]
        /\ fresh \in [Threads -> Lock \cup {NoLock}]
    BY DEF Init
  <2>3. pc \in [Threads -> Steps] /\ \A t \in Threads : pc[t] = "idle"
    BY DEF Init, Steps
  <2>4. /\ lease \in [Objects -> Nat]
        /\ unlocked \subseteq Objects /\ evicted \in BOOLEAN /\ crossed \subseteq Objects
    BY DEF Init
  <2> QED
    BY <2>1, <2>2, <2>3, <2>4 DEF TypeOK
<1>2. KeysMatch /\ BetweenInv /\ GrantInv /\ PingInv /\ NoEviction
  BY DEF Init, KeysMatch, BetweenInv, Between, GrantInv, PingInv, NoEviction
<1> QED
  BY <1>1, <1>2 DEF IInv

LEMMA TypeStep == TypeOK /\ [Next]_vars => TypeOK'
<1> SUFFICES ASSUME TypeOK, [Next]_vars PROVE TypeOK'
  OBVIOUS
<1> USE DEF TypeOK, Steps, GoTo, Return
<1>1. ASSUME NEW t \in Threads, FindLock(t) PROVE TypeOK'
  BY <1>1, LockParts DEF FindLock
<1>2. ASSUME NEW t \in Threads, EvictEntity(t) PROVE TypeOK'
  BY <1>2, LockParts DEF EvictEntity
<1>3. ASSUME NEW t \in Threads, EvictKey(t) PROVE TypeOK'
  BY <1>3, LockParts DEF EvictKey
<1>4. ASSUME NEW t \in Threads, AddLock(t) PROVE TypeOK'
  <2>1. CASE entity # NoLock
    BY <1>4, <2>1 DEF AddLock
  <2>2. CASE entity = NoLock
    <3>1. PICK timeout \in Timeouts :
             /\ made < MaxObjects
             /\ made' = made + 1
             /\ entity' = [object |-> made + 1, key |-> made + 1, until |-> now + timeout]
             /\ old' = [old EXCEPT ![t] = entity']
      BY <1>4, <2>2 DEF AddLock
    <3>2. now + timeout \in Nat
      OBVIOUS
    <3>3. made + 1 \in Objects /\ made' \in 0..MaxObjects
      <4>1. made < MaxObjects /\ made' = made + 1 /\ made \in Nat
        BY <3>1
      <4> QED
        BY <4>1 DEF Objects
    <3>4. entity' \in Lock
      BY <3>1, <3>2, <3>3 DEF Lock
    <3>5. pc[t] = "add" /\ GoTo(t, "register")
      BY <1>4, <2>2, NoLockAssumption, <3>4 DEF AddLock
    <3>6. UNCHANGED <<now, keys, fresh, lease, unlocked, evicted, crossed>>
      BY <1>4, <2>2, <3>1 DEF AddLock
    <3> QED
      BY <3>1, <3>3, <3>4, <3>5, <3>6
  <2> QED
    BY <2>1, <2>2
<1>5. ASSUME NEW t \in Threads, Register(t) PROVE TypeOK'
  BY <1>5, LockParts DEF Register
<1>6. ASSUME NEW t \in Threads, NEW k \in Objects, FindKey(t, k) PROVE TypeOK'
  BY <1>6, LockParts DEF FindKey
<1>7. ASSUME NEW t \in Threads, UpdateKey(t) PROVE TypeOK'
  <2>1. old[t] \in Lock
    BY <1>7 DEF UpdateKey
  <2>2. CASE Return(t) /\ UNCHANGED <<made, keys>>
    BY <1>7, <2>2 DEF UpdateKey
  <2>3. CASE ~(Return(t) /\ UNCHANGED <<made, keys>>)
    <3>1. PICK timeout \in Timeouts :
             /\ made < MaxObjects
             /\ made' = made + 1
             /\ fresh' = [fresh EXCEPT ![t] =
                   [object |-> made + 1, key |-> old[t].key, until |-> now + timeout]]
             /\ keys' = [keys EXCEPT ![old[t].key] = fresh'[t]]
             /\ GoTo(t, "updateEntity")
             /\ UNCHANGED old
      BY <1>7, <2>3 DEF UpdateKey
    <3>2. made' \in Objects /\ now + timeout \in Nat /\ old[t].key \in Objects
      BY <2>1, <3>1, LockParts DEF Objects
    <3>3. fresh'[t] \in Lock
      BY <3>1, <3>2 DEF Lock
    <3>4. keys' \in [Objects -> Lock \cup {NoLock}] /\ fresh' \in [Threads -> Lock \cup {NoLock}]
      BY <3>1, <3>3
    <3>5. /\ \A u \in Threads : pc'[u] \notin {"idle", "add"} => old'[u] \in Lock
          /\ \A u \in Threads : pc'[u] = "updateEntity" => fresh'[u] \in Lock
      BY <2>1, <3>1, <3>3
    <3>6. UNCHANGED <<now, entity, old, lease, unlocked, evicted, crossed>> /\ pc' \in [Threads -> Steps]
      BY <1>7, <3>1 DEF UpdateKey
    <3> QED
      BY <3>1, <3>2, <3>4, <3>5, <3>6
  <2> QED
    BY <2>2, <2>3
<1>8. ASSUME NEW t \in Threads, UpdateEntity(t) PROVE TypeOK'
  <2>1. old[t] \in Lock /\ fresh[t] \in Lock
    BY <1>8 DEF UpdateEntity
  <2>2. fresh[t].until \in Nat
    BY <2>1, LockParts
  <2>3. lease' \in [Objects -> Nat]
    BY <1>8, <2>2 DEF UpdateEntity, Extend
  <2>4. entity' \in Lock \cup {NoLock}
    BY <1>8, <2>1 DEF UpdateEntity
  <2> QED
    BY <1>8, <2>3, <2>4 DEF UpdateEntity
<1>9. ASSUME NEW t \in Threads, NEW k \in Objects, RemoveKey(t, k) PROVE TypeOK'
  BY <1>9, LockParts DEF RemoveKey
<1>10. ASSUME NEW t \in Threads, RemoveEntity(t) PROVE TypeOK'
  BY <1>10, LockParts DEF RemoveEntity
<1>11. ASSUME Tick PROVE TypeOK'
  BY <1>11, LockParts DEF Tick
<1>12. CASE UNCHANGED vars
  BY <1>12 DEF vars
<1> QED
  BY <1>1, <1>2, <1>3, <1>4, <1>5, <1>6, <1>7, <1>8, <1>9, <1>10, <1>11, <1>12 DEF Next, LockCall, PingCall, UnlockCall

-------------------------------------------------------------------------------
(* What holds as long as no lock has been found timed out. *)
Agreed == KeysMatch /\ BetweenInv /\ GrantInv /\ PingInv /\ NoEviction

(* While a thread is between its two updates, no unlock key is entered. *)
LEMMA BetweenAlone ==
  ASSUME TypeOK, Agreed, ~evicted, Between # {}
  PROVE  \A k \in Objects : keys[k] = NoLock
BY DEF Agreed, KeysMatch, BetweenInv

LEMMA AgreedStep ==
  ASSUME TypeOK, TypeOK', Agreed, Next, ~evicted, ~evicted'
  PROVE  Agreed'
<1> USE BetweenAlone, LockParts
    DEF KeysMatch, BetweenInv, Between, GrantInv, PingInv, NoEviction, Agreed, TypeOK, Steps, GoTo, Return
<1>1. ASSUME NEW t \in Threads, FindLock(t) PROVE Agreed'
  <2>1. KeysMatch'
    BY <1>1 DEF FindLock
  <2>2. BetweenInv'
    BY <1>1 DEF FindLock
  <2>3. GrantInv'
    BY <1>1 DEF FindLock
  <2>4. PingInv'
    BY <1>1 DEF FindLock
  <2>5. NoEviction'
    BY <1>1 DEF FindLock
  <2> QED
    BY <2>1, <2>2, <2>3, <2>4, <2>5 DEF Agreed
<1>2. ASSUME NEW t \in Threads, EvictEntity(t) PROVE Agreed'
  BY <1>2 DEF EvictEntity, Agreed, NoEviction
<1>3. ASSUME NEW t \in Threads, EvictKey(t) PROVE Agreed'
  BY <1>3 DEF EvictKey, Agreed, NoEviction
<1>4. ASSUME NEW t \in Threads, AddLock(t) PROVE Agreed'
  <2>1. KeysMatch'
    BY <1>4 DEF AddLock
  <2>2. BetweenInv'
    BY <1>4 DEF AddLock
  <2>3. GrantInv'
    BY <1>4 DEF AddLock
  <2>4. PingInv'
    BY <1>4 DEF AddLock
  <2>5. NoEviction'
    BY <1>4 DEF AddLock
  <2> QED
    BY <2>1, <2>2, <2>3, <2>4, <2>5 DEF Agreed
<1>5. ASSUME NEW t \in Threads, Register(t) PROVE Agreed'
  <2>1. KeysMatch'
    BY <1>5 DEF Register
  <2>2. BetweenInv'
    BY <1>5 DEF Register
  <2>3. GrantInv'
    BY <1>5 DEF Register
  <2>4. PingInv'
    BY <1>5 DEF Register
  <2>5. NoEviction'
    BY <1>5 DEF Register
  <2> QED
    BY <2>1, <2>2, <2>3, <2>4, <2>5 DEF Agreed
<1>6. ASSUME NEW t \in Threads, NEW k \in Objects, FindKey(t, k) PROVE Agreed'
  <2>1. KeysMatch'
    BY <1>6 DEF FindKey
  <2>2. BetweenInv'
    BY <1>6 DEF FindKey
  <2>3. GrantInv'
    BY <1>6 DEF FindKey
  <2>4. PingInv'
    BY <1>6 DEF FindKey
  <2>5. NoEviction'
    BY <1>6 DEF FindKey
  <2> QED
    BY <2>1, <2>2, <2>3, <2>4, <2>5 DEF Agreed
<1>7. ASSUME NEW t \in Threads, UpdateKey(t) PROVE Agreed'
  <2>1. KeysMatch'
    BY <1>7 DEF UpdateKey
  <2>2. BetweenInv'
    BY <1>7 DEF UpdateKey
  <2>3. GrantInv'
    <3>1. old[t] \in Lock /\ old[t].key \in Objects /\ keys \in [Objects -> Lock \cup {NoLock}]
      BY <1>7, LockParts DEF UpdateKey, TypeOK
    <3>2. made \in Nat /\ (made' = made \/ made' = made + 1)
          /\ UNCHANGED <<lease, unlocked, entity>>
      BY <1>7 DEF UpdateKey, TypeOK
    <3>3. CASE UNCHANGED keys
      BY <3>2, <3>3, LockParts DEF GrantInv, Agreed, TypeOK, Objects
    <3>4. CASE ~UNCHANGED keys
      <4>1. /\ keys[old[t].key] = old[t]
            /\ keys' = [keys EXCEPT ![old[t].key] = fresh'[t]]
            /\ fresh'[t].key = old[t].key /\ fresh'[t] \in Lock
        BY <1>7, <3>4 DEF UpdateKey, TypeOK
      <4>2. \A k \in Objects : keys'[k] # NoLock =>
              keys[k] # NoLock /\ keys'[k].key = k
        BY <3>1, <4>1 DEF GrantInv, Agreed
      <4>3. \A k \in Objects : keys[k] # NoLock => keys'[k] # NoLock
        BY <3>1, <4>1
      <4>4. /\ \A k \in Objects : keys'[k] # NoLock => k <= made'
            /\ \A k \in Objects : lease'[k] > 0 => k <= made'
            /\ unlocked' \subseteq 1..made'
            /\ entity' # NoLock => entity'.key <= made'
        BY <3>2, <4>2, LockParts DEF GrantInv, Agreed, TypeOK, Objects
      <4> QED
        BY <3>2, <4>2, <4>3, <4>4 DEF GrantInv, Agreed
    <3> QED
      BY <3>3, <3>4
  <2>4. PingInv'
    BY <1>7 DEF UpdateKey
  <2>5. NoEviction'
    BY <1>7 DEF UpdateKey
  <2> QED
    BY <2>1, <2>2, <2>3, <2>4, <2>5 DEF Agreed
<1>8. ASSUME NEW t \in Threads, UpdateEntity(t) PROVE Agreed'
  <2>1. KeysMatch'
    BY <1>8 DEF UpdateEntity
  <2>0. /\ old[t] \in Lock /\ fresh[t] \in Lock /\ fresh[t].key = old[t].key
        /\ old[t].key \in Objects
    BY <1>8, LockParts DEF UpdateEntity, PingInv, Agreed, TypeOK
  <2>a. \A k \in Objects : (lease[k] > 0 <=> lease'[k] > 0) \/ lease[k] > 0
    <3>1. /\ now \in Nat /\ lease \in [Objects -> Nat]
          /\ lease' = lease \/ (lease[old[t].key] > now
                               /\ lease' = [lease EXCEPT ![old[t].key] = fresh[t].until])
      BY <1>8 DEF UpdateEntity, Extend, TypeOK
    <3> QED
      BY <2>0, <3>1
  <2>b. entity' # NoLock <=> entity # NoLock
    BY <1>8, <2>0 DEF UpdateEntity
  <2>c. entity # NoLock => entity'.key = entity.key /\ entity.key \in Objects
    BY <1>8, <2>0, LockParts DEF UpdateEntity, TypeOK
  <2>d. UNCHANGED <<keys, unlocked, made>> /\ Between' = Between
        /\ \A u \in Between : pc'[u] = pc[u] /\ old'[u] = old[u]
    BY <1>8 DEF UpdateEntity, Between, TypeOK
  <2>2. BetweenInv'
    <3>1. \A k \in Objects : lease[k] = 0 => lease'[k] = 0
      BY <2>a DEF TypeOK
    <3>2. ASSUME NEW u \in Between
          PROVE  /\ entity' # NoLock /\ entity'.key = old'[u].key
                 /\ keys'[entity'.key] = NoLock
                 /\ pc'[u] = "register" => lease'[entity'.key] = 0
                 /\ pc'[u] = "unlockEntity" => entity'.key \in unlocked'
      <4>1. /\ entity # NoLock /\ entity.key = old[u].key
            /\ keys[entity.key] = NoLock
            /\ pc[u] = "register" => lease[entity.key] = 0
            /\ pc[u] = "unlockEntity" => entity.key \in unlocked
        BY DEF BetweenInv, Agreed
      <4>2. entity' # NoLock /\ entity'.key = entity.key /\ entity.key \in Objects
        BY <2>b, <2>c, <4>1
      <4> QED
        BY <2>d, <3>1, <4>1, <4>2
    <3>3. \A u, v \in Between : u = v
      BY DEF BetweenInv, Agreed
    <3> QED
      BY <2>d, <3>2, <3>3 DEF BetweenInv
  <2>3. GrantInv'
    BY <2>a, <2>b, <2>c, <2>d DEF GrantInv, Agreed
  <2>4. PingInv'
    BY <1>8 DEF UpdateEntity
  <2>5. NoEviction'
    BY <1>8 DEF UpdateEntity
  <2> QED
    BY <2>1, <2>2, <2>3, <2>4, <2>5 DEF Agreed
<1>9. ASSUME NEW t \in Threads, NEW k \in Objects, RemoveKey(t, k) PROVE Agreed'
  <2>1. KeysMatch'
    BY <1>9 DEF RemoveKey
  <2>2. BetweenInv'
    BY <1>9 DEF RemoveKey
  <2>3. GrantInv'
    <3>1. /\ unlocked' = unlocked \cup {k} /\ UNCHANGED <<lease, made, entity>>
          /\ k \in 1..made
      BY <1>9 DEF RemoveKey, GrantInv, Agreed, TypeOK, Objects
    <3>2. \A j \in Objects : j # k => keys'[j] = keys[j]
      BY <1>9 DEF RemoveKey, TypeOK
    <3>3. keys'[k] = NoLock
      BY <1>9 DEF RemoveKey, TypeOK
    <3> QED
      BY <3>1, <3>2, <3>3 DEF GrantInv, Agreed
  <2>4. PingInv'
    BY <1>9 DEF RemoveKey
  <2>5. NoEviction'
    BY <1>9 DEF RemoveKey
  <2> QED
    BY <2>1, <2>2, <2>3, <2>4, <2>5 DEF Agreed
<1>10. ASSUME NEW t \in Threads, RemoveEntity(t) PROVE Agreed'
  <2>1. KeysMatch'
    BY <1>10 DEF RemoveEntity
  <2>2. BetweenInv'
    BY <1>10 DEF RemoveEntity
  <2>3. GrantInv'
    BY <1>10 DEF RemoveEntity
  <2>4. PingInv'
    BY <1>10 DEF RemoveEntity
  <2>5. NoEviction'
    BY <1>10 DEF RemoveEntity
  <2> QED
    BY <2>1, <2>2, <2>3, <2>4, <2>5 DEF Agreed
<1>11. ASSUME Tick PROVE Agreed'
  <2>1. KeysMatch'
    BY <1>11 DEF Tick
  <2>2. BetweenInv'
    BY <1>11 DEF Tick
  <2>3. GrantInv'
    BY <1>11 DEF Tick
  <2>4. PingInv'
    BY <1>11 DEF Tick
  <2>5. NoEviction'
    BY <1>11 DEF Tick
  <2> QED
    BY <2>1, <2>2, <2>3, <2>4, <2>5 DEF Agreed
<1> QED
  BY <1>1, <1>2, <1>3, <1>4, <1>5, <1>6, <1>7, <1>8, <1>9, <1>10, <1>11 DEF Next, LockCall, PingCall, UnlockCall

LEMMA InvStep == IInv /\ [Next]_vars => IInv'
<1> SUFFICES ASSUME IInv, [Next]_vars PROVE IInv'
  OBVIOUS
<1>1. TypeOK'
  BY TypeStep DEF IInv
<1>2. ASSUME ~evicted' PROVE Agreed'
  <2>1. CASE UNCHANGED vars
    <3>1. Agreed /\ ~evicted
      BY <1>2, <2>1 DEF IInv, Agreed, vars
    <3> QED
      BY <2>1, <3>1 DEF vars, Agreed, KeysMatch, BetweenInv, Between, GrantInv, PingInv, NoEviction
  <2>2. CASE Next
    <3>1. ~evicted
      BY <1>2, <2>2 DEF Next, LockCall, PingCall, UnlockCall, FindLock, EvictEntity,
        EvictKey, AddLock, Register, FindKey, UpdateKey, UpdateEntity, RemoveKey,
        RemoveEntity, Tick
    <3>2. Agreed
      BY <3>1 DEF IInv, Agreed
    <3> QED
      BY <1>1, <1>2, <2>2, <3>1, <3>2, AgreedStep DEF IInv
  <2> QED
    BY <2>1, <2>2
<1> QED
  BY <1>1, <1>2 DEF IInv, Agreed

(* The inductive invariant holds in every reachable state. *)
THEOREM Invariance == Spec => []IInv
BY InitInv, InvStep, PTL DEF Spec

(* Every variable keeps to its type, and a thread that works on a lock has   *)
(* one at hand.                                                              *)
THEOREM TypeCorrect == Spec => []TypeOK
<1>1. IInv => TypeOK
  BY DEF IInv
<1> QED
  BY Invariance, <1>1, PTL

(* The two dictionaries agree until a lock has been found timed out.         *)
THEOREM DictionariesAgree == Spec => []KeysMatch
<1>1. IInv => KeysMatch
  BY DEF IInv, KeysMatch
<1> QED
  BY Invariance, <1>1, PTL

(* Until a lock has been found timed out, no two unlock keys are held at     *)
(* once: a held key is the one of the entity's lock.                         *)
THEOREM LocksExclusive == Spec => []ExclusiveInTime
<1>1. IInv => ExclusiveInTime
  <2> SUFFICES ASSUME IInv, ~evicted PROVE Cardinality(Holders) <= 1
    BY DEF ExclusiveInTime
  <2>1. Holders \subseteq {entity.key}
    <3> SUFFICES ASSUME NEW k \in Holders PROVE k = entity.key
      OBVIOUS
    <3>1. k \in Objects /\ lease[k] > 0 /\ k \notin unlocked
      BY DEF Holders, IInv, TypeOK
    <3>2. keys[k] # NoLock
      BY <3>1 DEF IInv, GrantInv
    <3> QED
      BY <3>1, <3>2 DEF IInv, KeysMatch
  <2>2. IsFiniteSet({entity.key}) /\ Cardinality({entity.key}) = 1
    BY FS_Singleton
  <2>3. Cardinality(Holders) <= Cardinality({entity.key}) /\ IsFiniteSet(Holders)
    BY <2>1, <2>2, FS_Subset
  <2>4. Cardinality(Holders) \in Nat
    BY <2>3, FS_CardinalityType
  <2> QED
    BY <2>2, <2>3, <2>4
<1> QED
  BY Invariance, <1>1, PTL

-------------------------------------------------------------------------------
(* Ping.                                                                     *)

(* What a Lock that adds a lock and a Ping that replaces one do. *)
LEMMA Adds ==
  ASSUME TypeOK, NEW t \in Threads, AddLock(t), entity = NoLock
  PROVE  /\ made' = made + 1 /\ made + 1 \in Objects
         /\ entity' \in Lock /\ entity'.key = made + 1
         /\ old' = [old EXCEPT ![t] = entity'] /\ pc' = [pc EXCEPT ![t] = "register"]
         /\ pc[t] = "add"
         /\ UNCHANGED <<keys, fresh, lease, crossed>>
<1>1. PICK timeout \in Timeouts :
         /\ made < MaxObjects
         /\ made' = made + 1
         /\ entity' = [object |-> made + 1, key |-> made + 1, until |-> now + timeout]
         /\ old' = [old EXCEPT ![t] = entity']
         /\ GoTo(t, "register")
         /\ UNCHANGED fresh
  BY DEF AddLock
<1>2. made + 1 \in Objects /\ now + timeout \in Nat
  BY <1>1 DEF TypeOK, Objects
<1> QED
  BY <1>1, <1>2 DEF AddLock, Lock, GoTo

LEMMA Replaces ==
  ASSUME TypeOK, NEW t \in Threads, UpdateKey(t), keys[old[t].key] = old[t]
  PROVE  /\ made' = made + 1 /\ made + 1 \in Objects
         /\ old[t] \in Lock /\ fresh'[t] \in Lock /\ fresh'[t].key = old[t].key
         /\ fresh' = [fresh EXCEPT ![t] = fresh'[t]]
         /\ keys' = [keys EXCEPT ![old[t].key] = fresh'[t]]
         /\ pc' = [pc EXCEPT ![t] = "updateEntity"] /\ pc[t] = "updateKey"
         /\ UNCHANGED <<old, entity, lease, crossed>>
<1>1. PICK timeout \in Timeouts :
         /\ made < MaxObjects
         /\ made' = made + 1
         /\ fresh' = [fresh EXCEPT ![t] =
               [object |-> made + 1, key |-> old[t].key, until |-> now + timeout]]
         /\ keys' = [keys EXCEPT ![old[t].key] = fresh'[t]]
         /\ GoTo(t, "updateEntity")
         /\ UNCHANGED old
  BY DEF UpdateKey
<1>2. old[t] \in Lock /\ pc[t] = "updateKey"
  BY DEF UpdateKey, TypeOK
<1>3. made + 1 \in Objects /\ now + timeout \in Nat /\ old[t].key \in Objects
  BY <1>1, <1>2, LockParts DEF TypeOK, Objects
<1>4. fresh'[t] = [object |-> made + 1, key |-> old[t].key, until |-> now + timeout]
  BY <1>1 DEF TypeOK
<1>5. fresh'[t] \in Lock /\ fresh'[t].key = old[t].key
  BY <1>3, <1>4 DEF Lock
<1>6. fresh' = [fresh EXCEPT ![t] = fresh'[t]]
  BY <1>1, <1>4
<1> QED
  BY <1>1, <1>2, <1>3, <1>5, <1>6 DEF UpdateKey, GoTo

(* A ping keeps the key of the lock it replaces. *)
LEMMA PingStep == PingIInv /\ [Next]_vars => PingInv'
<1> SUFFICES ASSUME PingIInv, [Next]_vars PROVE PingInv'
  OBVIOUS
<1> USE DEF TypeOK, PingIInv, GoTo, Return, Objects, Pinging, PingInv
<1>1. ASSUME NEW t \in Threads, FindLock(t) PROVE PingInv'
  BY <1>1, LockParts DEF FindLock
<1>2. ASSUME NEW t \in Threads, EvictEntity(t) PROVE PingInv'
  BY <1>2, LockParts DEF EvictEntity
<1>3. ASSUME NEW t \in Threads, EvictKey(t) PROVE PingInv'
  BY <1>3, LockParts DEF EvictKey
<1>4. ASSUME NEW t \in Threads, AddLock(t) PROVE PingInv'
  BY <1>4, LockParts DEF AddLock
<1>5. ASSUME NEW t \in Threads, Register(t) PROVE PingInv'
  BY <1>5, LockParts DEF Register
<1>6. ASSUME NEW t \in Threads, NEW k \in Objects, FindKey(t, k) PROVE PingInv'
  BY <1>6, LockParts DEF FindKey
<1>7. ASSUME NEW t \in Threads, UpdateKey(t) PROVE PingInv'
  BY <1>7, LockParts DEF UpdateKey
<1>8. ASSUME NEW t \in Threads, UpdateEntity(t) PROVE PingInv'
  BY <1>8, LockParts DEF UpdateEntity
<1>9. ASSUME NEW t \in Threads, NEW k \in Objects, RemoveKey(t, k) PROVE PingInv'
  BY <1>9, LockParts DEF RemoveKey
<1>10. ASSUME NEW t \in Threads, RemoveEntity(t) PROVE PingInv'
  BY <1>10, LockParts DEF RemoveEntity
<1>11. CASE Tick
  BY <1>11 DEF Tick
<1>12. CASE UNCHANGED vars
  BY <1>12 DEF vars
<1> QED
  BY <1>1, <1>2, <1>3, <1>4, <1>5, <1>6, <1>7, <1>8, <1>9, <1>10, <1>11, <1>12 DEF Next, LockCall, PingCall, UnlockCall

(* No key is known before its first object is made. *)
LEMMA KeysStep == PingIInv /\ [Next]_vars => KeysInv'
<1> SUFFICES ASSUME PingIInv, [Next]_vars PROVE KeysInv'
  OBVIOUS
<1> USE DEF TypeOK, PingIInv, GoTo, Return, Objects, Pinging, KeysInv, PingInv
<1>1. ASSUME NEW t \in Threads, FindLock(t) PROVE KeysInv'
  BY <1>1, LockParts DEF FindLock
<1>2. ASSUME NEW t \in Threads, EvictEntity(t) PROVE KeysInv'
  BY <1>2, LockParts DEF EvictEntity
<1>3. ASSUME NEW t \in Threads, EvictKey(t) PROVE KeysInv'
  BY <1>3, LockParts DEF EvictKey
<1>4. ASSUME NEW t \in Threads, AddLock(t) PROVE KeysInv'
  <2>1. CASE entity # NoLock
    BY <1>4, <2>1 DEF AddLock
  <2>2. CASE entity = NoLock
    <3>1. /\ made' = made + 1 /\ made + 1 \in Objects
          /\ entity' \in Lock /\ entity'.key = made + 1
          /\ old' = [old EXCEPT ![t] = entity'] /\ pc' = [pc EXCEPT ![t] = "register"]
          /\ UNCHANGED <<keys, fresh, lease, crossed>>
      BY <1>4, <2>2, Adds
    <3>2. \A k \in Objects : keys'[k] # NoLock => keys'[k].key = k /\ k <= made'
      BY <3>1, made \in Nat
    <3>3. (\A k \in Objects : lease'[k] > 0 => k <= made') /\ (entity' # NoLock => entity'.key <= made')
      BY <3>1, made \in Nat, LockParts
    <3>4. \A u \in Threads :
             pc'[u] \in {"register", "updateKey", "updateEntity"} => old'[u].key <= made'
      <4> SUFFICES ASSUME NEW u \in Threads, pc'[u] \in {"register", "updateKey", "updateEntity"}
                   PROVE  old'[u].key <= made'
        OBVIOUS
      <4>1. CASE u = t
        BY <3>1, <4>1, made \in Nat, LockParts
      <4>2. CASE u # t
        <5>1. old'[u] = old[u] /\ old[u] \in Lock /\ old[u].key <= made
          BY <3>1, <4>2
        <5> QED
          BY <3>1, <5>1, made \in Nat, LockParts
      <4> QED
        BY <4>1, <4>2
    <3> QED
      BY <3>2, <3>3, <3>4
  <2> QED
    BY <2>1, <2>2
<1>5. ASSUME NEW t \in Threads, Register(t) PROVE KeysInv'
  BY <1>5, LockParts DEF Register
<1>6. ASSUME NEW t \in Threads, NEW k \in Objects, FindKey(t, k) PROVE KeysInv'
  BY <1>6, LockParts DEF FindKey
<1>7. ASSUME NEW t \in Threads, UpdateKey(t) PROVE KeysInv'
  <2>1. CASE keys[old[t].key] # old[t]
    BY <1>7, <2>1 DEF UpdateKey
  <2>2. CASE keys[old[t].key] = old[t]
    <3>1. /\ made' = made + 1 /\ made + 1 \in Objects
          /\ old[t] \in Lock /\ fresh'[t] \in Lock /\ fresh'[t].key = old[t].key
          /\ fresh' = [fresh EXCEPT ![t] = fresh'[t]]
          /\ keys' = [keys EXCEPT ![old[t].key] = fresh'[t]]
          /\ pc' = [pc EXCEPT ![t] = "updateEntity"] /\ pc[t] = "updateKey"
          /\ UNCHANGED <<old, entity, lease, crossed>>
      BY <1>7, <2>2, Replaces
    <3>2. old[t].key <= made /\ old[t].key \in Objects
      BY <3>1, LockParts
    <3>3. \A k \in Objects : keys'[k] # NoLock => keys'[k].key = k /\ k <= made'
      BY <3>1, <3>2, made \in Nat
    <3>4. (\A k \in Objects : lease'[k] > 0 => k <= made') /\ (entity' # NoLock => entity'.key <= made')
      BY <3>1, <3>2, made \in Nat, LockParts
    <3>5. \A u \in Threads :
             pc'[u] \in {"register", "updateKey", "updateEntity"} => old'[u].key <= made'
      <4> SUFFICES ASSUME NEW u \in Threads, pc'[u] \in {"register", "updateKey", "updateEntity"}
                   PROVE  old'[u].key <= made'
        OBVIOUS
      <4>1. CASE u = t
        BY <3>1, <3>2, <4>1, made \in Nat, LockParts
      <4>2. CASE u # t
        <5>1. old'[u] = old[u] /\ old[u] \in Lock /\ old[u].key <= made
          BY <3>1, <3>2, <4>2
        <5> QED
          BY <3>1, <3>2, <5>1, made \in Nat, LockParts
      <4> QED
        BY <4>1, <4>2
    <3> QED
      BY <3>3, <3>4, <3>5
  <2> QED
    BY <2>1, <2>2
<1>8. ASSUME NEW t \in Threads, UpdateEntity(t) PROVE KeysInv'
  <2>1. old[t] \in Lock /\ fresh[t] \in Lock /\ fresh[t].key = old[t].key /\ old[t].key <= made
    BY <1>8 DEF UpdateEntity
  <2>2. \A k \in Objects : lease'[k] > 0 => lease[k] > 0
    BY <1>8, <2>1, LockParts DEF UpdateEntity, Extend
  <2>3. entity' # NoLock => entity'.key <= made
    BY <1>8, <2>1 DEF UpdateEntity
  <2> QED
    BY <1>8, <2>2, <2>3 DEF UpdateEntity
<1>9. ASSUME NEW t \in Threads, NEW k \in Objects, RemoveKey(t, k) PROVE KeysInv'
  BY <1>9, LockParts DEF RemoveKey
<1>10. ASSUME NEW t \in Threads, RemoveEntity(t) PROVE KeysInv'
  BY <1>10, LockParts DEF RemoveEntity
<1>11. CASE Tick
  BY <1>11 DEF Tick
<1>12. CASE UNCHANGED vars
  BY <1>12 DEF vars
<1> QED
  BY <1>1, <1>2, <1>3, <1>4, <1>5, <1>6, <1>7, <1>8, <1>9, <1>10, <1>11, <1>12 DEF Next, LockCall, PingCall, UnlockCall

(* What keeps RegisterInv where no key is entered: ... *)
LEMMA RegisterFrame ==
  ASSUME TypeOK, RegisterInv,
         \A u \in Threads : pc'[u] = "register" => pc[u] = "register" /\ old'[u] = old[u],
         \A u \in Threads : pc'[u] \in {"updateKey", "updateEntity"} =>
            pc[u] \in {"updateKey", "updateEntity"} /\ old'[u] = old[u],
         \A k \in Objects : keys[k] = NoLock => keys'[k] = NoLock,
         \A k \in Objects : lease[k] = 0 => lease'[k] = 0,
         entity' # NoLock =>
            entity' = entity \/ \A u \in Threads : pc[u] = "register" => old[u].key # entity'.key
  PROVE  RegisterInv'
<1> SUFFICES ASSUME NEW t \in Threads, pc'[t] = "register"
             PROVE  /\ keys'[old'[t].key] = NoLock /\ lease'[old'[t].key] = 0
                    /\ Pinging(old[t].key)' = {}
                    /\ (entity' # NoLock /\ entity'.key = old'[t].key) => entity' = old'[t]
                    /\ \A u \in Threads \ {t} : pc'[u] = "register" => old'[u].key # old'[t].key
  BY DEF RegisterInv
<1>1. pc[t] = "register" /\ old'[t] = old[t] /\ old[t].key \in Objects
  BY LockParts DEF TypeOK
<1>2. keys'[old'[t].key] = NoLock /\ lease'[old'[t].key] = 0
  BY <1>1 DEF RegisterInv
<1>3. Pinging(old[t].key)' = {}
  BY <1>1 DEF RegisterInv, Pinging
<1>4. (entity' # NoLock /\ entity'.key = old'[t].key) => entity' = old'[t]
  BY <1>1 DEF RegisterInv
<1>5. \A u \in Threads \ {t} : pc'[u] = "register" => old'[u].key # old'[t].key
  BY <1>1 DEF RegisterInv
<1> QED
  BY <1>2, <1>3, <1>4, <1>5

(* ... A key about to be entered has never been.                            *)
LEMMA RegisterStep == PingIInv /\ [Next]_vars => RegisterInv'
<1> SUFFICES ASSUME PingIInv, [Next]_vars PROVE RegisterInv'
  OBVIOUS
<1> USE DEF TypeOK, PingIInv, GoTo, Return, Objects, Pinging, KeysInv, RegisterInv, PingInv
<1>1. ASSUME NEW t \in Threads, FindLock(t) PROVE RegisterInv'
  BY <1>1, RegisterFrame DEF FindLock
<1>2. ASSUME NEW t \in Threads, EvictEntity(t) PROVE RegisterInv'
  BY <1>2, LockParts DEF EvictEntity
<1>3. ASSUME NEW t \in Threads, EvictKey(t) PROVE RegisterInv'
  BY <1>3, LockParts DEF EvictKey
<1>4. ASSUME NEW t \in Threads, AddLock(t) PROVE RegisterInv'
  <2>1. CASE entity # NoLock
    BY <1>4, <2>1, RegisterFrame DEF AddLock
  <2>2. CASE entity = NoLock
    <3>1. /\ made' = made + 1 /\ made + 1 \in Objects
          /\ entity' \in Lock /\ entity'.key = made + 1
          /\ old' = [old EXCEPT ![t] = entity'] /\ pc' = [pc EXCEPT ![t] = "register"]
          /\ UNCHANGED <<keys, fresh, lease, crossed>>
      BY <1>4, <2>2, Adds
    <3>2. keys[made + 1] = NoLock /\ lease[made + 1] = 0
      BY <3>1
    <3>3. \A u \in Threads \ {t} :
             pc[u] \in {"register", "updateKey", "updateEntity"} => old[u].key # made + 1
      BY <3>1
    <3>4. \A u \in Threads \ {t} : pc[u] = "register" =>
             /\ keys'[old[u].key] = NoLock /\ lease'[old[u].key] = 0
             /\ Pinging(old[u].key)' = {}
      BY <3>1
    <3> QED
      BY <3>1, <3>2, <3>3, <3>4
  <2> QED
    BY <2>1, <2>2
<1>5. ASSUME NEW t \in Threads, Register(t) PROVE RegisterInv'
  BY <1>5, LockParts DEF Register
<1>6. ASSUME NEW t \in Threads, NEW k \in Objects, FindKey(t, k) PROVE RegisterInv'
  BY <1>6, LockParts DEF FindKey
<1>7. ASSUME NEW t \in Threads, UpdateKey(t) PROVE RegisterInv'
  <2>1. CASE keys[old[t].key] # old[t]
    BY <1>7, <2>1, RegisterFrame DEF UpdateKey
  <2>2. CASE keys[old[t].key] = old[t]
    <3>1. /\ old[t] \in Lock
          /\ fresh'[t] \in Lock
          /\ keys' = [keys EXCEPT ![old[t].key] = fresh'[t]]
          /\ pc' = [pc EXCEPT ![t] = "updateEntity"] /\ pc[t] = "updateKey"
          /\ UNCHANGED <<old, entity, lease>>
      BY <1>7, <2>2, Replaces, Zenon
    <3>2. NoLock \notin Lock
      BY NoLockAssumption
    <3>3. /\ \A u \in Threads : pc'[u] = "register" => pc[u] = "register" /\ old'[u] = old[u]
          /\ \A u \in Threads : pc'[u] \in {"updateKey", "updateEntity"} =>
                pc[u] \in {"updateKey", "updateEntity"} /\ old'[u] = old[u]
      BY <3>1
    <3>4. keys[old[t].key] # NoLock
      BY <2>2, <3>1, <3>2
    <3>5. \A k \in Objects : keys[k] = NoLock => keys'[k] = NoLock
      BY <3>1, <3>4 DEF TypeOK
    <3> QED
      BY <3>1, <3>3, <3>5, RegisterFrame
  <2> QED
    BY <2>1, <2>2
<1>8. ASSUME NEW t \in Threads, UpdateEntity(t) PROVE RegisterInv'
  <2>1. old[t] \in Lock /\ fresh[t] \in Lock /\ fresh[t].key = old[t].key /\ pc[t] = "updateEntity"
    BY <1>8 DEF UpdateEntity
  <2>2. \A k \in Objects : lease[k] = 0 => lease'[k] = 0
    BY <1>8, <2>1, LockParts DEF UpdateEntity, Extend
  <2>3. \A u \in Threads : pc[u] = "register" => old[u].key # old[t].key
    BY <2>1
  <2> QED
    BY <1>8, <2>1, <2>2, <2>3, RegisterFrame DEF UpdateEntity
<1>9. ASSUME NEW t \in Threads, NEW k \in Objects, RemoveKey(t, k) PROVE RegisterInv'
  BY <1>9, LockParts DEF RemoveKey
<1>10. ASSUME NEW t \in Threads, RemoveEntity(t) PROVE RegisterInv'
  BY <1>10, LockParts DEF RemoveEntity
<1>11. CASE Tick
  BY <1>11 DEF Tick
<1>12. CASE UNCHANGED vars
  BY <1>12 DEF vars
<1> QED
  BY <1>1, <1>2, <1>3, <1>4, <1>5, <1>6, <1>7, <1>8, <1>9, <1>10, <1>11, <1>12 DEF Next, LockCall, PingCall, UnlockCall

(* What keeps the objects of a key as they are. *)
LEMMA OneObjectFrame ==
  ASSUME NEW i \in Objects, OneObject(i),
         \A u \in Threads : u \in Pinging(i)' <=> u \in Pinging(i),
         \A u \in Pinging(i) : pc'[u] = pc[u] /\ old'[u] = old[u] /\ fresh'[u] = fresh[u],
         Entered(i)' => Entered(i) /\ keys'[i] = keys[i] /\ entity' = entity
  PROVE  OneObject(i)'
<1>1. Pinging(i) \subseteq Threads /\ Pinging(i)' = Pinging(i)
  BY DEF Pinging
<1>2. \A t, u \in Pinging(i)' : t = u
  BY <1>1 DEF OneObject
<1>3. ASSUME Entered(i)', NEW t \in Pinging(i)', pc'[t] = "updateEntity"
      PROVE  keys'[i] = fresh'[t] /\ entity' = old'[t]
  BY <1>1, <1>3 DEF OneObject
<1>4. ASSUME Entered(i)', \A t \in Pinging(i)' : pc'[t] = "updateKey"
      PROVE  entity' = keys'[i]
  BY <1>1, <1>4 DEF OneObject
<1> QED
  BY <1>2, <1>3, <1>4 DEF OneObject

(* ... The dictionaries hold one object of a key, or a ping is between its   *)
(* two updates and they hold the two it works on.                            *)
LEMMA OneObjectStep ==
  ASSUME PingIInv, [Next]_vars, NEW i \in Objects \ crossed'
  PROVE  OneObject(i)'
<1> USE DEF TypeOK, PingIInv, GoTo, Return, Objects
<1>0. crossed \subseteq crossed' /\ i \in Objects /\ OneObject(i)
  <2>1. crossed \subseteq crossed'
    BY DEF Next, LockCall, PingCall, UnlockCall, FindLock, EvictEntity, EvictKey, AddLock,
      Register, FindKey, UpdateKey, UpdateEntity, RemoveKey, RemoveEntity, Tick, vars
  <2> QED
    BY <2>1
<1>1. ASSUME NEW t \in Threads, FindLock(t) PROVE OneObject(i)'
  BY <1>0, <1>1, OneObjectFrame, LockParts DEF FindLock, Pinging, Entered
<1>2. ASSUME NEW t \in Threads, EvictEntity(t) PROVE OneObject(i)'
  BY <1>0, <1>2, OneObjectFrame, LockParts DEF EvictEntity, Pinging, Entered
<1>3. ASSUME NEW t \in Threads, EvictKey(t) PROVE OneObject(i)'
  BY <1>0, <1>3, OneObjectFrame, LockParts DEF EvictKey, Pinging, Entered
<1>4. ASSUME NEW t \in Threads, AddLock(t) PROVE OneObject(i)'
  <2>1. CASE entity # NoLock
    BY <1>0, <1>4, <2>1, OneObjectFrame DEF AddLock, Pinging, Entered
  <2>2. CASE entity = NoLock
    <3>1. /\ made' = made + 1 /\ made + 1 \in Objects
          /\ entity' \in Lock /\ entity'.key = made + 1
          /\ old' = [old EXCEPT ![t] = entity'] /\ pc' = [pc EXCEPT ![t] = "register"]
          /\ pc[t] = "add"
          /\ UNCHANGED <<keys, fresh, lease, crossed>>
      BY <1>4, <2>2, Adds
    <3>2. keys[made + 1] = NoLock
      BY <3>1 DEF KeysInv
    <3>3. ~Entered(i)'
      BY <3>1, <3>2 DEF Entered
    <3> QED
      BY <1>0, <3>1, <3>3, OneObjectFrame DEF Pinging
  <2> QED
    BY <2>1, <2>2
<1>5. ASSUME NEW t \in Threads, Register(t) PROVE OneObject(i)'
  <2>1. CASE old[t].key # i
    BY <1>0, <1>5, <2>1, OneObjectFrame, LockParts DEF Register, Pinging, Entered
  <2>2. CASE old[t].key = i
    <3>1. /\ Pinging(i) = {} /\ ((entity # NoLock /\ entity.key = i) => entity = old[t])
      BY <1>5, <2>2 DEF RegisterInv, Register
    <3>2. Pinging(i)' = {}
      BY <1>5, <3>1 DEF Register, Pinging
    <3>3. keys'[i] = old[t] /\ entity' = entity
      BY <1>5, <2>2 DEF Register
    <3> QED
      BY <3>1, <3>2, <3>3 DEF OneObject, Entered
  <2> QED
    BY <2>1, <2>2
<1>6. ASSUME NEW t \in Threads, NEW k \in Objects, FindKey(t, k) PROVE OneObject(i)'
  <2>0. keys[k] # NoLock /\ keys[k].key = k /\ pc[t] = "idle"
    BY <1>6 DEF FindKey, KeysInv
  <2>1. CASE k # i
    BY <1>0, <1>6, <2>0, <2>1, OneObjectFrame DEF FindKey, Pinging, Entered
  <2>2. CASE k = i
    <3>1. Pinging(i) = {}
      BY <1>6, <2>2 DEF FindKey
    <3>2. Pinging(i)' = {t} /\ pc'[t] = "updateKey"
      BY <1>6, <2>0, <2>2, <3>1 DEF FindKey, Pinging
    <3>3. Entered(i) => entity = keys[i]
      BY <1>0, <3>1 DEF OneObject
    <3>4. keys' = keys /\ entity' = entity
      BY <1>6 DEF FindKey
    <3> QED
      BY <3>2, <3>3, <3>4 DEF OneObject, Entered
  <2> QED
    BY <2>1, <2>2
<1>7. ASSUME NEW t \in Threads, UpdateKey(t) PROVE OneObject(i)'
  <2>0. pc[t] = "updateKey" /\ old[t] \in Lock /\ old[t].key \in Objects
    BY <1>7, LockParts DEF UpdateKey
  <2>1. CASE keys[old[t].key] # old[t]
    <3>1. /\ pc' = [pc EXCEPT ![t] = "idle"] /\ old' = [old EXCEPT ![t] = NoLock]
          /\ fresh' = [fresh EXCEPT ![t] = NoLock]
          /\ UNCHANGED <<keys, entity>>
      BY <1>7, <2>1 DEF UpdateKey
    <3>2. CASE old[t].key # i
      BY <1>0, <2>0, <3>1, <3>2, OneObjectFrame DEF Pinging, Entered
    <3>3. CASE old[t].key = i
      <4>1. Pinging(i) = {t}
        BY <1>0, <2>0, <3>3 DEF OneObject, Pinging
      <4>2. Pinging(i)' = {}
        BY <3>1, <4>1 DEF Pinging
      <4>3. Entered(i) => entity = keys[i]
        BY <1>0, <2>0, <4>1 DEF OneObject
      <4> QED
        BY <3>1, <4>2, <4>3 DEF OneObject, Entered
    <3> QED
      BY <3>2, <3>3
  <2>2. CASE keys[old[t].key] = old[t]
    <3>1. /\ fresh' = [fresh EXCEPT ![t] = fresh'[t]]
          /\ keys' = [keys EXCEPT ![old[t].key] = fresh'[t]]
          /\ pc' = [pc EXCEPT ![t] = "updateEntity"]
          /\ UNCHANGED <<old, entity>>
      BY <1>7, <2>2, Replaces
    <3>2. CASE old[t].key # i
      BY <1>0, <2>0, <3>1, <3>2, OneObjectFrame DEF Pinging, Entered
    <3>3. CASE old[t].key = i
      <4>1. Pinging(i) = {t}
        BY <1>0, <2>0, <3>3 DEF OneObject, Pinging
      <4>2. Pinging(i)' = {t} /\ pc'[t] = "updateEntity"
        BY <2>0, <3>1, <4>1 DEF Pinging
      <4>3. (entity # NoLock /\ entity.key = i) => entity = old[t]
        BY <1>0, <2>0, <2>2, <3>3, <4>1 DEF OneObject, Entered
      <4> QED
        BY <2>0, <3>1, <3>3, <4>2, <4>3 DEF OneObject, Entered
    <3> QED
      BY <3>2, <3>3
  <2> QED
    BY <2>1, <2>2
<1>8. ASSUME NEW t \in Threads, UpdateEntity(t) PROVE OneObject(i)'
  <2>0. /\ pc[t] = "updateEntity" /\ old[t] \in Lock /\ fresh[t] \in Lock
        /\ fresh[t].key = old[t].key
    BY <1>8 DEF UpdateEntity, PingInv
  <2>1. /\ pc' = [pc EXCEPT ![t] = "idle"] /\ old' = [old EXCEPT ![t] = NoLock]
        /\ fresh' = [fresh EXCEPT ![t] = NoLock]
        /\ keys' = keys /\ entity' = IF entity = old[t] THEN fresh[t] ELSE entity
    BY <1>8 DEF UpdateEntity
  <2>2. CASE old[t].key # i
    BY <1>0, <2>0, <2>1, <2>2, OneObjectFrame DEF Pinging, Entered
  <2>3. CASE old[t].key = i
    <3>1. Pinging(i) = {t}
      BY <1>0, <2>0, <2>3 DEF OneObject, Pinging
    <3>2. Pinging(i)' = {}
      BY <2>1, <3>1 DEF Pinging
    <3>3. Entered(i)' => Entered(i)
      BY <2>0, <2>1, <2>3 DEF Entered
    <3>4. Entered(i) => keys[i] = fresh[t] /\ entity = old[t]
      BY <1>0, <2>0, <3>1 DEF OneObject
    <3> QED
      BY <2>1, <3>2, <3>3, <3>4 DEF OneObject
  <2> QED
    BY <2>2, <2>3
<1>9. ASSUME NEW t \in Threads, NEW k \in Objects, RemoveKey(t, k) PROVE OneObject(i)'
  BY <1>0, <1>9, OneObjectFrame, LockParts DEF RemoveKey, Pinging, Entered
<1>10. ASSUME NEW t \in Threads, RemoveEntity(t) PROVE OneObject(i)'
  BY <1>0, <1>10, OneObjectFrame, LockParts DEF RemoveEntity, Pinging, Entered
<1>11. CASE Tick
  BY <1>0, <1>11, OneObjectFrame DEF Tick, Pinging, Entered
<1>12. CASE UNCHANGED vars
  BY <1>0, <1>12, OneObjectFrame DEF vars, Pinging, Entered
<1> QED
  BY <1>1, <1>2, <1>3, <1>4, <1>5, <1>6, <1>7, <1>8, <1>9, <1>10, <1>11, <1>12
  DEF Next, LockCall, PingCall, UnlockCall

LEMMA PingInvStep == PingIInv /\ [Next]_vars => PingIInv'
<1> SUFFICES ASSUME PingIInv, [Next]_vars PROVE PingIInv'
  OBVIOUS
<1>1. TypeOK'
  BY TypeStep DEF PingIInv
<1>2. PingInv' /\ KeysInv' /\ RegisterInv'
  BY PingStep, KeysStep, RegisterStep
<1>3. \A i \in Objects \ crossed' : OneObject(i)'
  BY OneObjectStep
<1> QED
  BY <1>1, <1>2, <1>3 DEF PingIInv, Objects

(* A ping that has returned, and overlapped no other of its unlock key, has  *)
(* extended the lock the entity is held by, evictions or not.                *)
THEOREM PingsExtend == Spec => []PingExtends
<1>1. Init => PingIInv
  <2> SUFFICES ASSUME Init PROVE PingIInv
    OBVIOUS
  <2>1. TypeOK
    BY InitInv DEF IInv
  <2>2. KeysInv /\ PingInv /\ RegisterInv /\ \A k \in Objects : OneObject(k)
    BY DEF Init, KeysInv, PingInv, RegisterInv, OneObject, Entered, Pinging
  <2> QED
    BY <2>1, <2>2 DEF PingIInv
<1>2. PingIInv => PingExtends
  BY DEF PingIInv, PingExtends, OneObject, Entered
<1> QED
  BY <1>1, <1>2, PingInvStep, PTL DEF Spec
===============================================================================

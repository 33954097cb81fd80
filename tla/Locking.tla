-------------------------------- MODULE Locking --------------------------------
(***************************************************************************)
(* LockingModel.cs: the named locks the Sys server grants to the other     *)
(* processes for a limited time.  Two concurrent dictionaries hold them,   *)
(* _locks by entity and _lockKeys by unlock key; each dictionary call is   *)
(* atomic, nothing makes two of them one.                                  *)
(*                                                                         *)
(* One entity is modelled.  A lock object never changes: Ping replaces it  *)
(* by another with the same unlock key, and the compare-and-swap of        *)
(* TryUpdate compares object identities.  Threads are the server's request *)
(* threads; the retries of LockingService.cs are further Lock calls, and   *)
(* Ping and Unlock may come with any unlock key that was ever answered.    *)
(***************************************************************************)
EXTENDS Naturals, FiniteSets

CONSTANTS Threads,
          Timeouts,     \* what Lock and Ping may be called with
          NoLock,
          MaxTime, MaxObjects   \* bounds for TLC

ASSUME TimeAssumption == Timeouts \subseteq Nat \ {0} /\ MaxTime \in Nat /\ MaxObjects \in Nat

VARIABLES now,
          made,       \* how many EphemeralLock objects there have been
          entity,     \* _locks[entity]
          keys,       \* _lockKeys
          pc,         \* where each thread is
          old, fresh, \* the lock objects it has at hand
          lease,      \* history: until when each unlock key was granted, 0 if never
          unlocked,   \* history: unlock keys Unlock was called with
          evicted,    \* history: a Lock has found a lock timed out
          crossed     \* history: unlock keys of which two pings overlapped

vars == <<now, made, entity, keys, pc, old, fresh, lease, unlocked, evicted, crossed>>

Objects == 1..MaxObjects    \* an unlock key is the number of its first object
Lock == [object : Objects, key : Objects, until : Nat]
ASSUME NoLockAssumption == NoLock \notin Lock
Steps == {"idle", "evictEntity", "evictKey", "add", "register",
          "updateKey", "updateEntity", "unlockEntity"}

Init ==
    /\ now = 0
    /\ made = 0
    /\ entity = NoLock
    /\ keys = [k \in Objects |-> NoLock]
    /\ pc = [t \in Threads |-> "idle"]
    /\ old = [t \in Threads |-> NoLock]
    /\ fresh = [t \in Threads |-> NoLock]
    /\ lease = [k \in Objects |-> 0]
    /\ unlocked = {}
    /\ evicted = FALSE
    /\ crossed = {}

GoTo(t, step) == pc' = [pc EXCEPT ![t] = step]

(* The call is over, the thread forgets what it had at hand. *)
Return(t) ==
    /\ GoTo(t, "idle")
    /\ old' = [old EXCEPT ![t] = NoLock]
    /\ fresh' = [fresh EXCEPT ![t] = NoLock]

-------------------------------------------------------------------------------
(* Lock: a lock that exists and has not timed out is answered with null,     *)
(* which changes nothing; one that has timed out is removed, ...             *)
FindLock(t) ==
    /\ pc[t] = "idle"
    /\ \/ entity = NoLock /\ GoTo(t, "add") /\ UNCHANGED <<old, evicted>>
       \/ /\ entity # NoLock /\ entity.until <= now
          /\ old' = [old EXCEPT ![t] = entity]
          /\ evicted' = TRUE
          /\ GoTo(t, "evictEntity")
    /\ UNCHANGED <<now, made, entity, keys, fresh, lease, unlocked, crossed>>

(* ... by entity, so whatever lock is there by now is removed, ... *)
EvictEntity(t) ==
    /\ pc[t] = "evictEntity"
    /\ entity' = NoLock
    /\ GoTo(t, "evictKey")
    /\ UNCHANGED <<now, made, keys, old, fresh, lease, unlocked, evicted, crossed>>

EvictKey(t) ==
    /\ pc[t] = "evictKey"
    /\ keys' = [keys EXCEPT ![old[t].key] = NoLock]
    /\ GoTo(t, "add")
    /\ UNCHANGED <<now, made, entity, old, fresh, lease, unlocked, evicted, crossed>>

(* M_... definitions are deliberately wrong versions of the definition that  *)
(* follows them; they are not part of the model (README, "Mutants").         *)
M_AddLock(t) ==
    /\ pc[t] = "add"
    /\ \E timeout \in Timeouts :
          /\ made < MaxObjects
          /\ made' = made + 1
          /\ entity' = [object |-> made + 1, key |-> made + 1, until |-> now + timeout]
          /\ old' = [old EXCEPT ![t] = entity']
          /\ GoTo(t, "register")
          /\ UNCHANGED fresh
    /\ UNCHANGED <<now, keys, lease, unlocked, evicted, crossed>>

(* ... and a new one added, unless somebody else was faster. *)
AddLock(t) ==
    /\ pc[t] = "add"
    /\ \/ entity # NoLock /\ Return(t) /\ UNCHANGED <<made, entity>>
       \/ \E timeout \in Timeouts :
             /\ entity = NoLock /\ made < MaxObjects
             /\ made' = made + 1
             /\ entity' = [object |-> made + 1, key |-> made + 1, until |-> now + timeout]
             /\ old' = [old EXCEPT ![t] = entity']
             /\ GoTo(t, "register")
             /\ UNCHANGED fresh
    /\ UNCHANGED <<now, keys, lease, unlocked, evicted, crossed>>

M_Register(t) ==
    /\ pc[t] = "register"
    /\ lease' = [lease EXCEPT ![old[t].key] = old[t].until]
    /\ Return(t)
    /\ UNCHANGED <<now, made, entity, keys, unlocked, evicted, crossed>>

(* The new lock is entered under its unlock key and answered. *)
Register(t) ==
    /\ pc[t] = "register"
    /\ keys' = [keys EXCEPT ![old[t].key] = old[t]]
    /\ lease' = [lease EXCEPT ![old[t].key] = old[t].until]
    /\ Return(t)
    /\ UNCHANGED <<now, made, entity, unlocked, evicted, crossed>>

-------------------------------------------------------------------------------
Pinging(k) == {t \in Threads : pc[t] \in {"updateKey", "updateEntity"} /\ old[t].key = k}

(* Ping: the object under the unlock key ... *)
FindKey(t, k) ==
    /\ pc[t] = "idle"
    /\ lease[k] > 0 /\ keys[k] # NoLock
    /\ old' = [old EXCEPT ![t] = keys[k]]
    /\ crossed' = IF Pinging(k) = {} THEN crossed ELSE crossed \cup {k}
    /\ GoTo(t, "updateKey")
    /\ UNCHANGED <<now, made, entity, keys, fresh, lease, unlocked, evicted>>

(* ... is replaced in _lockKeys if it still is the one, ... *)
UpdateKey(t) ==
    LET k == old[t].key IN
    /\ pc[t] = "updateKey"
    /\ \/ keys[k] # old[t] /\ Return(t) /\ UNCHANGED <<made, keys>>
       \/ \E timeout \in Timeouts :
             /\ keys[k] = old[t] /\ made < MaxObjects
             /\ made' = made + 1
             /\ fresh' = [fresh EXCEPT ![t] =
                             [object |-> made + 1, key |-> k, until |-> now + timeout]]
             /\ keys' = [keys EXCEPT ![k] = fresh'[t]]
             /\ GoTo(t, "updateEntity")
             /\ UNCHANGED old
    /\ UNCHANGED <<now, entity, lease, unlocked, evicted, crossed>>

(* The caller may rely on the new time once Ping has returned, unless its    *)
(* lock had timed out by then.                                               *)
Extend(t) ==
    lease' = IF lease[old[t].key] > now
             THEN [lease EXCEPT ![old[t].key] = fresh[t].until] ELSE lease

M_UpdateEntity(t) ==
    /\ pc[t] = "updateEntity"
    /\ Extend(t)
    /\ Return(t)
    /\ UNCHANGED <<now, made, entity, keys, unlocked, evicted, crossed>>

(* ... and then in _locks, likewise. *)
UpdateEntity(t) ==
    /\ pc[t] = "updateEntity"
    /\ entity' = IF entity = old[t] THEN fresh[t] ELSE entity
    /\ Extend(t)
    /\ Return(t)
    /\ UNCHANGED <<now, made, keys, unlocked, evicted, crossed>>

-------------------------------------------------------------------------------
M_RemoveKey(t, k) ==
    /\ pc[t] = "idle"
    /\ lease[k] > 0
    /\ unlocked' = unlocked \cup {k}
    /\ keys' = [keys EXCEPT ![k] = NoLock]
    /\ old' = [old EXCEPT ![t] = keys[k]]
    /\ GoTo(t, "unlockEntity")
    /\ UNCHANGED <<now, made, entity, fresh, lease, evicted, crossed>>

(* Unlock: the unlock key goes, and if it was there ... *)
RemoveKey(t, k) ==
    /\ pc[t] = "idle"
    /\ lease[k] > 0
    /\ unlocked' = unlocked \cup {k}
    /\ \/ keys[k] = NoLock /\ UNCHANGED <<keys, pc, old>>
       \/ /\ keys[k] # NoLock
          /\ keys' = [keys EXCEPT ![k] = NoLock]
          /\ old' = [old EXCEPT ![t] = keys[k]]
          /\ GoTo(t, "unlockEntity")
    /\ UNCHANGED <<now, made, entity, fresh, lease, evicted, crossed>>

(* ... the lock of the entity with it, whosever it is by now. *)
RemoveEntity(t) ==
    /\ pc[t] = "unlockEntity"
    /\ entity' = NoLock
    /\ Return(t)
    /\ UNCHANGED <<now, made, keys, lease, unlocked, evicted, crossed>>

Tick ==
    /\ now < MaxTime
    /\ now' = now + 1
    /\ UNCHANGED <<made, entity, keys, pc, old, fresh, lease, unlocked, evicted, crossed>>

-------------------------------------------------------------------------------
LockCall(t) == FindLock(t) \/ EvictEntity(t) \/ EvictKey(t) \/ AddLock(t) \/ Register(t)
PingCall(t) == (\E k \in Objects : FindKey(t, k)) \/ UpdateKey(t) \/ UpdateEntity(t)
UnlockCall(t) == (\E k \in Objects : RemoveKey(t, k)) \/ RemoveEntity(t)

Next == Tick \/ \E t \in Threads : LockCall(t) \/ PingCall(t) \/ UnlockCall(t)

Spec == Init /\ [][Next]_vars

-------------------------------------------------------------------------------
TypeOK ==
    /\ now \in Nat /\ made \in 0..MaxObjects
    /\ entity \in Lock \cup {NoLock}
    /\ keys \in [Objects -> Lock \cup {NoLock}]
    /\ pc \in [Threads -> Steps]
    /\ old \in [Threads -> Lock \cup {NoLock}]
    /\ fresh \in [Threads -> Lock \cup {NoLock}]
    /\ lease \in [Objects -> Nat]
    /\ unlocked \subseteq Objects /\ evicted \in BOOLEAN /\ crossed \subseteq Objects
    /\ \A t \in Threads : pc[t] \notin {"idle", "add"} => old[t] \in Lock
    /\ \A t \in Threads : pc[t] = "updateEntity" => fresh[t] \in Lock

(* The unlock keys whose holders may take themselves for the owner. *)
Holders == {k \in Objects : lease[k] > now /\ k \notin unlocked}

(* As long as every lock is unlocked before it times out, it is exclusive:   *)
(* no order of the two dictionaries' updates, and no second Unlock or late   *)
(* Ping with a used unlock key, takes a lock from its holder.                *)
ExclusiveInTime == ~evicted => Cardinality(Holders) <= 1

(* Likewise _lockKeys then keeps nothing but the lock of the entity, and     *)
(* that lock can be unlocked: one no unlock key opens blocks the entity      *)
(* until it times out.                                                       *)
KeysMatch ==
    ~evicted =>
        /\ \A k \in Objects : keys[k] # NoLock => entity # NoLock /\ entity.key = k
        /\ entity # NoLock =>
              \/ keys[entity.key] # NoLock
              \/ \E t \in Threads : pc[t] \in {"register", "unlockEntity"} /\ old[t].key = entity.key

(* A ping that has returned extended the lock the entity is held by, if its  *)
(* unlock key holds it at all and no other ping of that key overlapped: the  *)
(* two dictionaries then hold the same object.                               *)
PingExtends ==
    \A k \in Objects \ crossed :
        (keys[k] # NoLock /\ entity # NoLock /\ entity.key = k /\ Pinging(k) = {})
            => entity = keys[k]

-------------------------------------------------------------------------------
(* The inductive invariant behind the first two, for as long as no lock has  *)
(* been found timed out.                                                     *)

(* A thread between its two updates works on the lock of the entity, whose   *)
(* unlock key is not entered, or no longer; there is one such thread at most. *)
Between == {t \in Threads : pc[t] \in {"register", "unlockEntity"}}

BetweenInv ==
    /\ \A t \in Between :
          /\ entity # NoLock /\ entity.key = old[t].key
          /\ keys[entity.key] = NoLock
          /\ pc[t] = "register" => lease[entity.key] = 0
          /\ pc[t] = "unlockEntity" => entity.key \in unlocked
    /\ \A t, u \in Between : t = u

(* A granted unlock key is the one of the lock of the entity until it is     *)
(* used, and keys yet to be made are unused.                                 *)
GrantInv ==
    /\ \A k \in Objects : (lease[k] > 0 /\ k \notin unlocked) => keys[k] # NoLock
    /\ \A k \in Objects : keys[k] # NoLock => k <= made /\ keys[k].key = k
    /\ \A k \in Objects : lease[k] > 0 => k <= made
    /\ unlocked \subseteq 1..made
    /\ entity # NoLock => entity.key <= made

(* A ping puts a lock in the place of one with the same unlock key. *)
PingInv ==
    \A t \in Threads : pc[t] = "updateEntity" => fresh[t].key = old[t].key

NoEviction == \A t \in Threads : pc[t] \notin {"evictEntity", "evictKey"}

IInv ==
    /\ TypeOK
    /\ ~evicted => KeysMatch /\ BetweenInv /\ GrantInv /\ PingInv /\ NoEviction

(* The inductive invariant behind the third, evictions or not.  No key is    *)
(* known before its first object is made; ...                                *)
KeysInv ==
    /\ \A k \in Objects : keys[k] # NoLock => keys[k].key = k /\ k <= made
    /\ \A k \in Objects : lease[k] > 0 => k <= made
    /\ entity # NoLock => entity.key <= made
    /\ \A t \in Threads :
          pc[t] \in {"register", "updateKey", "updateEntity"} => old[t].key <= made

(* ... a key about to be entered has never been: no ping knows it, and the   *)
(* entity holds its first object or another lock; ...                        *)
RegisterInv ==
    \A t \in Threads : pc[t] = "register" =>
        /\ keys[old[t].key] = NoLock /\ lease[old[t].key] = 0 /\ Pinging(old[t].key) = {}
        /\ (entity # NoLock /\ entity.key = old[t].key) => entity = old[t]
        /\ \A u \in Threads \ {t} : pc[u] = "register" => old[u].key # old[t].key

(* ... and the dictionaries hold one object of a key, or a ping is between   *)
(* its two updates and they hold the two it works on.                        *)
Entered(k) == keys[k] # NoLock /\ entity # NoLock /\ entity.key = k

OneObject(k) ==
    /\ \A t, u \in Pinging(k) : t = u
    /\ Entered(k) =>
          /\ \A t \in Pinging(k) :
                pc[t] = "updateEntity" => keys[k] = fresh[t] /\ entity = old[t]
          /\ (\A t \in Pinging(k) : pc[t] = "updateKey") => entity = keys[k]

PingIInv ==
    /\ TypeOK /\ KeysInv /\ PingInv /\ RegisterInv
    /\ \A k \in Objects \ crossed : OneObject(k)

-------------------------------------------------------------------------------
(* A claim of the source that the code does not keep (see README, "Findings") *)

(* LockingModel.cs:27: "Lock exists and has not timed out, return null": no   *)
(* second caller holds a lock before the first has timed out or is unlocked.  *)
OneHolder == Cardinality(Holders) <= 1
===============================================================================

----------------------------- MODULE MessageQueue -----------------------------
(***************************************************************************)
(* The message queue of the Sys server: QueueingModel.cs on top of         *)
(* IdentityRepository / PersistentRepository, the EditableRecord lock of a *)
(* message, and the periodic flush to the table (QueuePersistence).        *)
(*                                                                         *)
(* Requests run on server threads and interleave.  Enqueue checks for a    *)
(* duplicate and then inserts; Dequeue selects its targets and then edits  *)
(* them one by one; Ping and Complete look a message up by its pop receipt *)
(* and then act on the object they found.  Memory is the queue: the table  *)
(* only follows it, by whole snapshots, and a crash falls back to it.      *)
(*                                                                         *)
(* One queue name and scope is modelled; messages of other queues are      *)
(* never candidates of its Dequeue.  Created is not kept: an element of    *)
(* Entries is one Enqueue call, which is what (Message, Created) names.    *)
(***************************************************************************)
EXTENDS Integers, Sequences, FiniteSets

CONSTANTS Entries,       \* Enqueue calls, each made at most once
          Clients,       \* request threads of the server
          Flushers,      \* callers of Flush: the 60 s loop, and StopAsync
          NoEntry,
          Keys,          \* pairs of a buffer key and a message argument
          NoKey,
          BufferKey,     \* entry -> its pair, NoKey if enqueued without one
          Counts,        \* how many messages a Dequeue may ask for
          DequeueLease,  \* the visibility timeout of Dequeue
          PingLeases,    \* the visibility timeouts of Ping
          Delays,        \* the nextVisible arguments of Enqueue
          Lifetime,      \* the expire argument of Enqueue
          MaxTime, MaxId, MaxReceipt, MaxCrashes   \* bounds for TLC

ASSUME NoEntryAssumption == NoEntry \notin Entries
ASSUME BufferKeyAssumption == BufferKey \in [Entries -> Keys \cup {NoKey}]
ASSUME TimeAssumption ==
    /\ DequeueLease \in Nat /\ PingLeases \subseteq Nat
    /\ Delays \subseteq Nat /\ Lifetime \in Nat
    /\ MaxTime \in Nat /\ MaxId \in Nat /\ MaxReceipt \in Nat /\ MaxCrashes \in Nat
ASSUME CountsAssumption == Counts \subseteq Nat

VARIABLES now,
          identity,    \* IdentityRepository._identity
          msgs,        \* the message object of each id
          cache,       \* ids of the messages in the repository
          locked,      \* ids whose object is locked (EditableRecord._isLocked)
          dirty,       \* PersistentRepository._dirty
          table,       \* the rows of tompit.queue
          pc,          \* where each request thread is
          targets,     \* the ids it still has to work on
          receipt,     \* the pop receipt it was called with
          incoming,    \* the entry it enqueues
          flush,       \* where each flush is
          flushing,    \* the ids of the messages it snapshot
          grants,      \* history: what each pop receipt was handed out for
          fate,        \* history: what became of each entry
          flushFailed, \* history: the last flush threw after Clean()
          overtaken,   \* history: entries whose lease was changed by a ping with
                       \* an older pop receipt, or went back in time by a restart
          crashes

memory == <<identity, msgs, cache, locked, dirty>>
threads == <<pc, targets, receipt, incoming>>
flushVars == <<flush, flushing>>
history == <<grants, fate, overtaken>>
vars == <<now, identity, msgs, cache, locked, dirty, table, pc, targets, receipt,
          incoming, flush, flushing, grants, fate, flushFailed, overtaken, crashes>>

Ids == 1..MaxId
NoReceipt == 0       \* Guid.Empty
Receipts == 0..MaxReceipt

Message == [entry : Entries, nextVisible : Nat, expire : Nat,
            count : Nat, receipt : Receipts]
NoMessage == [entry |-> NoEntry]

Steps == {"idle", "insert", "take", "edit", "ping", "pingEdit", "complete"}
FlushSteps == {"idle", "snapshot", "write"}
Fates == {"new", "arriving", "duplicate", "refused", "accepted",
          "completed", "expired", "lost"}

Init ==
    /\ now = 0
    /\ identity = 0
    /\ msgs = [id \in Ids |-> NoMessage]
    /\ cache = {}
    /\ locked = {}
    /\ dirty = FALSE
    /\ table = [id \in Ids |-> NoMessage]
    /\ pc = [c \in Clients |-> "idle"]
    /\ targets = [c \in Clients |-> <<>>]
    /\ receipt = [c \in Clients |-> NoReceipt]
    /\ incoming = [c \in Clients |-> NoEntry]
    /\ flush = [f \in Flushers |-> "idle"]
    /\ flushing = [f \in Flushers |-> {}]
    /\ grants = <<>>
    /\ fate = [e \in Entries |-> "new"]
    /\ flushFailed = FALSE
    /\ overtaken = {}
    /\ crashes = 0

-------------------------------------------------------------------------------
(* Enqueue, the duplicate check. *)
Buffered(e) ==
    /\ BufferKey[e] # NoKey
    /\ \E id \in cache : BufferKey[msgs[id].entry] = BufferKey[e]

CheckDuplicate(c, e) ==
    /\ pc[c] = "idle"
    /\ fate[e] = "new"
    /\ \/ /\ Buffered(e)
          /\ fate' = [fate EXCEPT ![e] = "duplicate"]
          /\ UNCHANGED <<pc, incoming>>
       \/ /\ ~Buffered(e)
          /\ fate' = [fate EXCEPT ![e] = "arriving"]
          /\ pc' = [pc EXCEPT ![c] = "insert"]
          /\ incoming' = [incoming EXCEPT ![c] = e]
    /\ UNCHANGED <<now, memory, table, targets, receipt, flushVars, grants,
                   flushFailed, overtaken, crashes>>

(* M_... definitions are deliberately wrong versions of the definition that  *)
(* follows them; they are not part of the model (README, "Mutants").         *)
M_NewMessage(e, delay) ==
    [entry |-> NoEntry, nextVisible |-> now + delay, expire |-> now + Lifetime,
     count |-> 0, receipt |-> NoReceipt]

NewMessage(e, delay) ==
    [entry |-> e, nextVisible |-> now + delay, expire |-> now + Lifetime,
     count |-> 0, receipt |-> NoReceipt]

(* Enqueue, the insertion under a fresh id.  Set and Dirty are one step: a    *)
(* flush between them leaves the flag set all the same.                      *)
Insert(c) ==
    /\ pc[c] = "insert"
    /\ identity < MaxId
    /\ identity' = identity + 1
    /\ \E delay \in Delays :
          msgs' = [msgs EXCEPT ![identity + 1] = NewMessage(incoming[c], delay)]
    /\ cache' = cache \cup {identity + 1}
    /\ dirty' = TRUE
    /\ fate' = [fate EXCEPT ![incoming[c]] = "accepted"]
    /\ pc' = [pc EXCEPT ![c] = "idle"]
    /\ incoming' = [incoming EXCEPT ![c] = NoEntry]
    /\ UNCHANGED <<now, locked, table, targets, receipt, flushVars, grants,
                   flushFailed, overtaken, crashes>>

-------------------------------------------------------------------------------
(* Dequeue: SelectTargets, the visible unexpired messages in the order of    *)
(* NextVisible, then Id, and of those the first n.                           *)
Visible == {id \in cache : msgs[id].nextVisible <= now /\ msgs[id].expire > now}

Before(a, b) ==
    \/ msgs[a].nextVisible < msgs[b].nextVisible
    \/ msgs[a].nextVisible = msgs[b].nextVisible /\ a < b

Ordered(s) == \A i, j \in 1..Len(s) : i < j => Before(s[i], s[j])

Selection(n, s) ==
    /\ Ordered(s)
    /\ \A i \in 1..Len(s) : s[i] \in Visible
    /\ \/ Len(s) = Cardinality(Visible)
       \/ /\ Len(s) = n
          /\ \A id \in Visible : (\A i \in 1..Len(s) : s[i] # id) => Before(s[n], id)
    /\ Len(s) <= n

SelectTargets(c, n) ==
    /\ pc[c] = "idle"
    /\ Visible # {}
    /\ \E s \in UNION {[1..k -> Visible] : k \in 1..n} :
          /\ Selection(n, s)
          /\ targets' = [targets EXCEPT ![c] = s]
    /\ pc' = [pc EXCEPT ![c] = "take"]
    /\ UNCHANGED <<now, memory, table, receipt, incoming, flushVars, history,
                   flushFailed, crashes>>

(* The thread is done with the target at the head of its list. *)
NextTarget(c) ==
    /\ targets' = [targets EXCEPT ![c] = Tail(targets[c])]
    /\ pc' = [pc EXCEPT ![c] = IF Len(targets[c]) = 1 THEN "idle" ELSE "take"]

Target(c) == Head(targets[c])

(* target.BeginEdit(): a message somebody else is editing is passed over. *)
BeginEdit(c) ==
    /\ pc[c] = "take"
    /\ \/ Target(c) \in locked /\ NextTarget(c) /\ UNCHANGED locked
       \/ /\ Target(c) \notin locked
          /\ locked' = locked \cup {Target(c)}
          /\ pc' = [pc EXCEPT ![c] = "edit"]
          /\ UNCHANGED targets
    /\ UNCHANGED <<now, identity, msgs, cache, dirty, table, receipt, incoming,
                   flushVars, history, flushFailed, crashes>>

M_EndEdit(id) == locked' = locked
EndEdit(id) == locked' = locked \ {id}

M_StillVisible(id) == TRUE
StillVisible(id) == msgs[id].nextVisible <= now

(* The rest of the loop body, EndEdit included: the message is looked at     *)
(* again, as another Dequeue may have taken it since SelectTargets.          *)
Take(c) ==
    LET id == Target(c) IN
    /\ pc[c] = "edit"
    /\ EndEdit(id)
    /\ NextTarget(c)
    /\ \/ /\ ~StillVisible(id)
          /\ UNCHANGED <<msgs, dirty, grants>>
       \/ /\ StillVisible(id)
          /\ Len(grants) < MaxReceipt
          /\ msgs' = [msgs EXCEPT ![id].nextVisible = now + DequeueLease,
                                  ![id].count = msgs[id].count + 1,
                                  ![id].receipt = Len(grants) + 1]
          /\ grants' = Append(grants, [entry |-> msgs[id].entry, until |-> now + DequeueLease])
          /\ dirty' = TRUE
    /\ UNCHANGED <<now, identity, cache, table, receipt, incoming, flushVars,
                   fate, flushFailed, overtaken, crashes>>

-------------------------------------------------------------------------------
(* Select(popReceipt), which both Ping and Complete start with. *)
Lookup(c, r, step) ==
    /\ pc[c] = "idle"
    /\ \E id \in cache :
          /\ msgs[id].receipt = r
          /\ targets' = [targets EXCEPT ![c] = <<id>>]
    /\ receipt' = [receipt EXCEPT ![c] = r]
    /\ pc' = [pc EXCEPT ![c] = step]
    /\ UNCHANGED <<now, memory, table, incoming, flushVars, history, flushFailed, crashes>>

Return(c) ==
    /\ pc' = [pc EXCEPT ![c] = "idle"]
    /\ targets' = [targets EXCEPT ![c] = <<>>]
    /\ receipt' = [receipt EXCEPT ![c] = NoReceipt]

(* Ping: BeginEdit throws on a locked message, and Ping swallows it. *)
PingBegin(c) ==
    /\ pc[c] = "ping"
    /\ \/ Target(c) \in locked /\ Return(c) /\ UNCHANGED locked
       \/ /\ Target(c) \notin locked
          /\ locked' = locked \cup {Target(c)}
          /\ pc' = [pc EXCEPT ![c] = "pingEdit"]
          /\ UNCHANGED <<targets, receipt>>
    /\ UNCHANGED <<now, identity, msgs, cache, dirty, table, incoming, flushVars,
                   history, flushFailed, crashes>>

PingApply(c) ==
    LET id == Target(c)
        r  == receipt[c] IN
    /\ pc[c] = "pingEdit"
    /\ \E lease \in PingLeases :
          /\ msgs' = [msgs EXCEPT ![id].nextVisible = now + lease]
          /\ grants' = [grants EXCEPT ![r].until = now + lease]
    /\ overtaken' = IF msgs[id].receipt = r THEN overtaken
                    ELSE overtaken \cup {msgs[id].entry}
    /\ EndEdit(id)
    /\ dirty' = TRUE
    /\ Return(c)
    /\ UNCHANGED <<now, identity, cache, table, incoming, flushVars, fate,
                   flushFailed, crashes>>

(* Complete: the message found goes, whatever has happened to it since       *)
(* (Remove and Dirty are one step, as in Insert).                            *)
Settle(S, outcome) ==
    fate' = [e \in Entries |->
               IF fate[e] = "accepted" /\ \E id \in S \cap cache : msgs[id].entry = e
               THEN outcome ELSE fate[e]]

Remove(c) ==
    /\ pc[c] = "complete"
    /\ cache' = cache \ {Target(c)}
    /\ Settle({Target(c)}, "completed")
    /\ dirty' = TRUE
    /\ Return(c)
    /\ UNCHANGED <<now, identity, msgs, locked, table, incoming, flushVars, grants,
                   flushFailed, overtaken, crashes>>

-------------------------------------------------------------------------------
(* Flush: nothing to do unless dirty; the flag is reset first, ... *)
FlushBegin(f) ==
    /\ flush[f] = "idle"
    /\ dirty
    /\ dirty' = FALSE
    /\ flush' = [flush EXCEPT ![f] = "snapshot"]
    /\ UNCHANGED <<now, identity, msgs, cache, locked, table, threads, flushing,
                   history, flushFailed, crashes>>

(* ... then the messages are listed, and those past their Expire removed     *)
(* from memory (they are still in the list) ...                              *)
Expired == {id \in cache : msgs[id].expire < now}

M_Listed == cache \ locked
Listed == cache

FlushSnapshot(f) ==
    /\ flush[f] = "snapshot"
    /\ flushing' = [flushing EXCEPT ![f] = Listed]
    /\ cache' = cache \ Expired
    /\ Settle(Expired, "expired")
    /\ flush' = [flush EXCEPT ![f] = "write"]
    /\ UNCHANGED <<now, identity, msgs, locked, dirty, table, threads, grants,
                   flushFailed, overtaken, crashes>>

(* ... and queue_upd replaces all rows by the listed objects as they are now. *)
FlushWrite(f) ==
    /\ flush[f] = "write"
    /\ table' = [id \in Ids |-> IF id \in flushing[f] THEN msgs[id] ELSE NoMessage]
    /\ flushFailed' = FALSE
    /\ flush' = [flush EXCEPT ![f] = "idle"]
    /\ flushing' = [flushing EXCEPT ![f] = {}]
    /\ UNCHANGED <<now, memory, threads, history, crashes>>

(* The database call throws; PersistenceService swallows the exception. *)
FlushFails(f) ==
    /\ flush[f] = "write"
    /\ flushFailed' = TRUE
    /\ flush' = [flush EXCEPT ![f] = "idle"]
    /\ flushing' = [flushing EXCEPT ![f] = {}]
    /\ UNCHANGED <<now, memory, table, threads, history, crashes>>

-------------------------------------------------------------------------------
(* The server dies and OnInitializing loads the table: requests and flushes  *)
(* under way are gone, the identity is seeded with the largest id.           *)
Saved == {id \in Ids : table[id] # NoMessage}

M_NoSeed == 0

Seed == IF Saved = {} THEN 0 ELSE CHOOSE id \in Saved : \A k \in Saved : k <= id

Restart ==
    /\ crashes < MaxCrashes
    /\ crashes' = crashes + 1
    /\ identity' = Seed
    /\ msgs' = table
    /\ cache' = Saved
    /\ locked' = {}
    /\ dirty' = FALSE
    /\ pc' = [c \in Clients |-> "idle"]
    /\ targets' = [c \in Clients |-> <<>>]
    /\ receipt' = [c \in Clients |-> NoReceipt]
    /\ incoming' = [c \in Clients |-> NoEntry]
    /\ flush' = [f \in Flushers |-> "idle"]
    /\ flushing' = [f \in Flushers |-> {}]
    /\ flushFailed' = FALSE
    /\ fate' = [e \in Entries |->
                  CASE fate[e] = "arriving" -> "refused"
                    [] fate[e] = "accepted" /\ ~\E id \in Saved : table[id].entry = e -> "lost"
                    [] OTHER -> fate[e]]
    /\ overtaken' = overtaken \cup {grants[r].entry : r \in 1..Len(grants)}
    /\ UNCHANGED <<now, table, grants>>

Tick ==
    /\ now < MaxTime
    /\ now' = now + 1
    /\ UNCHANGED <<memory, table, threads, flushVars, history, flushFailed, crashes>>

-------------------------------------------------------------------------------
Ping(c) == \E r \in 1..Len(grants) : Lookup(c, r, "ping")
Complete(c) == \E r \in 1..Len(grants) : Lookup(c, r, "complete")
Dequeue(c) == \E n \in Counts : SelectTargets(c, n)
Enqueue(c) == \E e \in Entries : CheckDuplicate(c, e)

Request(c) ==
    \/ Enqueue(c) \/ Insert(c)
    \/ Dequeue(c) \/ BeginEdit(c) \/ Take(c)
    \/ Ping(c) \/ PingBegin(c) \/ PingApply(c)
    \/ Complete(c) \/ Remove(c)

Flush(f) == FlushBegin(f) \/ FlushSnapshot(f) \/ FlushWrite(f) \/ FlushFails(f)

Next ==
    \/ \E c \in Clients : Request(c)
    \/ \E f \in Flushers : Flush(f)
    \/ Restart
    \/ Tick

Spec == Init /\ [][Next]_vars

-------------------------------------------------------------------------------
TypeOK ==
    /\ now \in Nat /\ identity \in 0..MaxId /\ crashes \in Nat
    /\ msgs \in [Ids -> Message \cup {NoMessage}]
    /\ table \in [Ids -> Message \cup {NoMessage}]
    /\ cache \subseteq Ids /\ locked \subseteq Ids
    /\ dirty \in BOOLEAN /\ flushFailed \in BOOLEAN
    /\ pc \in [Clients -> Steps]
    /\ targets \in [Clients -> Seq(Ids)]
    /\ receipt \in [Clients -> Receipts]
    /\ incoming \in [Clients -> Entries \cup {NoEntry}]
    /\ flush \in [Flushers -> FlushSteps]
    /\ flushing \in [Flushers -> SUBSET Ids]
    /\ grants \in Seq([entry : Entries, until : Nat])
    /\ Len(grants) <= MaxReceipt
    /\ fate \in [Entries -> Fates]
    /\ overtaken \subseteq Entries

Editing == {c \in Clients : pc[c] \in {"edit", "pingEdit"}}

(* A message is locked exactly while one thread edits it: Dequeue and Ping   *)
(* never edit the same object at once, and no path through either leaves a   *)
(* message locked, which would hide it from every later Dequeue.             *)
LockDiscipline ==
    /\ locked = {Target(c) : c \in Editing}
    /\ \A c, d \in Editing : Target(c) = Target(d) => c = d

(* What Enqueue accepted stays in the queue until it is completed or expires *)
(* (or a crash takes what no flush had saved): no insertion overwrites       *)
(* another, before or after a restart, and no flush drops what is alive.     *)
NothingLost ==
    \A e \in Entries :
        fate[e] = "accepted" => \E id \in cache : msgs[id].entry = e

InSync ==
    \A id \in Ids :
        IF id \in cache THEN table[id] = msgs[id] ELSE table[id] = NoMessage \/ table[id].expire < now

(* Whenever the repository calls itself clean, no flush is under way and the *)
(* last one did not throw, a restart now would lose nothing: every message   *)
(* is in the table as it is in memory, and what else is there has expired.   *)
DurableWhenClean ==
    (~dirty /\ ~flushFailed /\ \A f \in Flushers : flush[f] = "idle") =>
        InSync

(* No message is handed out while a pop receipt handed out for it before     *)
(* still holds its lease, as granted by Dequeue and by the last Ping; except *)
(* where a ping raced a Dequeue or the server restarted.                     *)
Delivered(e) == {r \in 1..Len(grants) : grants[r].entry = e}

HandedOutFree ==
    \A r \in (1..Len(grants')) \ (1..Len(grants)) :
        grants'[r].entry \in overtaken
        \/ \A s \in Delivered(grants'[r].entry) : grants[s].until <= now

LeaseRespected == [][HandedOutFree]_vars

-------------------------------------------------------------------------------
(* The inductive invariant behind these.  A slot of msgs that holds a        *)
(* message is an object some thread may still reach, cached or not.          *)

Real(m) == m \in Message

Arrived == {e \in Entries : fate[e] \in {"accepted", "completed", "expired", "lost"}}

CacheInv ==
    /\ \A id \in cache : Real(msgs[id])
    /\ \A id \in Ids : Real(msgs[id]) => id <= identity

(* A thread that works on targets has objects to work on, and one that was   *)
(* called with a pop receipt works on the entry it was handed out for.       *)
ThreadOK(c) ==
    /\ pc[c] = "insert" => incoming[c] \in Entries /\ fate[incoming[c]] = "arriving"
    /\ pc[c] \in {"take", "edit", "ping", "pingEdit", "complete"} =>
          /\ targets[c] # <<>>
          /\ \A n \in 1..Len(targets[c]) : Real(msgs[targets[c][n]])
    /\ pc[c] \in {"ping", "pingEdit", "complete"} =>
          /\ receipt[c] \in 1..Len(grants)
          /\ grants[receipt[c]].entry = msgs[Target(c)].entry

ThreadInv == \A c \in Clients : ThreadOK(c)

ArrivalInv ==
    \A c, d \in Clients :
        (pc[c] = "insert" /\ pc[d] = "insert" /\ incoming[c] = incoming[d]) => c = d

(* In memory and in the table: only entries that arrived, each under one id, *)
(* and with a pop receipt that was handed out for it.                        *)
StoreInv(store) ==
    /\ \A id \in Ids : Real(store[id]) =>
          /\ store[id].entry \in Arrived
          /\ store[id].receipt # NoReceipt =>
                /\ store[id].receipt \in 1..Len(grants)
                /\ grants[store[id].receipt].entry = store[id].entry
    /\ \A i, j \in Ids :
          (Real(store[i]) /\ Real(store[j]) /\ store[i].entry = store[j].entry) => i = j

GrantInv == \A r \in 1..Len(grants) : grants[r].entry \in Arrived

(* A message becomes visible only after every lease granted for it, and only *)
(* the lease of its current pop receipt may still run.                       *)
LeaseInv ==
    \A id \in Ids : (Real(msgs[id]) /\ msgs[id].entry \notin overtaken) =>
        \A r \in Delivered(msgs[id].entry) :
            /\ grants[r].until <= msgs[id].nextVisible
            /\ r # msgs[id].receipt => grants[r].until <= now

IInv ==
    /\ TypeOK /\ CacheInv /\ ThreadInv /\ ArrivalInv
    /\ StoreInv(msgs) /\ StoreInv(table) /\ GrantInv /\ LeaseInv

-------------------------------------------------------------------------------
(* Claims of the source that the code does not keep (see README, "Findings") *)

(* QueueingModel.cs:39: "We only enqueue one message with the same message   *)
(* argument at the same time if the buffer key has been passed."             *)
OnePerBufferKey ==
    \A i, j \in cache :
        (BufferKey[msgs[i].entry] # NoKey /\ BufferKey[msgs[i].entry] = BufferKey[msgs[j].entry])
            => i = j
===============================================================================

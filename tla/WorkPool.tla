------------------------------- MODULE WorkPool -------------------------------
(***************************************************************************)
(* What a work dispatcher promises to the services that feed it, with no   *)
(* workers, lists, locks or events: a first-in first-out pool that runs at *)
(* most Limit items at a time, never loses an item and never runs one      *)
(* twice, until it is closed.  Dispatcher.tla is shown to implement it, and*)
(* so is each dispatcher of KeyedDispatcher.tla.                           *)
(***************************************************************************)
EXTENDS Integers, Sequences, FiniteSets

CONSTANTS Items,   \* the items a service may submit
          Limit    \* how many items may be in work at a time

VARIABLES waiting,   \* the items accepted and not started, oldest first
          stage,     \* where each item is
          closed     \* the pool is being taken down

vars == <<waiting, stage, closed>>

Stages == {"new", "waiting", "active", "done", "dropped"}

Active == {i \in Items : stage[i] = "active"}

Init ==
    /\ waiting = <<>>
    /\ stage = [i \in Items |-> "new"]
    /\ closed = FALSE

Submit(i) ==
    /\ stage[i] = "new"
    /\ waiting' = Append(waiting, i)
    /\ stage' = [stage EXCEPT ![i] = "waiting"]
    /\ UNCHANGED closed

(* Only the oldest item starts, and only while the pool has room. *)
Start ==
    /\ waiting # <<>>
    /\ closed \/ Cardinality(Active) < Limit
    /\ waiting' = Tail(waiting)
    /\ stage' = [stage EXCEPT ![Head(waiting)] = "active"]
    /\ UNCHANGED closed

(* The oldest item has lost its claim (its lease ran out) and is put aside. *)
Discard ==
    /\ waiting # <<>>
    /\ waiting' = Tail(waiting)
    /\ stage' = [stage EXCEPT ![Head(waiting)] = "dropped"]
    /\ UNCHANGED closed

Finish(i) ==
    /\ stage[i] = "active"
    /\ stage' = [stage EXCEPT ![i] = "done"]
    /\ UNCHANGED <<waiting, closed>>

Close ==
    /\ ~closed
    /\ closed' = TRUE
    /\ UNCHANGED <<waiting, stage>>

(* A closed pool may throw away what nobody has started. *)
Clear ==
    /\ closed
    /\ waiting' = <<>>
    /\ stage' = [i \in Items |-> IF stage[i] = "waiting" THEN "dropped" ELSE stage[i]]
    /\ UNCHANGED closed

Next ==
    \/ Start \/ Discard \/ Close \/ Clear
    \/ \E i \in Items : Submit(i) \/ Finish(i)

Spec == Init /\ [][Next]_vars
===============================================================================

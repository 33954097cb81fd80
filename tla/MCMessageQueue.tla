---------------------------- MODULE MCMessageQueue ----------------------------
(* MessageQueue.tla for TLC: which entries share a buffer key, and the       *)
(* threads, which are interchangeable.                                       *)
EXTENDS MessageQueue, TLC

CONSTANT Twins   \* the entries enqueued with one and the same buffer key

MCBufferKey ==
    [e \in Entries |-> IF e \in Twins THEN CHOOSE k \in Keys : TRUE ELSE NoKey]

Symmetry == Permutations(Clients)

(* Without twins the entries are interchangeable, too. *)
NoTwinsSymmetry == Symmetry \cup Permutations(Entries)
===============================================================================

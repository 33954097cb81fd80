------------------------------ MODULE MCLocking ------------------------------
(* Locking.tla for TLC: request threads are interchangeable. *)
EXTENDS Locking, TLC

Symmetry == Permutations(Threads)
===============================================================================

----------------------------- MODULE MCDispatcher -----------------------------
(* Dispatcher.tla for TLC: which values are interchangeable. *)
EXTENDS Dispatcher, TLC

Symmetry == Permutations(Items) \cup Permutations(JobObjects)
===============================================================================

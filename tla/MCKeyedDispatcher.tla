--------------------------- MODULE MCKeyedDispatcher ---------------------------
(* KeyedDispatcher.tla for TLC.  No symmetry: the run checks liveness. *)
EXTENDS KeyedDispatcher, TLC
===============================================================================

------------------------------- MODULE MCWorkers -------------------------------
(* Workers.tla for TLC.  No symmetry: the run checks liveness. *)
EXTENDS Workers, TLC
================================================================================

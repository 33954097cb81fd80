------------------------------- MODULE MCBigData -------------------------------
(* BigData.tla for TLC.  No symmetry: the run checks liveness. *)
EXTENDS BigData, TLC
===============================================================================

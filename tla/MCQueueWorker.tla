----------------------------- MODULE MCQueueWorker -----------------------------
(* QueueWorker.tla for TLC.  No symmetry: the run checks liveness. *)
EXTENDS QueueWorker, TLC
================================================================================

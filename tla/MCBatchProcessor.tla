-------------------------- MODULE MCBatchProcessor --------------------------
(* Small instances of BatchProcessor for TLC.                                *)
EXTENDS BatchProcessor, TLC

\* Application tasks play the same part.
TaskSymmetry == Permutations(Callers)
=============================================================================

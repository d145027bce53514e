------------------------- MODULE MCParallelExecutor -------------------------
(* Instances of ParallelExecutor for TLC. *)
EXTENDS ParallelExecutor, TLC

CONSTANTS w1, w2, w3, s1, s2

WorkerSymmetry == Permutations(Workers)
=============================================================================

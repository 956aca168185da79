---------------------------- MODULE MCWorkerPool ----------------------------
(* A small instance of WorkerPool for TLC.                                 *)
EXTENDS WorkerPool, TLC

PoolSymmetry == Permutations(Workers) \cup Permutations(Tasks) \cup Permutations(Calls)
=============================================================================

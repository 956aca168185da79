----------------------------- MODULE MCTaskQueue -----------------------------
(* Small instances of TaskQueue for TLC.                                   *)
EXTENDS TaskQueue, TLC

CallSymmetry == Permutations(Calls)
=============================================================================

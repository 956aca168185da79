----------------------------- MODULE MCConsensus -----------------------------
(* Small instances of Consensus for TLC.                                     *)
EXTENDS Consensus, TLC

EqualWeights == [w \in Workers |-> 1]
Symmetry == Permutations(Workers) \cup Permutations(Results)
=============================================================================

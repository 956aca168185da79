----------------------------- MODULE MCDispatch -----------------------------
(* Small instances of Dispatch for TLC: `a` is urgent and comes due later,  *)
(* `d` depends on it, `c` is asked of two voters, `b` has a low priority.   *)
EXTENDS Dispatch, TLC

CONSTANTS a, b, c, d

DependsOnDef == [t \in Tasks |-> IF t = d THEN {a} ELSE {}]
VotersDef == [t \in Tasks |-> IF t = c THEN 2 ELSE 0]
ScoresDef == [t \in Tasks |->
  CASE t = a -> {101} [] t \in {c, d} -> 11 .. 12 [] t = b -> {1}]
PollerSymmetry == Permutations(Pollers)
=============================================================================

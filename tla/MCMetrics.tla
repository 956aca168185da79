----------------------------- MODULE MCMetrics -----------------------------
(* A small instance of Metrics for TLC: one process with two loops (after  *)
(* stop and start) and one with a single loop.                             *)
EXTENDS Metrics, TLC

CONSTANTS p1, p2, l1, l2, l3

MCProcessOf == l1 :> p1 @@ l2 :> p1 @@ l3 :> p2
=============================================================================

---------------------------- MODULE MCTokenBucket ----------------------------
(* Small instances of TokenBucket for TLC.  `denied` only counts: leaving it *)
(* out of the view keeps the state space finite.                             *)
EXTENDS TokenBucket

View == <<clock, tokens, last, touched, sent, from, granted, spent>>
=============================================================================

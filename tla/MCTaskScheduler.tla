--------------------------- MODULE MCTaskScheduler ---------------------------
(* Small instances of TaskScheduler for TLC.                               *)
EXTENDS TaskScheduler
=============================================================================

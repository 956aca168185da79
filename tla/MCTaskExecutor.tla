---------------------------- MODULE MCTaskExecutor ----------------------------
(* Small instances of TaskExecutor for TLC.                                *)
EXTENDS TaskExecutor

\* Loops take the tasks: every fault, and the pairs whose combination matters.
InLoops == {{"disconnect", "abandon"}, {"straggler", "expire"},
            {"straggler", "abandon"}, {"crash", "abandon"},
            {"cancel", "crash"}, {"cancel", "timeout"}, {"cancel", "nohandler"},
            {"cancel", "expire"}, {"cancel", "abandon"}, {"crash", "timeout", "expire"},
            {"crash", "cost"}, {"cost", "timeout", "nohandler"}}

\* A dispatcher selects the workers: one fault at a time.
Selected == {{"crash"}, {"straggler"}, {"cancel"}, {"timeout"}, {"nohandler"}, {"cost"},
             {"disconnect"}}

MCScenarios == [dispatcher: {"loop"}, faults: InLoops]
                 \cup [dispatcher: {"select"}, faults: Selected]
=============================================================================

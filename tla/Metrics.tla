------------------------------- MODULE Metrics -------------------------------
(***************************************************************************)
(* The metrics collector, src/services/metrics-collector.ts: the loops     *)
(* that capture a snapshot every interval, the pruning that keeps a        *)
(* sliding window of them, and the report of the newest one.               *)
(*                                                                         *)
(* A snapshot is its key, "snapshot:<epoch ms>": what it contains is read  *)
(* from the other components and changes nothing in them.  Each process    *)
(* has a collectionRunning flag and may have several loops: stop followed  *)
(* by start leaves the old loop's timer armed beside the new loop.  The    *)
(* seven days after which Redis drops a snapshot by itself are longer than *)
(* any behaviour.                                                          *)
(***************************************************************************)
EXTENDS Integers, FiniteSets

CONSTANTS
  Processes,     \* instances of the server
  Loops,         \* collection loops, alive or not
  ProcessOf,     \* the process each loop runs in
  MaxSnapshots,  \* maxSnapshots
  Skew,          \* by how much a process's clock may be behind
  MaxTime,       \* bound: milliseconds that pass
  MaxCuts        \* bound: captures that fail or die with their process

ASSUME MetricsAssumption ==
  /\ MaxSnapshots \in Nat \ {0}  \* setMaxSnapshots refuses anything else
  /\ Skew \in Nat /\ MaxTime \in Nat /\ MaxCuts \in Nat
  /\ ProcessOf \in [Loops -> Processes]
  /\ IsFiniteSet(Loops)

VARIABLES
  now,      \* the time, in milliseconds
  keys,     \* the snapshots in Redis
  running,  \* collectionRunning of each process
  loop,     \* what each loop does next
  old,      \* the keys that each loop has still to delete
  cuts,     \* captures cut short so far
  ever      \* history: every snapshot stored

vars == <<now, keys, running, loop, old, cuts, ever>>

Timestamp == 0 .. MaxTime
Newer(S, k) == {j \in S : j > k}

Init ==
  /\ now = 0 /\ keys = {} /\ ever = {} /\ cuts = 0
  /\ running = [p \in Processes |-> FALSE]
  /\ loop = [l \in Loops |-> "none"]
  /\ old = [l \in Loops |-> {}]

Tick == /\ now < MaxTime
        /\ now' = now + 1
        /\ UNCHANGED <<keys, running, loop, old, cuts, ever>>

Goto(l, step) == loop' = [loop EXCEPT ![l] = step]

\* startMetricsCollection: refused while running, else a new loop that
\* captures at once.
Start(l) ==
  /\ ~running[ProcessOf[l]] /\ loop[l] = "none"
  /\ running' = [running EXCEPT ![ProcessOf[l]] = TRUE]
  /\ Goto(l, "store")
  /\ UNCHANGED <<now, keys, old, cuts, ever>>

Stop(p) ==
  /\ running[p]
  /\ running' = [running EXCEPT ![p] = FALSE]
  /\ UNCHANGED <<now, keys, loop, old, cuts, ever>>

\* Mutant of Wake: a loop goes on although it was stopped.
Wake_Deaf(l) ==
  /\ loop[l] = "timer"
  /\ Goto(l, "store")
  /\ UNCHANGED <<now, keys, running, old, cuts, ever>>

\* The timer of a loop fires.
Wake(l) ==
  /\ loop[l] = "timer"
  /\ Goto(l, IF running[ProcessOf[l]] THEN "store" ELSE "none")
  /\ UNCHANGED <<now, keys, running, old, cuts, ever>>

\* captureSnapshot: SET under the time it is by this process's clock; two
\* captures in one millisecond share a key.
Store(l) ==
  /\ loop[l] = "store"
  /\ \E k \in Timestamp :
       /\ now - Skew =< k /\ k =< now
       /\ keys' = keys \cup {k}
       /\ ever' = ever \cup {k}
  /\ Goto(l, "list")
  /\ UNCHANGED <<now, running, old, cuts>>

\* Mutants of Excess: keep one too few; delete the newest ones.
Excess_OneTooFew(S) == {k \in S : Cardinality(Newer(S, k)) >= MaxSnapshots - 1}
Excess_OldestFirst(S) == {k \in S : Cardinality({j \in S : j < k}) >= MaxSnapshots}

\* The keys after the first maxSnapshots, newest first.
Excess(S) == {k \in S : Cardinality(Newer(S, k)) >= MaxSnapshots}

\* Mutant of List: nothing is pruned.
List_KeepAll(l) ==
  /\ loop[l] = "list"
  /\ Goto(l, "timer")
  /\ UNCHANGED <<now, keys, running, old, cuts, ever>>

\* _pruneOldSnapshots: KEYS.
List(l) ==
  /\ loop[l] = "list"
  /\ old' = [old EXCEPT ![l] = Excess(keys)]
  /\ Goto(l, IF Excess(keys) = {} THEN "timer" ELSE "delete")
  /\ UNCHANGED <<now, keys, running, cuts, ever>>

\* _pruneOldSnapshots: DEL of the next key, newest first.
DeleteNext(l) ==
  /\ loop[l] = "delete"
  /\ \E k \in old[l] :
       /\ Newer(old[l], k) = {}
       /\ keys' = keys \ {k}
       /\ old' = [old EXCEPT ![l] = @ \ {k}]
  /\ Goto(l, IF Cardinality(old[l]) = 1 THEN "timer" ELSE "delete")
  /\ UNCHANGED <<now, running, cuts, ever>>

Capturing(l) == loop[l] \in {"store", "list", "delete"}

\* A command fails: the error is logged and the loop sleeps as usual.
Fail(l) ==
  /\ Capturing(l) /\ cuts < MaxCuts
  /\ cuts' = cuts + 1
  /\ old' = [old EXCEPT ![l] = {}]
  /\ Goto(l, "timer")
  /\ UNCHANGED <<now, keys, running, ever>>

\* The process exits, by shutdown or by a crash: flag, loops and lists go.
Exit(p) ==
  /\ \E l \in Loops : ProcessOf[l] = p /\ loop[l] # "none"
  /\ LET cut == {l \in Loops : ProcessOf[l] = p /\ Capturing(l)} IN
     /\ cuts + Cardinality(cut) =< MaxCuts
     /\ cuts' = cuts + Cardinality(cut)
  /\ running' = [running EXCEPT ![p] = FALSE]
  /\ loop' = [l \in Loops |-> IF ProcessOf[l] = p THEN "none" ELSE loop[l]]
  /\ old' = [l \in Loops |-> IF ProcessOf[l] = p THEN {} ELSE old[l]]
  /\ UNCHANGED <<now, keys, ever>>

\* getLatestSnapshot: the key with the largest timestamp, if there is one.
Latest(S) == {k \in S : Newer(S, k) = {}}

Step(l) == Wake(l) \/ Store(l) \/ List(l) \/ DeleteNext(l)

Next ==
  \/ Tick
  \/ \E l \in Loops : Start(l) \/ Step(l) \/ Fail(l)
  \/ \E p \in Processes : Stop(p) \/ Exit(p)

Spec == Init /\ [][Next]_vars

\* Node fires a timer that is due, and Redis answers.
FairSpec == Spec /\ \A l \in Loops : WF_vars(Step(l))

-----------------------------------------------------------------------------
(* Properties.                                                             *)

\* The state stays within its types.
TypeOK ==
  /\ now \in Timestamp
  /\ keys \subseteq Timestamp /\ ever \subseteq Timestamp /\ keys \subseteq ever
  /\ running \in [Processes -> BOOLEAN]
  /\ loop \in [Loops -> {"none", "timer", "store", "list", "delete"}]
  /\ old \in [Loops -> SUBSET Timestamp]
  /\ cuts \in 0 .. MaxCuts

\* A snapshot is pruned only when maxSnapshots newer ones have been stored,
\* however captures of several loops and processes overlap; so the one
\* getLatestSnapshot picks is the newest there ever was.
NewestKept ==
  /\ \A k \in ever \ keys : Cardinality(Newer(ever, k)) >= MaxSnapshots
  /\ Latest(ever) \subseteq Latest(keys)

\* "The snapshot set stays a bounded sliding window": each capture that is
\* between its SET and the end of its pruning, or was cut short there, adds
\* at most one snapshot to it.
WindowBounded ==
  Cardinality(keys) =<
    MaxSnapshots + cuts + Cardinality({l \in Loops : loop[l] \in {"list", "delete"}})

\* stopMetricsCollection ends every loop of the process, unless collection is
\* started again before the loop's timer fires.
StopEndsLoops ==
  \A l \in Loops : ~running[ProcessOf[l]] ~> (loop[l] = "none" \/ running[ProcessOf[l]])
=============================================================================

------------------------------ MODULE Consensus ------------------------------
(***************************************************************************)
(* One task with `consensus`: it is handed to several workers, each runs   *)
(* it and votes with its result, and who finds the votes sufficient ends   *)
(* the task.  getNextTask and recoverStaleTasks of                         *)
(* src/services/task-queue.ts, execute of src/services/task-executor.ts.   *)
(*                                                                         *)
(* Every worker runs the task one at a time.  Cancellation, the worker's   *)
(* slots and exceptions between the steps are TaskExecutor's subject; here *)
(* the record is never removed and updateTaskStatus is one step.           *)
(***************************************************************************)
EXTENDS Integers, FiniteSets, FiniteSetsExt

CONSTANTS
  Workers,
  Results,        \* what the handler may return
  Errors,         \* the messages it may fail with
  None,
  Disagree,       \* "Consensus not reached"
  Quorum,         \* consensus.workers
  Strategies,     \* consensus.strategy: which ones tasks may have
  Weight,         \* the workers' weight tags, 1 without one
  Slow,           \* whether a run may outlast recovery's staleMs
  MaxTakes,       \* bound: how often a worker takes the task
  MaxCrashes, MaxRecoveries \* bounds of a behaviour

Answers == Results \cup Errors

ASSUME StrategyAssumption == Strategies \subseteq {"all", "majority", "weighted"}
ASSUME QuorumAssumption == Quorum \in Nat /\ Quorum >= 2
ASSUME WorkersAssumption == IsFiniteSet(Workers) /\ Weight \in [Workers -> Nat \ {0}]
ASSUME AnswersAssumption ==
  /\ Results \cap Errors = {}
  /\ None \notin Answers /\ Disagree \notin Answers /\ None # Disagree
ASSUME BoundsAssumption ==
  Slow \in BOOLEAN /\ MaxTakes \in Nat /\ MaxCrashes \in Nat /\ MaxRecoveries \in Nat

VARIABLES
  strategy, status, result, \* of the record
  onQueue,         \* whether "queue:<q>" has the task
  dispatched,      \* its count in "queue:<q>:dispatch"
  votes,           \* "task:<id>:consensus"
  pc,              \* the next command of each worker's run
  answer,          \* what its handler gave
  verdict,         \* what it made of the votes
  recovery, kept,  \* recoverStaleTasks: its next command, the result it read
  takes, crashes, recoveries, \* counters for the bounds
  cast,            \* history: every vote there was
  outcomes         \* history: every verdict written to the record

store == <<strategy, status, result, onQueue, dispatched, votes>>
runs == <<pc, answer, verdict>>
recover == <<recovery, kept>>
counters == <<takes, crashes, recoveries>>
history == <<cast, outcomes>>
vars == <<store, runs, recover, counters, history>>

Goto(w, step) == pc' = [pc EXCEPT ![w] = step]

Init ==
  /\ strategy \in Strategies /\ status = "pending" /\ result = None
  /\ onQueue = TRUE /\ dispatched = 0
  /\ votes = [w \in Workers |-> None]
  /\ pc = [w \in Workers |-> "idle"]
  /\ answer = [w \in Workers |-> None]
  /\ verdict = [w \in Workers |-> None]
  /\ recovery = "off" /\ kept = None
  /\ takes = [w \in Workers |-> 0] /\ crashes = 0 /\ recoveries = 0
  /\ cast = {} /\ outcomes = {}

-----------------------------------------------------------------------------
(* Handing out the task.                                                   *)

\* getNextTask finds the task on the queue.  Once the quorum is complete a
\* further look changes nothing but the count: it is not repeated.
Scan(w) ==
  /\ pc[w] = "idle"
  /\ takes[w] < MaxTakes
  /\ onQueue /\ dispatched =< Quorum
  /\ Goto(w, "dispatch")
  /\ UNCHANGED <<store, answer, verdict, recover, counters, history>>

\* Mutant of Wanted: one worker too many.
Wanted_OneMore == dispatched =< Quorum

\* The count that HINCRBY returns is within the quorum.
Wanted == dispatched < Quorum

\* HINCRBY: the first `consensus.workers` to count get the task.
Dispatch(w) ==
  /\ pc[w] = "dispatch"
  /\ dispatched' = dispatched + 1
  /\ IF Wanted
     THEN /\ Goto(w, IF dispatched + 1 = Quorum THEN "unqueue" ELSE "check")
          /\ takes' = [takes EXCEPT ![w] = @ + 1]
     ELSE Goto(w, "idle") /\ UNCHANGED takes
  /\ UNCHANGED <<strategy, status, result, onQueue, votes, answer, verdict, recover,
                 crashes, recoveries, history>>

\* The last of them takes it off the queue.
Unqueue(w) ==
  /\ pc[w] = "unqueue"
  /\ onQueue' = FALSE
  /\ Goto(w, "check")
  /\ UNCHANGED <<strategy, status, result, dispatched, votes, answer, verdict, recover,
                 counters, history>>

-----------------------------------------------------------------------------
(* A run of the task.                                                      *)

\* execute leaves a finished task alone.
Check(w) ==
  /\ pc[w] = "check"
  /\ Goto(w, IF status \in {"completed", "failed"} THEN "idle" ELSE "start")
  /\ UNCHANGED <<store, answer, verdict, recover, counters, history>>

\* updateTaskStatus(processing).
Start(w) ==
  /\ pc[w] = "start"
  /\ status' = "processing"
  /\ Goto(w, "handler")
  /\ UNCHANGED <<strategy, result, onQueue, dispatched, votes, answer, verdict, recover,
                 counters, history>>

\* The handler returns or fails.
Answer(w) ==
  /\ pc[w] = "handler"
  /\ \E a \in Answers : answer' = [answer EXCEPT ![w] = a]
  /\ Goto(w, "vote")
  /\ UNCHANGED <<store, verdict, recover, counters, history>>

\* The vote is stored under the worker's id.
Vote(w) ==
  /\ pc[w] = "vote"
  /\ votes' = [votes EXCEPT ![w] = answer[w]]
  /\ cast' = cast \cup {<<w, answer[w]>>}
  /\ Goto(w, "count")
  /\ UNCHANGED <<strategy, status, result, onQueue, dispatched, answer, verdict, recover,
                 counters, outcomes>>

For(seen, a) == {w \in Workers : seen[w] = a}
Submitted(seen) == {w \in Workers : seen[w] # None}

WeightOf(voters) == MapThenSumSet(LAMBDA w : Weight[w], voters)

\* `count` of an answer: its votes or, with strategy weighted, their weight.
Tally(seen, a) ==
  IF strategy = "weighted" THEN WeightOf(For(seen, a)) ELSE Cardinality(For(seen, a))

\* mostFrequentResult; the order of the hash decides between equals.
MostFrequent(seen) ==
  {a \in Answers : /\ For(seen, a) # {}
                   /\ \A b \in Answers : Tally(seen, b) =< Tally(seen, a)}

\* Mutant of Majority: half the quorum is enough.
Majority_OffByOne == Quorum \div 2

\* More than half the quorum.
Majority == Quorum \div 2 + 1

\* Mutant of AllIn: the missing vote is not waited for.
AllIn_Early(seen) == Cardinality(Submitted(seen)) + 1 >= Quorum

AllIn(seen) == Cardinality(Submitted(seen)) >= Quorum

\* Whether answer a, the most frequent one, has won.
Wins(seen, a) ==
  CASE strategy = "all" -> AllIn(seen) /\ Tally(seen, a) = Quorum
    [] strategy = "majority" -> Tally(seen, a) >= Majority
    [] strategy = "weighted" -> 2 * Tally(seen, a) > WeightOf(Submitted(seen))

\* a, disagreement once all votes are in, or nothing yet.
Judge(seen, a) ==
  CASE Wins(seen, a) -> a
    [] ~Wins(seen, a) /\ AllIn(seen) -> Disagree
    [] OTHER -> None

\* Mutant of Seen: the votes were read before the own one was stored.
Seen_Others(w) == [votes EXCEPT ![w] = None]

Seen(w) == votes

\* HGETALL, and what follows from the votes.
Count(w) ==
  /\ pc[w] = "count"
  /\ \E a \in MostFrequent(Seen(w)) :
       /\ verdict' = [verdict EXCEPT ![w] = Judge(Seen(w), a)]
       /\ Goto(w, IF Judge(Seen(w), a) = None THEN "idle" ELSE "latest")
  /\ UNCHANGED <<store, answer, recover, counters, history>>

\* The verdict counts only for a task that is processing.
Latest(w) ==
  /\ pc[w] = "latest"
  /\ Goto(w, IF status = "processing" THEN "decide" ELSE "idle")
  /\ UNCHANGED <<store, answer, verdict, recover, counters, history>>

\* updateTaskStatus(completed or failed), with hooks and callback.
Decide(w) ==
  /\ pc[w] = "decide"
  /\ IF verdict[w] \in Results
     THEN status' = "completed" /\ result' = verdict[w]
     ELSE status' = "failed" /\ UNCHANGED result
  /\ outcomes' = outcomes \cup {verdict[w]}
  /\ Goto(w, "idle")
  /\ UNCHANGED <<strategy, onQueue, dispatched, votes, answer, verdict, recover,
                 counters, cast>>

-----------------------------------------------------------------------------
(* Crashes and recovery.                                                   *)

\* A worker dies in mid-run.
Crash(w) ==
  /\ pc[w] # "idle" /\ crashes < MaxCrashes
  /\ crashes' = crashes + 1
  /\ Goto(w, "idle")
  /\ UNCHANGED <<store, answer, verdict, recover, takes, recoveries, history>>

\* recoverStaleTasks reads a task that has been processing for too long,
RecoverRead ==
  /\ recovery = "off" /\ recoveries < MaxRecoveries
  /\ status = "processing"
  /\ Slow \/ \A w \in Workers : pc[w] \in {"idle", "dispatch", "unqueue", "check", "start"}
  /\ recovery' = "write" /\ kept' = result
  /\ recoveries' = recoveries + 1
  /\ UNCHANGED <<store, runs, takes, crashes, history>>

\* writes the record back as queued,
RecoverWrite ==
  /\ recovery = "write"
  /\ status' = "queued" /\ result' = kept
  /\ recovery' = "queue"
  /\ UNCHANGED <<strategy, onQueue, dispatched, votes, runs, kept, counters, history>>

\* puts it on the queue
RecoverQueue ==
  /\ recovery = "queue"
  /\ onQueue' = TRUE
  /\ recovery' = "clear"
  /\ UNCHANGED <<strategy, status, result, dispatched, votes, runs, kept, counters, history>>

\* and clears its dispatch count, but not its votes.
RecoverClear ==
  /\ recovery = "clear"
  /\ dispatched' = 0
  /\ recovery' = "off"
  /\ UNCHANGED <<strategy, status, result, onQueue, votes, runs, kept, counters, history>>

Recover == RecoverRead \/ RecoverWrite \/ RecoverQueue \/ RecoverClear

Step(w) ==
  \/ Scan(w) \/ Dispatch(w) \/ Unqueue(w) \/ Check(w) \/ Start(w)
  \/ Answer(w) \/ Vote(w) \/ Count(w) \/ Latest(w) \/ Decide(w)

Next == Recover \/ \E w \in Workers : Step(w) \/ Crash(w)

Spec == Init /\ [][Next]_vars

\* Workers poll and go on, handlers end, and recovery is repeated.
FairSpec == Spec /\ WF_vars(Recover) /\ \A w \in Workers : WF_vars(Step(w))

-----------------------------------------------------------------------------
\* The state keeps its types; who votes has an answer.
TypeOK ==
  /\ strategy \in Strategies
  /\ status \in {"pending", "queued", "processing", "completed", "failed"}
  /\ result \in Results \cup {None} /\ kept \in Results \cup {None}
  /\ onQueue \in BOOLEAN /\ dispatched \in Nat
  /\ votes \in [Workers -> Answers \cup {None}]
  /\ pc \in [Workers -> {"idle", "dispatch", "unqueue", "check", "start", "handler",
                         "vote", "count", "latest", "decide"}]
  /\ \A w \in Workers : pc[w] = "vote" => answer[w] \in Answers
  /\ answer \in [Workers -> Answers \cup {None}]
  /\ verdict \in [Workers -> Answers \cup {Disagree, None}]
  /\ recovery \in {"off", "write", "queue", "clear"}
  /\ takes \in [Workers -> Nat] /\ crashes \in Nat /\ recoveries \in Nat
  /\ cast \subseteq Workers \X Answers
  /\ outcomes \subseteq Answers \cup {Disagree, None}

Backers(a) == {w \in Workers : <<w, a>> \in cast}

\* How many workers have to give a result (with weights that are all equal).
Needed == IF strategy = "all" THEN Quorum ELSE Quorum \div 2 + 1

\* "Mark success only if quorum agrees": a task completes only with a result
\* that enough different workers gave, also when workers died and votes of an
\* earlier round are still there.
QuorumAgrees == status = "completed" => Cardinality(Backers(result)) >= Needed

\* Workers that decide at the same time write the same outcome: the task, its
\* hooks and its callback never tell two results, as long as recovery hands
\* the task out only once and no worker takes it again.
OneOutcome ==
  recoveries = 0 /\ (\A w \in Workers : takes[w] =< 1) => Cardinality(outcomes) =< 1

\* "Up to the quorum": no more than consensus.workers run the task, until
\* recovery forgets how many it was handed to.
NotOverDispatched ==
  recoveries = 0 =>
    Cardinality({w \in Workers : pc[w] \notin {"idle", "dispatch"}}) =< Quorum

\* "Consensus not reached: results did not match for all workers" is only said
\* when two workers did give different answers, or failed (in a round that no
\* recovery opened to more voters than the quorum).
FailsOnlyOnDisagreement ==
  recoveries = 0 /\ status = "failed" =>
    \/ \E v, u \in cast : v[2] # u[2]
    \/ \E v \in cast : v[2] \in Errors

\* Every consensus task is decided in the end.
TaskDecided == <>(status \in {"completed", "failed"})
=============================================================================

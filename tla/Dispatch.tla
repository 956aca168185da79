------------------------------ MODULE Dispatch ------------------------------
(***************************************************************************)
(* Handing out work: getNextTask and getNextBatch of                       *)
(* src/services/task-queue.ts, command by command.                         *)
(*                                                                         *)
(* "queue:<q>" is a sorted set read by rank, highest score first, a page   *)
(* of CHUNK_SIZE entries at a time.  A score is the priority's band plus a *)
(* random fraction drawn anew by every ZADD, so an entry's place inside    *)
(* its band is a free choice.  The poller walks the page: it reads each    *)
(* record, the records it depends on, and takes the entry with a ZREM, or  *)
(* counts itself on it when the task is a consensus one.  Everybody else   *)
(* changes the queue meanwhile; their operations, which TaskQueue takes    *)
(* apart, are single steps here.                                           *)
(***************************************************************************)
EXTENDS Integers, FiniteSets, Sequences

CONSTANTS
  Tasks,       \* task ids
  Pollers,     \* callers of getNextTask and getNextBatch
  None,        \* no call, no task
  DependsOn,   \* dependencies of each task
  Delayed,     \* the tasks with a scheduledFor still ahead
  Voters,      \* consensus.workers of each task, 0 for an ordinary one
  Scores,      \* the scores each task may draw, those of its band
  CHUNK_SIZE,  \* entries per page (50 in the code)
  BatchSizes,  \* batchSize of the calls of getNextBatch
  MaxPolls,    \* bound: calls made
  MaxPuts,     \* bound: tasks put on the queue, new or again
  MaxCuts      \* bound: calls that fail half-way

ASSUME DispatchAssumption ==
  /\ IsFiniteSet(Tasks)
  /\ CHUNK_SIZE \in Nat \ {0} /\ BatchSizes \subseteq Nat \ {0}
  /\ DependsOn \in [Tasks -> SUBSET Tasks]
  /\ Voters \in [Tasks -> Nat]
  /\ Scores \in [Tasks -> SUBSET (Nat \ {0})]
  /\ MaxPolls \in Nat /\ MaxPuts \in Nat /\ MaxCuts \in Nat

\* A call in progress: how many tasks it may still take, the next command,
\* the offset of the page, what is left of it, and whether it was a full one.
Step == {"fetch", "read", "resolve", "acquire", "unqueue", "answer"}
Call == [single: BOOLEAN, left: Nat, step: Step, offset: Nat, page: Seq(Tasks), full: BOOLEAN]

ASSUME NoneAssumption == None \notin Call \cup Pollers

VARIABLES
  score,       \* score of each entry of the queue, 0 for no entry
  status,      \* what the record of each task says; "gone" once deleted
  due,         \* the tasks whose scheduledFor has passed
  dispatched,  \* "queue:<q>:dispatch": how often each was picked
  call,        \* the call of each poller
  used,        \* the bounds: calls made, tasks put, calls cut
  spare,       \* history: how often each was put on the queue, less how
               \* often it was handed out
  started,     \* history: the tasks handed out at least once
  finished,    \* history: the tasks that completed at least once
  sure         \* history: what was runnable when a poller began and it has
               \* not taken, as long as nobody else changes anything

queue   == <<score, status, dispatched>>
history == <<spare, started, finished>>
vars    == <<queue, due, call, used, history, sure>>

Init ==
  /\ score = [t \in Tasks |-> 0]
  /\ status = [t \in Tasks |-> "none"]
  /\ due = Tasks \ Delayed
  /\ dispatched = [t \in Tasks |-> 0]
  /\ call = [p \in Pollers |-> None]
  /\ used = [polls |-> 0, puts |-> 0, cuts |-> 0]
  /\ spare = [t \in Tasks |-> 0]
  /\ started = {} /\ finished = {}
  /\ sure = [p \in Pollers |-> {}]

Queued    == {t \in Tasks : score[t] # 0}
Stored(t) == status[t] \notin {"none", "gone"}

\* What a poller that looks now may hand out.
Runnable(t) ==
  /\ t \in Queued /\ Stored(t) /\ t \in due
  /\ \A d \in DependsOn[t] : status[d] = "completed"
  /\ Voters[t] = 0 \/ dispatched[t] < Voters[t]

At(p, step) == call[p] # None /\ call[p].step = step
Goto(p, step) == call' = [call EXCEPT ![p] = [call[p] EXCEPT !.step = step]]
Return(p) == /\ call' = [call EXCEPT ![p] = None]
             /\ sure' = [sure EXCEPT ![p] = {}]
Candidate(p) == Head(call[p].page)

---------------------------------------------------------------------------
(* The pollers.                                                            *)

\* Nobody but `p` can be sure of what it saw any more.
Disturb(p) == sure' = [q \in Pollers |-> IF q = p THEN sure[q] ELSE {}]

\* getNextTask is a batch of one.
Begin(p) ==
  /\ call[p] = None /\ used.polls < MaxPolls
  /\ \E size \in BatchSizes \cup {0} :
       call' = [call EXCEPT ![p] =
         [single |-> size = 0, left |-> IF size = 0 THEN 1 ELSE size,
          step |-> "fetch", offset |-> 0, page |-> <<>>, full |-> TRUE]]
  /\ used' = [used EXCEPT !.polls = used.polls + 1]
  /\ sure' = [sure EXCEPT ![p] = {t \in Tasks : Runnable(t)}]
  /\ UNCHANGED <<queue, due, history>>

\* ZRANGE queue offset offset+CHUNK_SIZE-1 REV: the entries of those ranks,
\* in order.  The mutant of InPage forgets that ranks start from zero.
Rank(t) == Cardinality({u \in Queued : score[u] > score[t]})

InPage_OffByOne(offset) == {t \in Queued : Rank(t) \in offset + 1 .. offset + CHUNK_SIZE}

InPage(offset) == {t \in Queued : Rank(t) \in offset .. offset + CHUNK_SIZE - 1}

Pages(offset) ==
  {s \in [1 .. Cardinality(InPage(offset)) -> InPage(offset)] :
     \A i, j \in DOMAIN s : i < j => score[s[i]] > score[s[j]]}

Done(k) == [k EXCEPT !.step = "answer", !.page = <<>>, !.offset = 0, !.full = TRUE]

Fetch(p) ==
  /\ At(p, "fetch")
  /\ \E page \in Pages(call[p].offset) :
       call' = [call EXCEPT ![p] =
         IF Len(page) = 0 THEN Done(call[p])
         ELSE [call[p] EXCEPT !.step = "read", !.page = page,
                              !.full = Len(page) = CHUNK_SIZE]]
  /\ UNCHANGED <<queue, due, used, history, sure>>

\* Past the candidate: the next entry, the next page, or the answer.
Advance(k) ==
  LET rest == Tail(k.page) IN
  IF k.left = 0 \/ (Len(rest) = 0 /\ ~k.full) THEN Done(k)
  ELSE IF Len(rest) > 0 THEN [k EXCEPT !.step = "read", !.page = rest]
  ELSE [k EXCEPT !.step = "fetch", !.page = rest, !.offset = k.offset + CHUNK_SIZE]

Skip(p) == call' = [call EXCEPT ![p] = Advance(call[p])]

\* GET of the candidate; one without dependencies needs no further read.
Read(p) ==
  /\ At(p, "read")
  /\ LET t == Candidate(p) IN
     IF ~Stored(t) THEN Skip(p)
     ELSE IF DependsOn[t] # {} THEN Goto(p, "resolve")
     ELSE IF t \in due THEN Goto(p, "acquire") ELSE Skip(p)
  /\ UNCHANGED <<queue, due, used, history, sure>>

\* Mutant of Resolves: a dependency that no longer exists does not count.
Resolves_MissingIsResolved(t) ==
  \A d \in DependsOn[t] : Stored(d) => status[d] = "completed"

\* _checkDependencies: one MGET; a deleted dependency is unresolved.
Resolves(t) == \A d \in DependsOn[t] : status[d] = "completed"

Resolve(p) ==
  /\ At(p, "resolve")
  /\ IF Resolves(Candidate(p)) /\ Candidate(p) \in due
     THEN Goto(p, "acquire")
     ELSE Skip(p)
  /\ UNCHANGED <<queue, due, used, history, sure>>

Hand(p, t) ==
  /\ spare' = [spare EXCEPT ![t] = spare[t] - 1]
  /\ started' = started \cup {t}
  /\ sure' = [q \in Pollers |-> IF q = p THEN sure[q] \ {t} ELSE {}]
  /\ call' = [call EXCEPT ![p] = Advance([call[p] EXCEPT !.left = call[p].left - 1])]

\* Mutant of Acquire: the answer of ZREM is not looked at.
Acquire_Unchecked(p) ==
  /\ At(p, "acquire") /\ Voters[Candidate(p)] = 0
  /\ score' = [score EXCEPT ![Candidate(p)] = 0]
  /\ Hand(p, Candidate(p))
  /\ UNCHANGED <<status, dispatched, due, used, finished>>

\* ZREM: whoever removes the entry has the task.
Acquire(p) ==
  /\ At(p, "acquire") /\ Voters[Candidate(p)] = 0
  /\ LET t == Candidate(p) IN
     IF t \in Queued
     THEN /\ score' = [score EXCEPT ![t] = 0]
          /\ Hand(p, t)
     ELSE Skip(p) /\ UNCHANGED <<score, spare, started, sure>>
  /\ UNCHANGED <<status, dispatched, due, used, finished>>

\* HINCRBY of the dispatch count: the first `workers` pickers have the task,
\* whether or not it is still queued, and the last of them removes it.
Pick(p) ==
  /\ At(p, "acquire") /\ Voters[Candidate(p)] > 0
  /\ LET t == Candidate(p)
         count == dispatched[t] + 1 IN
     /\ dispatched' = [dispatched EXCEPT ![t] = count]
     /\ IF count < Voters[t] THEN Hand(p, t)
        ELSE /\ Disturb(p) /\ UNCHANGED <<spare, started>>
             /\ IF count = Voters[t] THEN Goto(p, "unqueue") ELSE Skip(p)
  /\ UNCHANGED <<score, status, due, used, finished>>

Unqueue(p) ==
  /\ At(p, "unqueue")
  /\ score' = [score EXCEPT ![Candidate(p)] = 0]
  /\ Hand(p, Candidate(p))
  /\ UNCHANGED <<status, dispatched, due, used, finished>>

Answer(p) ==
  /\ At(p, "answer")
  /\ Return(p)
  /\ UNCHANGED <<queue, due, used, history>>

\* A command fails or the process dies: what was removed stays removed.
Cut(p) ==
  /\ call[p] # None /\ used.cuts < MaxCuts
  /\ used' = [used EXCEPT !.cuts = used.cuts + 1]
  /\ Return(p)
  /\ UNCHANGED <<queue, due, history>>

---------------------------------------------------------------------------
(* Everybody else.                                                         *)

\* ZADD, with a score no other entry has drawn, and a fresh dispatch count.
Put(t) ==
  /\ used.puts < MaxPuts
  /\ \E s \in Scores[t] :
       /\ \A u \in Tasks \ {t} : score[u] # s
       /\ score' = [score EXCEPT ![t] = s]
  /\ status' = [status EXCEPT ![t] = "queued"]
  /\ dispatched' = [dispatched EXCEPT ![t] = 0]
  /\ spare' = [spare EXCEPT ![t] = spare[t] + 1]
  /\ used' = [used EXCEPT !.puts = used.puts + 1]
  /\ Disturb(None)
  /\ UNCHANGED <<due, call, started, finished>>

\* createTask: an id is fresh, so what a task depends on is older than it.
Create(t) ==
  /\ status[t] = "none" /\ \A d \in DependsOn[t] : status[d] # "none"
  /\ Put(t)

\* retryTask, requeueTask and recoverStaleTasks: they ask nothing of the
\* task but that its record exists.
Requeue(t) == Stored(t) /\ Put(t)

\* An executor that was handed the task completes it.
Complete(t) ==
  /\ Stored(t) /\ t \in started
  /\ status' = [status EXCEPT ![t] = "completed"]
  /\ finished' = finished \cup {t}
  /\ UNCHANGED <<score, due, dispatched, call, used, spare, started, sure>>

\* cancelTask, and expireStaleTasks, of a task not yet finished.
Cancel(t) ==
  /\ status[t] = "queued"
  /\ status' = [status EXCEPT ![t] = "cancelled"]
  /\ score' = [score EXCEPT ![t] = 0]
  /\ dispatched' = [dispatched EXCEPT ![t] = 0]
  /\ Disturb(None)
  /\ UNCHANGED <<due, call, used, history>>

\* cleanupOldTasks deletes the record and leaves the queue alone.
Cleanup(t) ==
  /\ status[t] \in {"completed", "cancelled"}
  /\ status' = [status EXCEPT ![t] = "gone"]
  /\ dispatched' = [dispatched EXCEPT ![t] = 0]
  /\ Disturb(None)
  /\ UNCHANGED <<score, due, call, used, history>>

ComesDue(t) ==
  /\ t \notin due
  /\ due' = due \cup {t}
  /\ UNCHANGED <<queue, call, used, history, sure>>

Poll(p) == \/ Begin(p) \/ Fetch(p) \/ Read(p) \/ Resolve(p) \/ Acquire(p)
           \/ Pick(p) \/ Unqueue(p) \/ Answer(p) \/ Cut(p)

Change(t) == \/ Create(t) \/ Requeue(t) \/ Complete(t) \/ Cancel(t)
             \/ Cleanup(t) \/ ComesDue(t)

Next == (\E p \in Pollers : Poll(p)) \/ (\E t \in Tasks : Change(t))

Spec == Init /\ [][Next]_vars

---------------------------------------------------------------------------
(* What is expected of it.                                                 *)

InOrder(k) ==
  /\ k.step # "answer" => k.left > 0 /\ (k.step # "fetch" => Len(k.page) > 0)
  /\ k.step = "unqueue" => Voters[Head(k.page)] > 0

\* Every variable holds what it should, a call always has a candidate when
\* it is about to read or take one, and only completed records say so.
TypeOK ==
  /\ score \in [Tasks -> Nat]
  /\ status \in [Tasks -> {"none", "queued", "completed", "cancelled", "gone"}]
  /\ call \in [Pollers -> Call \cup {None}]
  /\ \A p \in Pollers : call[p] # None => InOrder(call[p])
  /\ spare \in [Tasks -> Int]
  /\ \A t \in Tasks : status[t] = "completed" => t \in finished

\* A poller about to take a task has seen it due and all of its dependencies
\* completed, however the queue and the other tasks change under it.
OnlyRunnable ==
  \A p \in Pollers : At(p, "acquire") =>
    DependsOn[Candidate(p)] \subseteq finished /\ Candidate(p) \in due

\* An ordinary task is handed out at most once for each time it is put on the
\* queue, whatever pollers race for it: an entry is a put not yet spent.
HandedOnce ==
  \A t \in Tasks : Voters[t] = 0 => spare[t] >= IF t \in Queued THEN 1 ELSE 0

\* getNextTask, when nobody else changes anything during the call, takes the
\* first task that was runnable when it began, and answers null only when
\* there was none: it pages through the whole queue to find it.
NothingOverlooked ==
  \A p \in Pollers : call[p] # None /\ call[p].single =>
    /\ At(p, "acquire") => \A t \in sure[p] : score[t] =< score[Candidate(p)]
    /\ At(p, "answer") => sure[p] = {} \/ call[p].left = 0

\* The priority of `t` is above that of `u`: so are the scores it may draw.
Outranks(t, u) == \A i \in Scores[t] : \A j \in Scores[u] : i > j

\* "Fetch up to `batchSize` runnable tasks from a queue in priority order"
\* (task-queue.ts:497): getNextBatch, when nobody else changes anything,
\* takes no task while a runnable one of higher priority is left behind.
BatchInPriorityOrder ==
  \A p \in Pollers : At(p, "acquire") =>
    \A t \in sure[p] : ~Outranks(t, Candidate(p))
=============================================================================

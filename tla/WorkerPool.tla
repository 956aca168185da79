----------------------------- MODULE WorkerPool -----------------------------
(***************************************************************************)
(* The worker records of src/services/worker-pool.ts under the jobs of     *)
(* src/services/task-executor.ts.                                          *)
(*                                                                         *)
(* Every operation reads "worker:<id>", changes a field and writes the     *)
(* whole record back, some awaits later; assignTask and completeTask also  *)
(* keep "worker:<id>:tasks", the list a disconnect requeues from.  A call  *)
(* in progress is a record with the `step` it is at and the `copy` of the  *)
(* worker that it read.  A job is assignTask followed by execute.          *)
(*                                                                         *)
(* Registration is over when the model begins.  A worker's name, handlers, *)
(* status and totals change nothing of what follows; costs are whole       *)
(* numbers.  The task's record and its queue are single steps here and     *)
(* TaskQueue's elsewhere; retries that run out, cancellation, expiry and   *)
(* costs that HINCRBY refuses are TaskExecutor's.                          *)
(***************************************************************************)
EXTENDS Integers, FiniteSets, FiniteSetsExt

CONSTANTS
  Workers,   \* worker ids, fresh uuids: none is registered twice
  Tasks,     \* task ids
  Calls,     \* slots for calls in progress
  None,      \* no record, no call, no task
  Timeout,   \* timeoutSeconds of checkStaleWorkers
  MaxTime,   \* bound: how far time goes
  MaxCalls,  \* bound: calls made
  MaxCuts    \* bound: calls that fail or die half-way

ASSUME WorkerPoolAssumption ==
  /\ Timeout \in Nat /\ MaxTime \in Nat /\ MaxCalls \in Nat /\ MaxCuts \in Nat
  /\ IsFiniteSet(Calls)

VARIABLES
  now,       \* the time
  worker,    \* each record: [load: currentTasks, beat: lastHeartbeat] or None
  index,     \* workers:index
  list,      \* worker:<id>:tasks, how often each task is on it
  status,    \* status of each task
  queue,     \* the tasks on the queue
  call,      \* the calls in progress
  used,      \* the bounds: calls made, calls cut
  blurred,   \* history: workers that lost a write, a call half-way through
             \* changing both record and list, or a job to a disconnect
  assigned,  \* history: tasks whose latest taker reached the list
  muddled    \* history: tasks a disconnect or an unregister overtook

\* What is kept under "worker:<id>", as far as the properties look.
Record == [load: Nat, beat: 0 .. MaxTime]

\* What a call is at: the steps of a job, and those of the other calls.
JobSteps  == {"assign", "load", "push", "start", "busy", "setBusy", "work", "done",
              "doneAgain", "unload", "remove", "look", "settle", "setSettled"}
KeepSteps == {"beat", "setBeat", "leave", "delete", "unindex", "check", "list",
              "requeue", "down", "setDown"}

CallRecord == [step: JobSteps \cup KeepSteps, worker: Workers, task: Tasks \cup {None},
               copy: Record \cup {None}, seen: SUBSET Tasks]

ASSUME NoneAssumption == None \notin Record \cup CallRecord \cup Tasks

pool    == <<worker, index, list>>
tasks   == <<status, queue>>
history == <<blurred, assigned, muddled>>
vars    == <<now, pool, tasks, call, used, history>>

Init ==
  /\ now = 0
  /\ worker = [w \in Workers |-> [load |-> 0, beat |-> 0]]
  /\ index = Workers
  /\ list = [w \in Workers |-> [t \in Tasks |-> 0]]
  /\ status = [t \in Tasks |-> "queued"] /\ queue = Tasks
  /\ call = [c \in Calls |-> None]
  /\ used = [calls |-> 0, cuts |-> 0]
  /\ blurred = {} /\ assigned = {} /\ muddled = {}

Tick == /\ now < MaxTime
        /\ now' = now + 1
        /\ UNCHANGED <<pool, tasks, call, used, history>>

\* The calls for worker w that are at one of the steps S, and those that have
\* task t in hand.
For(w, S) == {c \in Calls : call[c] # None /\ call[c].worker = w /\ call[c].step \in S}
With(t)   == {c \in Calls : call[c] # None /\ call[c].task = t}
Listed(w) == {t \in Tasks : list[w][t] > 0}

At(c, step) == call[c] # None /\ call[c].step = step
Goto(c, step) == call' = [call EXCEPT ![c].step = step]
End(c) == call' = [call EXCEPT ![c] = None]

\* GET of the worker's record; the call ends when there is none.
Get(c, step) ==
  LET copy == worker[call[c].worker] IN
  IF copy = None THEN End(c)
  ELSE call' = [call EXCEPT ![c].step = step, ![c].copy = copy]

\* SET of the record; a write in between is lost.
Set(c, new) ==
  LET w == call[c].worker IN
  /\ worker' = [worker EXCEPT ![w] = new]
  /\ blurred' = IF worker[w] = call[c].copy THEN blurred ELSE blurred \cup {w}

Begin(c, step, w, t) ==
  /\ call[c] = None /\ used.calls < MaxCalls
  /\ used' = [used EXCEPT !.calls = used.calls + 1]
  /\ call' = [call EXCEPT ![c] =
       [step |-> step, worker |-> w, task |-> t, copy |-> None, seen |-> {}]]

---------------------------------------------------------------------------
(* A job: getNextTask, assignTask, execute.                                *)

Take(c, w, t) ==
  /\ t \in queue
  /\ Begin(c, "assign", w, t)
  /\ queue' = queue \ {t} /\ assigned' = assigned \ {t}
  /\ UNCHANGED <<now, pool, status, blurred, muddled>>

\* assignTask throws for an unknown worker, and when the rate limit is spent.
AssignRead(c) ==
  /\ At(c, "assign")
  /\ Get(c, "load") \/ End(c)
  /\ UNCHANGED <<now, pool, tasks, used, history>>

AssignWrite(c) ==
  /\ At(c, "load")
  /\ Set(c, [call[c].copy EXCEPT !.load = call[c].copy.load + 1])
  /\ Goto(c, "push")
  /\ UNCHANGED <<now, index, list, tasks, used, assigned, muddled>>

\* LPUSH; a disconnect that has already read the list will not see it, and
\* nobody looks at the list of a worker that was unregistered.
AssignPush(c) ==
  /\ At(c, "push")
  /\ LET w == call[c].worker
         t == call[c].task IN
     /\ list' = [list EXCEPT ![w][t] = list[w][t] + 1]
     /\ assigned' = assigned \cup {t}
     /\ muddled' = IF w \in index /\ For(w, {"requeue"}) = {}
                   THEN muddled ELSE muddled \cup {t}
  /\ Goto(c, "start")
  /\ UNCHANGED <<now, worker, index, tasks, used, blurred>>

\* retryTask puts the task back on its queue, whatever its status.
Retry(t) == status' = [status EXCEPT ![t] = "queued"] /\ queue' = queue \cup {t}

\* A task that is already finished is not run, only released.
Start(c) ==
  /\ At(c, "start")
  /\ LET t == call[c].task IN
     IF status[t] = "completed"
     THEN Goto(c, "done") /\ UNCHANGED status
     ELSE Goto(c, "busy") /\ status' = [status EXCEPT ![t] = "processing"]
  /\ UNCHANGED <<now, pool, queue, used, history>>

\* updateWorkerStatus(busy), which throws for an unknown worker: the catch
\* retries the task.
BusyRead(c) ==
  /\ At(c, "busy")
  /\ IF worker[call[c].worker] = None
     THEN Goto(c, "doneAgain") /\ Retry(call[c].task)
     ELSE Get(c, "setBusy") /\ UNCHANGED tasks
  /\ UNCHANGED <<now, pool, used, history>>

BusyWrite(c) ==
  /\ At(c, "setBusy")
  /\ Set(c, [call[c].copy EXCEPT !.beat = now])
  /\ Goto(c, "work")
  /\ UNCHANGED <<now, index, list, tasks, used, assigned, muddled>>

\* The handler returns or fails; only a task still processing is settled.
Work(c) ==
  /\ At(c, "work")
  /\ LET t == call[c].task IN
     IF status[t] = "processing"
     THEN Retry(t) \/ (status' = [status EXCEPT ![t] = "completed"] /\ UNCHANGED queue)
     ELSE UNCHANGED tasks
  /\ Goto(c, "done")
  /\ UNCHANGED <<now, pool, used, history>>

\* completeTask throws for an unknown worker: the catch retries the task,
\* completed or not, and calls it again.
DoneRead(c) ==
  /\ At(c, "done") \/ At(c, "doneAgain")
  /\ LET gone == worker[call[c].worker] = None IN
     \/ gone /\ At(c, "done") /\ Goto(c, "doneAgain") /\ Retry(call[c].task)
     \/ gone /\ At(c, "doneAgain") /\ Goto(c, "look") /\ UNCHANGED tasks
     \/ ~gone /\ Get(c, "unload") /\ UNCHANGED tasks
  /\ UNCHANGED <<now, pool, used, history>>

\* Mutant of Less: the count is not kept from going below zero.
Less_Unclamped(n) == n - 1

\* completeTask: Math.max(0, currentTasks - 1).
Less(n) == Max({0, n - 1})

DoneWrite(c) ==
  /\ At(c, "unload")
  /\ Set(c, [call[c].copy EXCEPT !.load = Less(@)])
  /\ Goto(c, "remove")
  /\ UNCHANGED <<now, index, list, tasks, used, assigned, muddled>>

\* Mutant of Left: LREM with a count of zero removes every occurrence.
Left_None(n) == 0

\* LREM of one occurrence.
Left(n) == IF n > 0 THEN n - 1 ELSE 0

DoneRemove(c) ==
  /\ At(c, "remove")
  /\ list' = [list EXCEPT ![call[c].worker][call[c].task] = Left(@)]
  /\ Goto(c, "look")
  /\ UNCHANGED <<now, worker, index, tasks, used, history>>

\* The finally block: a read that decides between busy and idle, and
\* updateWorkerStatus.
Look(c) ==
  /\ \/ At(c, "look") /\ Get(c, "settle")
     \/ At(c, "settle") /\ Get(c, "setSettled")
  /\ UNCHANGED <<now, pool, tasks, used, history>>

Settle(c) ==
  /\ At(c, "setSettled")
  /\ Set(c, [call[c].copy EXCEPT !.beat = now])
  /\ End(c)
  /\ UNCHANGED <<now, index, list, tasks, used, assigned, muddled>>

Job(c) ==
  \/ AssignRead(c) \/ AssignWrite(c) \/ AssignPush(c) \/ Start(c)
  \/ BusyRead(c) \/ BusyWrite(c) \/ Work(c)
  \/ DoneRead(c) \/ DoneWrite(c) \/ DoneRemove(c) \/ Look(c) \/ Settle(c)

---------------------------------------------------------------------------
(* Heartbeats, unregistration and the check for stale workers.             *)

Ask(c, step, w) == Begin(c, step, w, None) /\ UNCHANGED <<now, pool, tasks, history>>

BeatRead(c) ==
  /\ At(c, "beat")
  /\ Get(c, "setBeat")
  /\ UNCHANGED <<now, pool, tasks, used, history>>

BeatWrite(c) ==
  /\ At(c, "setBeat")
  /\ Set(c, [call[c].copy EXCEPT !.beat = now])
  /\ End(c)
  /\ UNCHANGED <<now, index, list, tasks, used, assigned, muddled>>

\* unregisterWorker deletes the record and then the index entry; the list of
\* its tasks stays, and nobody looks there again.
Unregister(c) ==
  /\ At(c, "leave")
  /\ Get(c, "delete")
  /\ UNCHANGED <<now, pool, tasks, used, history>>

Delete(c) ==
  /\ At(c, "delete")
  /\ worker' = [worker EXCEPT ![call[c].worker] = None]
  /\ Goto(c, "unindex")
  /\ UNCHANGED <<now, index, list, tasks, used, history>>

Unindex(c) ==
  /\ At(c, "unindex")
  /\ index' = index \ {call[c].worker}
  /\ muddled' = muddled \cup Listed(call[c].worker)
  /\ End(c)
  /\ UNCHANGED <<now, worker, list, tasks, used, blurred, assigned>>

\* checkStaleWorkers, for one worker of the index.
CheckRead(c) ==
  /\ At(c, "check")
  /\ LET w == call[c].worker IN
     IF worker[w] # None /\ now - worker[w].beat > Timeout
     THEN Goto(c, "list") ELSE End(c)
  /\ UNCHANGED <<now, pool, tasks, used, history>>

\* handleWorkerDisconnect: LRANGE,
Disconnect(c) ==
  /\ At(c, "list")
  /\ call' = [call EXCEPT ![c].step = "requeue", ![c].seen = Listed(call[c].worker)]
  /\ UNCHANGED <<now, pool, tasks, used, history>>

\* requeueTask of each task, running or not,
Requeue(c) ==
  /\ At(c, "requeue") /\ call[c].seen # {}
  /\ \E t \in call[c].seen :
       /\ Retry(t)
       /\ call' = [call EXCEPT ![c].seen = call[c].seen \ {t}]
       /\ muddled' = IF With(t) = {} THEN muddled ELSE muddled \cup {t}
  /\ UNCHANGED <<now, pool, used, blurred, assigned>>

\* Mutant of Del: the list is deleted before its tasks are requeued.
Del_First(c) ==
  /\ At(c, "requeue")
  /\ list' = [list EXCEPT ![call[c].worker] = [t \in Tasks |-> 0]]
  /\ IF call[c].seen = {} THEN Goto(c, "down") ELSE UNCHANGED call
  /\ UNCHANGED <<now, worker, index, tasks, used, history>>

InHand == {"push", "start", "busy", "setBusy", "work", "done", "doneAgain", "unload", "remove"}

\* DEL of the list,
Del(c) ==
  /\ At(c, "requeue") /\ call[c].seen = {}
  /\ LET w == call[c].worker IN
     /\ list' = [list EXCEPT ![w] = [t \in Tasks |-> 0]]
     /\ blurred' = IF For(w, InHand) = {} THEN blurred ELSE blurred \cup {w}
  /\ Goto(c, "down")
  /\ UNCHANGED <<now, worker, index, tasks, used, assigned, muddled>>

DownRead(c) ==
  /\ At(c, "down")
  /\ Get(c, "setDown")
  /\ UNCHANGED <<now, pool, tasks, used, history>>

\* and the record, offline and without load.
DownWrite(c) ==
  /\ At(c, "setDown")
  /\ LET w == call[c].worker IN
     /\ worker' = [worker EXCEPT ![w] = [call[c].copy EXCEPT !.load = 0]]
     /\ blurred' = IF worker[w] = call[c].copy /\ Listed(w) = {} /\ For(w, InHand) = {}
                   THEN blurred ELSE blurred \cup {w}
  /\ End(c)
  /\ UNCHANGED <<now, index, list, tasks, used, assigned, muddled>>

Keep(c) ==
  \/ BeatRead(c) \/ BeatWrite(c) \/ Unregister(c) \/ Delete(c) \/ Unindex(c)
  \/ CheckRead(c) \/ Disconnect(c) \/ Requeue(c) \/ Del(c) \/ DownRead(c) \/ DownWrite(c)

\* The process dies, or a command of a call that is no job fails.
Cut(c) ==
  /\ call[c] # None /\ used.cuts < MaxCuts
  /\ used' = [used EXCEPT !.cuts = used.cuts + 1]
  /\ blurred' = IF call[c].step \in {"push", "remove", "down", "setDown"}
                THEN blurred \cup {call[c].worker} ELSE blurred
  /\ End(c)
  /\ UNCHANGED <<now, pool, tasks, assigned, muddled>>

Next ==
  \/ Tick
  \/ \E c \in Calls :
       \/ \E w \in Workers : \/ \E t \in Tasks : Take(c, w, t)
                             \/ Ask(c, "beat", w) \/ Ask(c, "leave", w)
       \/ \E w \in index : Ask(c, "check", w)
       \/ Job(c) \/ Keep(c) \/ Cut(c)

Spec == Init /\ [][Next]_vars

---------------------------------------------------------------------------
\* Records, lists and calls keep their types; in particular a load is never
\* negative, although a disconnect resets it under jobs that still end.
TypeOK ==
  /\ now \in 0 .. MaxTime
  /\ worker \in [Workers -> Record \cup {None}]
  /\ index \subseteq Workers /\ queue \subseteq Tasks
  /\ list \in [Workers -> [Tasks -> Nat]]
  /\ status \in [Tasks -> {"queued", "processing", "completed"}]
  /\ call \in [Calls -> CallRecord \cup {None}]
  /\ used \in [calls: Nat, cuts: Nat]
  /\ blurred \subseteq Workers /\ assigned \subseteq Tasks /\ muddled \subseteq Tasks

\* The entries of worker:<id>:tasks: the occurrences of each task.
Entries(w) == UNION {{t} \X (1 .. list[w][t]) : t \in Tasks}

\* "`assignTask`/`completeTask` keep it current" (ADR 5): as long as no write
\* to a worker's record was lost and no call for it ended half-way, its load
\* is what is on its list, with the calls between the record and the list.
LoadIsExact ==
  \A w \in Workers \ blurred :
    worker[w] # None /\ For(w, {"down", "setDown"}) = {} =>
      worker[w].load = Cardinality(Entries(w))
                       + Cardinality(For(w, {"push"})) - Cardinality(For(w, {"remove"}))

\* A task whose worker died is where a disconnect or a poller will find it: on
\* the queue, or on the list of a worker that is still checked, whenever the
\* disconnect itself dies; also while its job is still at it.
Findable ==
  \A t \in assigned \ muddled :
    \/ status[t] = "completed"
    \/ t \in queue \/ \E w \in index : t \in Listed(w)
=============================================================================

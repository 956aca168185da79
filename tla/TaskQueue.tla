------------------------------ MODULE TaskQueue ------------------------------
(***************************************************************************)
(* The task store of TaskFlow, src/services/task-queue.ts.                 *)
(*                                                                         *)
(* Every public method of class TaskQueue is a sequence of Redis commands  *)
(* with an `await` between two of them.  Redis executes one command (or    *)
(* one MULTI/EXEC block) at a time; anything may happen between two        *)
(* commands of one call, because the API server, the executors, the        *)
(* scheduler and other instances of all three share the store.  So a call  *)
(* in progress is a record with a `step`, the next command it will issue,  *)
(* and an action of this module is one command.                            *)
(*                                                                         *)
(* One queue is modelled: tasks never move to another queue, and the       *)
(* indices "tasks:status:<s>" and "tasks:queue:<q>:status:<s>" are always  *)
(* written by the same MULTI, so one index stands for both.  Time only     *)
(* enters as a choice: an expiry, a stale `startedAt` or a cutoff may or   *)
(* may not have passed when the code looks.  The dispatch counter and the  *)
(* consensus hash, which retry, cancel, requeue and deletion also clear,   *)
(* exist only for consensus tasks and belong to another part of the model. *)
(***************************************************************************)
EXTENDS Integers, FiniteSets

CONSTANTS
  Tasks,         \* task ids (uuids handed out by createTask)
  Calls,         \* slots for calls in progress: how many may overlap
  None,          \* the absent value (a missing key, no task)
  Limits,        \* the values of maxRetries a caller may ask for
  MaxRetries,    \* the largest of them
  MaxAttempts,   \* maxAttempts of updateTaskStatus (5 in the code)
  MaxQueueSize,  \* the environment variable MAX_QUEUE_SIZE
  Ops,           \* the operations the environment issues
  Targets,       \* the statuses callers pass to updateTaskStatus
  MaxCalls,      \* bound: how many calls are made in a behaviour
  MaxInTurn,     \* bound: how many as long as each ends before the next begins
  MaxCrashes     \* bound: how many calls are cut short in a behaviour

Status == {"pending", "queued", "processing", "completed", "failed",
           "retry", "cancelled", "blocked"}

ASSUME LimitsAssumption ==
  /\ MaxRetries \in Nat
  /\ Limits \subseteq 0 .. MaxRetries
ASSUME BoundsAssumption ==
  /\ MaxAttempts \in Nat \ {0}
  /\ MaxQueueSize \in Nat
  /\ MaxCalls \in Nat /\ MaxInTurn \in Nat
  /\ MaxCalls =< MaxInTurn
  /\ MaxCrashes \in Nat
ASSUME FiniteAssumption == IsFiniteSet(Tasks) /\ IsFiniteSet(Calls)
ASSUME TargetsAssumption == Targets \subseteq Status

\* What the code stores under "task:<id>", as far as the properties look.
Record == [status: Status, retries: Nat, limit: Nat]

ASSUME NoneAssumption == None \notin Record /\ None \notin Tasks /\ None \notin Status

Buckets    == {"pending", "processing", "completed", "failed"} \* STATS_BUCKETS
Finished   == {"completed", "failed", "cancelled"}
NotStarted == {"pending", "queued", "blocked", "retry"}
Modifiable == {"pending", "queued", "blocked"}

VARIABLES
  task,         \* "task:<id>": a record, or None when the key is absent
  queue,        \* "queue:<q>": ids waiting to be dispatched
  taskIndex,    \* "tasks:index"
  statusIndex,  \* "tasks:status:<s>", for each status
  stats,        \* "queue:<q>:stats": one counter per bucket
  dlq,          \* "dlq:tasks": how many entries each task has
  call,         \* the calls in progress
  dirty,        \* calls whose WATCHed key was written since the WATCH
  known,        \* ids a caller can have learnt (published by createTask)
  begun,        \* calls made so far
  disturbed,    \* history: calls have overlapped, or one was cut short
  crashes,      \* calls cut short so far
  stored,       \* history: ids whose record createTask has written
  cleaned,      \* history: ids whose record cleanupOldTasks has deleted
  expired,      \* history: ids whose record expireStaleTasks has cancelled
  enqueues,     \* history: ZADDs of each id to the queue
  claims        \* history: times getNextTask has handed out each id

store == <<task, queue, taskIndex, statusIndex, stats, dlq>>
history == <<stored, cleaned, expired, enqueues, claims>>
opened == <<begun, disturbed>>
vars == <<store, call, dirty, known, opened, crashes, history>>

-----------------------------------------------------------------------------
(* Calls in progress.                                                      *)

OpNames == {"create", "retry", "cancel", "requeue", "fields", "update",
            "claim", "recover", "expire", "cleanup"}
Steps == {"store", "index", "set", "reindex", "enqueue", "dequeue", "count",
          "watch", "fetch", "exec", "countFrom", "countTo", "take",
          "refetch", "push", "delete", "unindex", "forget"}

\* A call: the tasks it has still to visit, the one it is working on, the
\* record it holds (as read and then edited), the status that record had
\* when read, and for updateTaskStatus the status asked for and the attempt.
CallRecord ==
  [op: OpNames, step: Steps, todo: SUBSET Tasks, task: Tasks \cup {None},
   rec: Record \cup {None}, old: Status \cup {None},
   arg: Status \cup {"priority", "other"}, attempt: 0 .. MaxAttempts]

ASSUME CallAssumption == None \notin CallRecord

Idle(c) == call[c] = None

\* Mutant of AfterPush: the record of a dead-lettered task stays.
AfterPush_Keep == "unindex"

\* _moveToDeadLetterQueue deletes the record it has pushed.
AfterPush == "delete"

\* The command that follows the one just issued; "end" is the return (or, in
\* a loop over several tasks, the end of its body).
After(k) ==
  CASE k.step = "store" -> "index"
    [] k.step = "index" -> "reindex"
    [] k.step = "set" /\ k.op \in {"retry", "requeue", "recover"} -> "reindex"
    [] k.step = "set" /\ k.op \in {"cancel", "expire"} -> "dequeue"
    [] k.step = "set" /\ k.op = "fields" /\ k.arg = "priority" -> "enqueue"
    [] k.step = "reindex" /\ k.op # "cancel" -> "enqueue"
    [] k.step = "enqueue" /\ k.op = "create" -> "count"
    [] k.step = "dequeue" /\ k.op = "cancel" -> "reindex"
    [] k.step = "exec" /\ k.rec.status # k.old -> "countFrom"
    [] k.step = "countFrom" -> "countTo"
    [] k.step = "push" -> AfterPush
    [] k.step = "delete" -> "unindex"
    [] k.step = "unindex" /\ k.rec # None -> "forget"
    [] OTHER -> "end"

\* Leave the current task: return, or go on to the next one of a loop.
LeaveTask(k, rest) ==
  IF rest = {}
  THEN None
  ELSE [k EXCEPT !.step = "fetch", !.todo = rest, !.task = None,
                 !.rec = None, !.old = None]

Advance(c) ==
  call' = [call EXCEPT ![c] =
    LET k == call[c] IN
    IF After(k) = "end" THEN LeaveTask(k, k.todo)
                        ELSE [k EXCEPT !.step = After(k)]]

Skip(c, t) == call' = [call EXCEPT ![c] = LeaveTask(@, @.todo \ {t})]

Throw(c) == call' = [call EXCEPT ![c] = None]

\* Go to `step` with t as the current task and rec as the record in hand.
Hold(c, t, step, rec, old) ==
  LET k == call[c] IN
  call' = [call EXCEPT ![c] = [k EXCEPT !.step = step, !.todo = k.todo \ {t},
                                        !.task = t, !.rec = rec, !.old = old]]

At(c, step) == ~Idle(c) /\ call[c].step = step

\* c's GET of a task it has yet to visit.
Fetching(c, op, t) == At(c, "fetch") /\ call[c].op = op /\ t \in call[c].todo

\* Mutant of Watching: the WATCH ends with the GET, as when the connection
\* goes back to the pool in between.
Watching_UntilGet(t) ==
  {c \in Calls : ~Idle(c) /\ call[c].op = "update" /\ call[c].step = "fetch"
                 /\ t \in call[c].todo}

\* The calls that WATCH task t: between their WATCH and their EXEC.
Watching(t) ==
  {c \in Calls : /\ ~Idle(c)
                 /\ call[c].op = "update"
                 /\ \/ call[c].step = "fetch" /\ t \in call[c].todo
                    \/ call[c].step = "exec" /\ call[c].task = t}

\* SET and DEL of a task's key; both invalidate every WATCH on it.
WriteRecord(t, rec) ==
  /\ task' = [task EXCEPT ![t] = rec]
  /\ dirty' = dirty \cup Watching(t)

\* _updateTaskIndices: one MULTI that moves the id between status indices.
MoveIndex(t, new, old) ==
  statusIndex' = [s \in Status |->
    IF s = new THEN statusIndex[s] \cup {t}
    ELSE IF s = old THEN statusIndex[s] \ {t}
    ELSE statusIndex[s]]

-----------------------------------------------------------------------------
(* Beginning a call.                                                       *)

Begin(c, k) ==
  /\ Idle(c)
  /\ k.op \in Ops
  /\ disturbed' = (disturbed \/ \E d \in Calls : ~Idle(d))
  /\ begun < IF disturbed' THEN MaxCalls ELSE MaxInTurn
  /\ begun' = begun + 1
  /\ call' = [call EXCEPT ![c] = k]

NewCall(op, step, todo) ==
  [op |-> op, step |-> step, todo |-> todo, task |-> None, rec |-> None,
   old |-> None, arg |-> "other", attempt |-> 0]

\* createTask up to the SET: the queue is not full, and a fresh id is made.
BeginCreate(c, t, limit) ==
  /\ t \notin stored
  /\ \A d \in Calls : ~Idle(d) => ~(call[d].op = "create" /\ call[d].task = t)
  /\ Cardinality(queue) < MaxQueueSize
  /\ limit # 0
  /\ Begin(c, [NewCall("create", "store", {}) EXCEPT
                 !.task = t,
                 !.rec = [status |-> "pending", retries |-> 0, limit |-> limit]])
  /\ UNCHANGED <<store, dirty, known, crashes, history>>

\* cancelTask and updateTaskFields, from the API: any id a listing returned.
\* retryTask and requeueTask, from the executor and the worker pool: a task
\* that has been on the queue.
BeginOn(c, op, t) ==
  /\ t \in known
  /\ op \in {"retry", "requeue"} => enqueues[t] > 0
  /\ Begin(c, NewCall(op, "fetch", {t}))
  /\ UNCHANGED <<store, dirty, known, crashes, history>>

\* updateTaskStatus(t, status), from the executor and the scheduler: the
\* first of at most MaxAttempts attempts.
BeginUpdate(c, t, status) ==
  /\ enqueues[t] > 0
  /\ Begin(c, [NewCall("update", "watch", {t}) EXCEPT !.arg = status, !.attempt = 1])
  /\ UNCHANGED <<store, dirty, known, crashes, history>>

\* The ZRANGE that getNextTask and the loops over an index start with.
Scan(c, op, ids) ==
  /\ ids # {}
  /\ Begin(c, NewCall(op, "fetch", ids))
  /\ UNCHANGED <<store, dirty, known, crashes, history>>

BeginClaim(c) == Scan(c, "claim", queue)
BeginRecover(c) == Scan(c, "recover", statusIndex["processing"])
BeginExpire(c) == Scan(c, "expire", taskIndex)
BeginCleanup(c) == \E old \in SUBSET taskIndex : Scan(c, "cleanup", old)

-----------------------------------------------------------------------------
(* What each call does with the record it GETs.                            *)

\* A GET writes nothing: only the call itself moves on.
ReadOnly == UNCHANGED <<store, dirty, known, opened, crashes, history>>

\* retryTask counts the retry in the record.
Retried(r) == [status |-> "retry", retries |-> r.retries + 1, limit |-> r.limit]

\* Mutant of Before: previousStatus read after the assignment of the new one.
Before_Late(r) == "retry"

\* previousStatus: the status index to leave.
Before(r) == r.status

\* retryTask: one more retry, or the dead letter queue.
FetchRetry(c, t) ==
  /\ Fetching(c, "retry", t)
  /\ LET r == task[t] IN
     CASE r = None -> Throw(c)
       [] r # None /\ r.retries >= r.limit -> Hold(c, t, "refetch", r, r.status)
       [] OTHER -> Hold(c, t, "set", Retried(r), Before(r))
  /\ ReadOnly

\* cancelTask: a finished task is left alone.
FetchCancel(c, t) ==
  /\ Fetching(c, "cancel", t)
  /\ LET r == task[t] IN
     IF r = None \/ (r # None /\ r.status \in Finished)
     THEN Throw(c)
     ELSE Hold(c, t, "set", [r EXCEPT !.status = "cancelled"], r.status)
  /\ ReadOnly

FetchRequeue(c, t) ==
  /\ Fetching(c, "requeue", t)
  /\ LET r == task[t] IN
     IF r = None
     THEN Throw(c)
     ELSE Hold(c, t, "set", [r EXCEPT !.status = "queued"], r.status)
  /\ ReadOnly

\* updateTaskFields: nothing to write, a priority to change (with the queue
\* entry's score), or other fields only, maxRetries among them.
FetchFields(c, t) ==
  /\ Fetching(c, "fields", t)
  /\ LET r == task[t] IN
     \/ /\ \/ r = None
           \/ r # None /\ r.status \notin Modifiable
        /\ Throw(c)
     \/ /\ r # None /\ r.status \in Modifiable
        /\ \/ Throw(c)
           \/ \E kind \in {"priority", "other"}, limit \in Limits \cup {r.limit} :
                LET k == call[c] IN
                call' = [call EXCEPT ![c] =
                  [k EXCEPT !.step = "set", !.todo = k.todo \ {t}, !.task = t,
                            !.rec = [r EXCEPT !.limit = limit],
                            !.old = r.status, !.arg = kind]]
  /\ ReadOnly

\* updateTaskStatus between WATCH and EXEC.
FetchUpdate(c, t) ==
  /\ Fetching(c, "update", t)
  /\ LET r == task[t] IN
     IF r = None
     THEN Throw(c)
     ELSE Hold(c, t, "exec", [r EXCEPT !.status = call[c].arg], r.status)
  /\ ReadOnly

\* getNextTask looks at a candidate: gone, not runnable yet (a dependency is
\* unfinished, scheduledFor is in the future), or worth trying to take.
FetchClaim(c, t) ==
  /\ Fetching(c, "claim", t)
  /\ LET r == task[t] IN
     \/ Skip(c, t)
     \/ r # None /\ Hold(c, t, "take", r, r.status)
  /\ ReadOnly

\* recoverStaleTasks: only a task that is processing, and for too long.
FetchRecover(c, t) ==
  /\ Fetching(c, "recover", t)
  /\ LET r == task[t] IN
     \/ Skip(c, t)
     \/ /\ r # None /\ r.status = "processing"
        /\ Hold(c, t, "set", [r EXCEPT !.status = "queued"], r.status)
  /\ ReadOnly

\* expireStaleTasks: only a task that has not started, and past its expiry.
FetchExpire(c, t) ==
  /\ Fetching(c, "expire", t)
  /\ LET r == task[t] IN
     \/ Skip(c, t)
     \/ /\ r # None /\ r.status \in NotStarted
        /\ Hold(c, t, "set", [r EXCEPT !.status = "cancelled"], r.status)
  /\ ReadOnly

\* cleanupOldTasks: finished records go, orphaned index entries too.
FetchCleanup(c, t) ==
  /\ Fetching(c, "cleanup", t)
  /\ LET r == task[t] IN
     CASE r = None -> Hold(c, t, "unindex", None, None)
       [] r # None /\ r.status \in Finished -> Hold(c, t, "delete", r, r.status)
       [] OTHER -> Skip(c, t)
  /\ ReadOnly

Fetch(c, t) ==
  \/ FetchRetry(c, t)   \/ FetchCancel(c, t)  \/ FetchRequeue(c, t)
  \/ FetchFields(c, t)  \/ FetchUpdate(c, t)  \/ FetchClaim(c, t)
  \/ FetchRecover(c, t) \/ FetchExpire(c, t)  \/ FetchCleanup(c, t)

-----------------------------------------------------------------------------
(* The commands that write.                                                *)

\* createTask: SET of the new record.
Store(c) ==
  /\ At(c, "store")
  /\ WriteRecord(call[c].task, call[c].rec)
  /\ stored' = stored \cup {call[c].task}
  /\ Advance(c)
  /\ UNCHANGED <<queue, taskIndex, statusIndex, stats, dlq, known, opened,
                 crashes, cleaned, expired, enqueues, claims>>

\* createTask: ZADD to tasks:index; listings return the id from now on.
Index(c) ==
  /\ At(c, "index")
  /\ taskIndex' = taskIndex \cup {call[c].task}
  /\ known' = known \cup {call[c].task}
  /\ Advance(c)
  /\ UNCHANGED <<task, queue, statusIndex, stats, dlq, dirty, opened, crashes,
                 history>>

\* SET of the whole record as read and edited, without WATCH.
SetRecord(c) ==
  /\ At(c, "set")
  /\ WriteRecord(call[c].task, call[c].rec)
  /\ expired' = IF call[c].op = "expire" THEN expired \cup {call[c].task} ELSE expired
  /\ Advance(c)
  /\ UNCHANGED <<queue, taskIndex, statusIndex, stats, dlq, known, opened,
                 crashes, stored, cleaned, enqueues, claims>>

\* _updateTaskIndices(id, new, old).
Reindex(c) ==
  /\ At(c, "reindex")
  /\ MoveIndex(call[c].task, call[c].rec.status, call[c].old)
  /\ Advance(c)
  /\ UNCHANGED <<task, queue, taskIndex, stats, dlq, dirty, known, opened,
                 crashes, history>>

\* ZADD to the queue.
Enqueue(c) ==
  /\ At(c, "enqueue")
  /\ queue' = queue \cup {call[c].task}
  /\ enqueues' = [enqueues EXCEPT ![call[c].task] = @ + 1]
  /\ Advance(c)
  /\ UNCHANGED <<task, taskIndex, statusIndex, stats, dlq, dirty, known, opened,
                 crashes, stored, cleaned, expired, claims>>

\* ZREM from the queue by cancelTask and expireStaleTasks.
Dequeue(c) ==
  /\ At(c, "dequeue")
  /\ queue' = queue \ {call[c].task}
  /\ Advance(c)
  /\ UNCHANGED <<task, taskIndex, statusIndex, stats, dlq, dirty, known, opened,
                 crashes, history>>

\* createTask: _updateQueueStats(queue, 1).
Count(c) ==
  /\ At(c, "count")
  /\ stats' = [stats EXCEPT !["pending"] = @ + 1]
  /\ Advance(c)
  /\ UNCHANGED <<task, queue, taskIndex, statusIndex, dlq, dirty, known, opened,
                 crashes, history>>

\* Mutants of Removed: the reply of ZREM is ignored; it is read the wrong way.
Removed_Ignored(t) == TRUE
Removed_WrongWay(t) == t \notin queue

\* The reply of ZREM: the caller's command removed the entry.
Removed(t) == t \in queue

\* getNextTask: ZREM; the caller that removed the entry owns the task, any
\* other one goes on with the next candidate.
Take(c) ==
  /\ At(c, "take")
  /\ LET t == call[c].task IN
     /\ queue' = queue \ {t}
     /\ IF Removed(t) THEN claims' = [claims EXCEPT ![t] = @ + 1] /\ Throw(c)
                      ELSE Advance(c) /\ UNCHANGED claims
  /\ UNCHANGED <<task, taskIndex, statusIndex, stats, dlq, dirty, known, opened,
                 crashes, stored, cleaned, expired, enqueues>>

-----------------------------------------------------------------------------
(* updateTaskStatus: the optimistic transaction.                           *)

Watch(c) ==
  /\ At(c, "watch")
  /\ dirty' = dirty \ {c}
  /\ call' = [call EXCEPT ![c].step = "fetch"]
  /\ UNCHANGED <<store, known, opened, crashes, history>>

\* MULTI/EXEC of the SET and the index moves, when the key was not written.
Exec(c) ==
  /\ At(c, "exec") /\ c \notin dirty
  /\ LET k == call[c] IN
     /\ task' = [task EXCEPT ![k.task] = k.rec]
     /\ dirty' = (dirty \cup Watching(k.task)) \ {c}
     /\ IF k.rec.status # k.old
        THEN MoveIndex(k.task, k.rec.status, k.old)
        ELSE UNCHANGED statusIndex
  /\ Advance(c)
  /\ UNCHANGED <<queue, taskIndex, stats, dlq, known, opened, crashes, history>>

\* EXEC answers null: start over, or give up after MaxAttempts attempts.
Conflict(c) ==
  /\ At(c, "exec") /\ c \in dirty
  /\ LET k == call[c] IN
     IF k.attempt < MaxAttempts
     THEN call' = [call EXCEPT ![c] =
            [k EXCEPT !.step = "watch", !.todo = {k.task}, !.task = None,
                      !.rec = None, !.old = None, !.attempt = k.attempt + 1]]
     ELSE Throw(c)
  /\ UNCHANGED <<store, dirty, known, opened, crashes, history>>

\* Mutant of Left: previousStatus is read after the new one is assigned.
Left_Late(k) == k.rec.status

\* The bucket that loses a task.
Left(k) == k.old

\* _transitionQueueStats, after the transaction: one HINCRBY per bucket.
CountFrom(c) ==
  /\ At(c, "countFrom")
  /\ LET s == Left(call[c]) IN
     stats' = [b \in Buckets |-> IF b = s THEN stats[b] - 1 ELSE stats[b]]
  /\ Advance(c)
  /\ UNCHANGED <<task, queue, taskIndex, statusIndex, dlq, dirty, known, opened,
                 crashes, history>>

CountTo(c) ==
  /\ At(c, "countTo")
  /\ LET s == call[c].rec.status IN
     stats' = [b \in Buckets |-> IF b = s THEN stats[b] + 1 ELSE stats[b]]
  /\ Advance(c)
  /\ UNCHANGED <<task, queue, taskIndex, statusIndex, dlq, dirty, known, opened,
                 crashes, history>>

-----------------------------------------------------------------------------
(* Deleting a record: _moveToDeadLetterQueue and cleanupOldTasks.          *)

\* Mutant of BeforeDelete: the LPUSH is left out.
BeforeDelete_Nothing == "delete"

BeforeDelete == "push"

\* _moveToDeadLetterQueue GETs the record again.
Refetch(c) ==
  /\ At(c, "refetch")
  /\ LET t == call[c].task IN
     IF task[t] = None
     THEN Throw(c)
     ELSE Hold(c, t, BeforeDelete, [task[t] EXCEPT !.status = "failed"], task[t].status)
  /\ ReadOnly

\* LPUSH of the record to dlq:tasks.
Push(c) ==
  /\ At(c, "push")
  /\ dlq' = [dlq EXCEPT ![call[c].task] = @ + 1]
  /\ Advance(c)
  /\ UNCHANGED <<task, queue, taskIndex, statusIndex, stats, dirty, known,
                 opened, crashes, history>>

\* DEL of the record.
Delete(c) ==
  /\ At(c, "delete")
  /\ WriteRecord(call[c].task, None)
  /\ cleaned' = IF call[c].op = "cleanup" THEN cleaned \cup {call[c].task} ELSE cleaned
  /\ Advance(c)
  /\ UNCHANGED <<queue, taskIndex, statusIndex, stats, dlq, known, opened,
                 crashes, stored, expired, enqueues, claims>>

\* ZREM from tasks:index.
Unindex(c) ==
  /\ At(c, "unindex")
  /\ taskIndex' = taskIndex \ {call[c].task}
  /\ Advance(c)
  /\ UNCHANGED <<task, queue, statusIndex, stats, dlq, dirty, known, opened,
                 crashes, history>>

\* _removeTaskFromIndices(id, status when read).
Forget(c) ==
  /\ At(c, "forget")
  /\ statusIndex' = [statusIndex EXCEPT ![call[c].old] = @ \ {call[c].task}]
  /\ Advance(c)
  /\ UNCHANGED <<task, queue, taskIndex, stats, dlq, dirty, known, opened,
                 crashes, history>>

-----------------------------------------------------------------------------
\* The process dies, or a command fails and the call throws, between two
\* commands: what was written stays written.
Crash(c) ==
  /\ ~Idle(c)
  /\ crashes < MaxCrashes
  /\ crashes' = crashes + 1
  /\ call' = [call EXCEPT ![c] = None]
  /\ disturbed' = TRUE
  /\ UNCHANGED <<store, dirty, known, begun, history>>

Init ==
  /\ task = [t \in Tasks |-> None]
  /\ queue = {} /\ taskIndex = {}
  /\ statusIndex = [s \in Status |-> {}]
  /\ stats = [b \in Buckets |-> 0]
  /\ dlq = [t \in Tasks |-> 0]
  /\ call = [c \in Calls |-> None]
  /\ dirty = {} /\ known = {} /\ begun = 0 /\ disturbed = FALSE /\ crashes = 0
  /\ stored = {} /\ cleaned = {} /\ expired = {}
  /\ enqueues = [t \in Tasks |-> 0]
  /\ claims = [t \in Tasks |-> 0]

Start(c) ==
  \/ \E t \in Tasks, limit \in Limits : BeginCreate(c, t, limit)
  \/ \E t \in Tasks, op \in {"retry", "cancel", "requeue", "fields"} : BeginOn(c, op, t)
  \/ \E t \in Tasks, status \in Targets : BeginUpdate(c, t, status)
  \/ BeginClaim(c) \/ BeginRecover(c) \/ BeginExpire(c) \/ BeginCleanup(c)

Continue(c) ==
  \/ \E t \in Tasks : Fetch(c, t)
  \/ Store(c) \/ Index(c) \/ SetRecord(c) \/ Reindex(c) \/ Enqueue(c)
  \/ Dequeue(c) \/ Count(c) \/ Take(c)
  \/ Watch(c) \/ Exec(c) \/ Conflict(c) \/ CountFrom(c) \/ CountTo(c)
  \/ Refetch(c) \/ Push(c) \/ Delete(c) \/ Unindex(c) \/ Forget(c)

Next == \E c \in Calls : Start(c) \/ Continue(c) \/ Crash(c)

Spec == Init /\ [][Next]_vars

-----------------------------------------------------------------------------
(* Properties.                                                             *)

\* The store and the calls in progress stay within their types.
TypeOK ==
  /\ task \in [Tasks -> Record \cup {None}]
  /\ queue \subseteq Tasks /\ taskIndex \subseteq Tasks
  /\ statusIndex \in [Status -> SUBSET Tasks]
  /\ stats \in [Buckets -> Int]
  /\ dlq \in [Tasks -> Nat]
  /\ call \in [Calls -> CallRecord \cup {None}]
  /\ dirty \subseteq Calls
  /\ known \subseteq Tasks /\ stored \subseteq Tasks
  /\ cleaned \subseteq Tasks /\ expired \subseteq Tasks
  /\ begun \in 0 .. MaxInTurn /\ disturbed \in BOOLEAN /\ crashes \in 0 .. MaxCrashes
  /\ enqueues \in [Tasks -> Nat] /\ claims \in [Tasks -> Nat]

\* A task that createTask stored is never silently lost: while its record is
\* missing, the dead letter queue holds it or cleanupOldTasks removed it,
\* however calls overlap and wherever one of them is cut short
\* (_moveToDeadLetterQueue pushes before it deletes).
NothingVanishes ==
  \A t \in stored : task[t] # None \/ dlq[t] > 0 \/ t \in cleaned

\* A queue entry is handed out at most once: getNextTask never gives a task
\* out more often than something put it on the queue, although several
\* callers scan the same entries (the `removed === 1` of getNextTask).
ClaimsBacked ==
  \A t \in Tasks : claims[t] + (IF t \in queue THEN 1 ELSE 0) =< enqueues[t]

\* A status transaction that will commit read the record as it still is: no
\* other write is lost by updateTaskStatus.
CommitsWhatItRead ==
  \A c \in Calls :
    (At(c, "exec") /\ c \notin dirty) =>
      task[call[c].task] = [call[c].rec EXCEPT !.status = call[c].old]

\* No call in progress, and none has overlapped another so far.
Quiet == ~disturbed /\ \A c \in Calls : Idle(c)
Live(t) == task[t] # None
InStatus(s) == {t \in Tasks : Live(t) /\ task[t].status = s}

\* As long as calls come one after the other, tasks:index lists the stored
\* tasks and each status index the tasks with that status, except what
\* expireStaleTasks leaves behind (it cancels a record and moves no index): a
\* task it has cancelled may be missing from the index of the cancelled ones,
\* and may be left, for good, in the index of a status that it had before it
\* started.  The indices of running and finished tasks are exact all the same.
IndexExact ==
  Quiet =>
    /\ taskIndex = {t \in Tasks : Live(t)}
    /\ \A s \in Status :
         /\ InStatus(s) \ statusIndex[s] \subseteq IF s = "cancelled" THEN expired ELSE {}
         /\ statusIndex[s] \ InStatus(s) \subseteq IF s \in NotStarted THEN expired ELSE {}

\* What updateTaskStatus still owes a counter: calls past their EXEC.
Owed(s) ==
  Cardinality({c \in Calls : /\ At(c, "countFrom") \/ At(c, "countTo")
                             /\ call[c].rec.status = s})
  - Cardinality({c \in Calls : At(c, "countFrom") /\ call[c].old = s})

\* Without failures the counters of getQueueStats never hide work: they
\* count, up to HINCRBYs still to come, at least the tasks that are
\* processing, completed or failed.  (They may count more: cancel, retry,
\* requeue, recovery and deletion never decrement them.)
CountersHideNothing ==
  crashes = 0 =>
    \A s \in Buckets \ {"pending"} : stats[s] + Owed(s) >= Cardinality(InStatus(s))

\* A dead-lettered task is in the dead letter queue once and its record is
\* gone, so nobody runs it again (as long as calls do not overlap: two
\* retryTask calls may both push it).
DeadIsGone ==
  Quiet => \A t \in Tasks : dlq[t] =< 1 /\ (dlq[t] = 1 => ~Live(t))

\* No task waits where no worker looks: as long as calls do not overlap, a task
\* that waits for its first run, or for a retry, and was never handed out is
\* on the queue.
NoneStranded ==
  Quiet => \A t \in InStatus("pending") \cup InStatus("retry") :
             claims[t] = 0 => t \in queue
=============================================================================

----------------------------- MODULE TaskExecutor -----------------------------
(***************************************************************************)
(* Running a task: TaskExecutor.execute of src/services/task-executor.ts,  *)
(* with the worker records of src/services/worker-pool.ts and the calls    *)
(* that meet it from elsewhere: cancelTask, recoverStaleTasks and          *)
(* handleWorkerDisconnect.                                                 *)
(*                                                                         *)
(* A run is one call of execute; its `pc` is the next thing it awaits.     *)
(* Runs of one process share cancelledTasks.  updateTaskStatus is one step *)
(* (module TaskQueue has its transaction); every other change of a task or *)
(* of a worker reads the record in one step and writes it back, as it was  *)
(* read but for the change, in another.                                    *)
(* Consensus tasks, rate limits, hooks and callbacks are not part of this  *)
(* module, and workers stay registered.                                    *)
(***************************************************************************)
EXTENDS Integers, FiniteSets

CONSTANTS
  Tasks, Workers,
  Runs,           \* calls of execute that may overlap
  None,           \* no record, no run, no errand
  Limit,          \* maxRetries of every task
  Loops,          \* the loops of one worker's process
  MaxConcurrent,  \* maxConcurrent of every worker
  Scenarios       \* bound: who hands out the tasks (see HasRoom), and which
                  \* faults come together beside failing handlers (see Kinds)

\* A worker's process dies, or one that is on an errand; recovery takes a task
\* that is still being run for an orphan; POST /cancel; the expiry passes; the
\* handler is not registered; HINCRBY of the cost is refused (metadata.cost is
\* not an integer); the timeout passes while the handler goes on; a worker
\* misses its heartbeats.
Kinds == {"crash", "abandon", "straggler", "cancel", "expire", "nohandler", "cost",
          "timeout", "disconnect"}

ASSUME LimitAssumption == Limit \in Nat
ASSUME ScenariosAssumption ==
  Scenarios \subseteq [dispatcher: {"loop", "select"}, faults: SUBSET Kinds]
ASSUME RunsAssumption == IsFiniteSet(Runs)

VARIABLES
  dispatcher,  \* who hands out the tasks, for good
  status,      \* status of each task's record, None when it is gone
  retries,     \* its `retries`
  queue,       \* "queue:<q>"
  dlq,         \* entries of "dlq:tasks" per task
  worker,      \* the worker records
  list,        \* "worker:<id>:tasks": how often it lists each task
  run,         \* the runs
  lingering,   \* handlers still running after their run timed out
  cancelled,   \* cancelledTasks
  errand,      \* calls of cancelTask, recoverStaleTasks, requeueTask on a task
  down,        \* the handleWorkerDisconnect under way
  faults,      \* the kinds of fault there have been
  failures,    \* history: the runs that reported a failure to retryTask
  contested,   \* history: tasks whose completion was not let alone
  stranded     \* history: tasks dropped where nothing looks for them

store == <<status, retries, queue, dlq>>
pool == <<worker, list>>
errands == <<errand, down>>
history == <<failures, contested, stranded>>
vars == <<dispatcher, store, pool, run, lingering, cancelled, errands, faults, history>>

Statuses == {"pending", "queued", "processing", "completed", "failed", "retry",
             "cancelled"}
NotStarted == {"pending", "queued", "retry"}
Finished == {"completed", "failed", "cancelled"}

\* A worker record: its currentTasks, and whether its status is `online`.
Record == [load: Nat, online: BOOLEAN]
Blank == [load |-> 0, online |-> FALSE]

\* While a run is at one of these, it has its task in hand ...
InHand == {"assign", "assignSet", "assignPush", "begin", "drop", "check", "start",
           "busy", "busySet", "handler", "abort", "latest", "complete", "retry",
           "rewrite", "requeue", "bury", "push", "delete", "fail"}
\* ... and here it is done with it.
Leaving == {"release", "releaseSet", "unlist", "finally", "leave", "leaveSet"}

\* A run: its task, worker and next step; whether the task had not started
\* when it was claimed; whether the handler succeeded; whether it is in the
\* outer `catch`; whether it has been to retryTask; the `retries` and the
\* worker record it is about to write.
Run == [task: Tasks, worker: Workers, pc: InHand \cup Leaving, fresh: BOOLEAN,
        ok: BOOLEAN, late: BOOLEAN, told: BOOLEAN, tries: Nat, edited: Record]

\* An errand: its next step, and the `retries` of the record it read.
Errands == {"cancel", "recover", "requeue"}
Errand == [step: {"set", "queue", "signal"}, tries: Nat]

\* A disconnect: the worker, and the listed tasks that are still to requeue.
Disconnecting == [worker: Workers, step: {"requeue", "offline"}, todo: [Tasks -> Nat]]

ASSUME NoneAssumption ==
  None \notin Run \cup Statuses \cup Errand \cup Disconnecting

At(r, pc) == run[r] # None /\ run[r].pc = pc
Holds(r, t) == run[r] # None /\ run[r].task = t /\ run[r].pc \in InHand
Held(t) == \E r \in Runs : Holds(r, t)
InHandler(t) == {r \in Runs : At(r, "handler") /\ run[r].task = t}
OnErrand(k, t, step) == errand[k][t] # None /\ errand[k][t].step = step

Goto(r, pc) == run' = [run EXCEPT ![r].pc = pc]

\* An exception: to the outer catch, or, thrown there, to its own catch.
Thrown(call) ==
  [call EXCEPT !.pc = IF call.late THEN "release" ELSE "retry", !.late = TRUE]

Throw(r) == run' = [run EXCEPT ![r] = Thrown(@)]

\* updateTaskStatus(task, s), then go on at pc; it throws without a record.
SetStatus(r, s, pc) ==
  /\ LET t == run[r].task IN
     IF status[t] = None
     THEN Throw(r) /\ UNCHANGED status
     ELSE Goto(r, pc) /\ status' = [status EXCEPT ![t] = s]
  /\ UNCHANGED <<dispatcher, retries, queue, dlq, pool, lingering, cancelled,
                 errands, faults>>

Fault(kind) ==
  /\ kind \notin faults
  /\ \E s \in Scenarios : /\ s.dispatcher = dispatcher
                          /\ faults \cup {kind} \subseteq s.faults
  /\ faults' = faults \cup {kind}

Init ==
  /\ dispatcher \in {s.dispatcher : s \in Scenarios}
  /\ status = [t \in Tasks |-> "pending"]
  /\ retries = [t \in Tasks |-> 0]
  /\ queue = Tasks
  /\ dlq = [t \in Tasks |-> 0]
  /\ worker = [w \in Workers |-> [load |-> 0, online |-> TRUE]]
  /\ list = [w \in Workers |-> [t \in Tasks |-> 0]]
  /\ run = [r \in Runs |-> None]
  /\ lingering = [t \in Tasks |-> 0]
  /\ cancelled = {}
  /\ errand = [k \in Errands |-> [t \in Tasks |-> None]]
  /\ down = None
  /\ faults = {}
  /\ failures = [t \in Tasks |-> 0]
  /\ contested = {} /\ stranded = {}

-----------------------------------------------------------------------------
(* Getting a task, and the checks before it runs.                          *)

NewRun(t, w) ==
  [task |-> t, worker |-> w, pc |-> "assign", fresh |-> status[t] \in NotStarted,
   ok |-> FALSE, late |-> FALSE, told |-> FALSE, tries |-> 0, edited |-> Blank]

\* The worker loop: getNextTask, assignTask and execute in turn, whatever the
\* worker's record says.
FreeLoop(w) == Cardinality({r \in Runs : run[r] # None /\ run[r].worker = w}) < Loops

\* getAvailableWorkers selects the worker.
Available(w) == worker[w].online /\ worker[w].load < MaxConcurrent

\* Either the workers' loops take the tasks, or a dispatcher selects the worker.
HasRoom(w) == IF dispatcher = "select" THEN Available(w) ELSE FreeLoop(w)

\* Mutant of Left: the entry stays on the queue.
Left_All(t) == queue

\* ZREM of the task it takes.
Left(t) == queue \ {t}

\* Which of the idle calls begins makes no difference.
Idle == CHOOSE r \in Runs : run[r] = None

\* A task is taken off the queue for a worker (getNextTask).
Claim(r, t, w) ==
  /\ run[r] = None /\ r = Idle
  /\ HasRoom(w)
  /\ t \in queue /\ status[t] # None
  /\ queue' = Left(t)
  /\ run' = [run EXCEPT ![r] = NewRun(t, w)]
  /\ UNCHANGED <<dispatcher, status, retries, dlq, pool, lingering, cancelled,
                 errands, faults, history>>

\* getWorker, and the record as it is going to be written.
GetWorker(r, from, record, to) ==
  /\ At(r, from)
  /\ run' = [run EXCEPT ![r].pc = to, ![r].edited = record]
  /\ UNCHANGED <<dispatcher, store, pool, lingering, cancelled, errands, faults,
                 history>>

\* The SET: the whole record, as it was read but for the change.
PutWorker(r) == worker' = [worker EXCEPT ![run[r].worker] = run[r].edited]

SetWorker(r, from, to) ==
  /\ At(r, from)
  /\ PutWorker(r)
  /\ run' = [run EXCEPT ![r].pc = to, ![r].edited = Blank]
  /\ UNCHANGED <<dispatcher, store, list, lingering, cancelled, errands, faults,
                 history>>

RecordOf(r) == worker[run[r].worker]

\* assignTask: count the task in the worker's record, then list it.
Assign(r) ==
  \/ GetWorker(r, "assign", [RecordOf(r) EXCEPT !.load = @ + 1], "assignSet")
  \/ SetWorker(r, "assignSet", "assignPush")
  \/ /\ At(r, "assignPush")
     /\ list' = [list EXCEPT ![run[r].worker][run[r].task] = @ + 1]
     /\ Goto(r, "begin")
     /\ UNCHANGED <<dispatcher, store, worker, lingering, cancelled, errands,
                    faults, history>>

\* execute: skip a task whose cancellation was signalled, or that expired.
Begin(r) ==
  /\ At(r, "begin")
  /\ \/ /\ run' = [run EXCEPT ![r].fresh = FALSE,
                               ![r].pc = IF run[r].task \in cancelled THEN "drop"
                                                                      ELSE "check"]
        /\ UNCHANGED faults
     \/ run[r].fresh /\ Goto(r, "drop") /\ Fault("expire")
  /\ UNCHANGED <<dispatcher, store, pool, lingering, cancelled, errands, history>>

\* Such a task is marked cancelled and the run returns.
Drop(r) ==
  /\ At(r, "drop")
  /\ SetStatus(r, "cancelled", "finally")
  /\ UNCHANGED history

\* Mutant of WhenFinished: returning without completeTask.
WhenFinished_Return == "finally"

\* A finished task is not run again, but its slot is given back.
WhenFinished == "release"

\* getTask: a finished task is not run again; then the handler is looked up.
Check(r) ==
  /\ At(r, "check")
  /\ \/ Goto(r, IF status[run[r].task] \in {"completed", "failed"} THEN WhenFinished
                                                                   ELSE "start")
        /\ UNCHANGED faults
     \/ /\ status[run[r].task] \notin {"completed", "failed"}
        /\ Throw(r)
        /\ Fault("nohandler")
  /\ UNCHANGED <<dispatcher, store, pool, lingering, cancelled, errands, history>>

\* updateTaskStatus(processing), whatever the status is by now.
Start(r) ==
  /\ At(r, "start")
  /\ SetStatus(r, "processing", "busy")
  /\ UNCHANGED history

\* updateWorkerStatus(busy); then the handler is called.
Busy(r) ==
  \/ GetWorker(r, "busy", [RecordOf(r) EXCEPT !.online = FALSE], "busySet")
  \/ SetWorker(r, "busySet", "handler")

-----------------------------------------------------------------------------
(* The handler's outcome.                                                  *)

\* Where the run goes when it stops waiting for the handler: a signalled
\* cancellation wins.
Judge(r, ok) ==
  run' = [run EXCEPT ![r].ok = ok,
                     ![r].pc = IF run[r].task \in cancelled THEN "abort" ELSE "latest"]

\* The handler returns or throws.
Handled(r) ==
  /\ At(r, "handler")
  /\ \E ok \in BOOLEAN : Judge(r, ok)
  /\ UNCHANGED <<dispatcher, store, pool, lingering, cancelled, errands, faults,
                 history>>

\* The timeout wins the race: nothing stops the handler.
TimesOut(r) ==
  /\ At(r, "handler")
  /\ Fault("timeout")
  /\ Judge(r, FALSE)
  /\ lingering' = [lingering EXCEPT ![run[r].task] = @ + 1]
  /\ UNCHANGED <<dispatcher, store, pool, cancelled, errands, history>>

\* A handler that timed out ends; its outcome is dropped.
HandlerEnds(t) ==
  /\ lingering[t] > 0
  /\ lingering' = [lingering EXCEPT ![t] = @ - 1]
  /\ UNCHANGED <<dispatcher, store, pool, run, cancelled, errands, faults, history>>

\* Cancelled during execution.
Abort(r) ==
  /\ At(r, "abort")
  /\ SetStatus(r, "cancelled", "release")
  /\ UNCHANGED history

\* getTask again: the outcome counts only while the task is processing.
Latest(r) ==
  /\ At(r, "latest")
  /\ LET now == status[run[r].task] IN
     run' = [run EXCEPT ![r].ok = FALSE,
                        ![r].pc = CASE now # "processing" -> "release"
                                    [] now = "processing" /\ run[r].ok -> "complete"
                                    [] OTHER -> "retry"]
  /\ UNCHANGED <<dispatcher, store, pool, lingering, cancelled, errands, faults,
                 history>>

\* Something else is at work on the task, or its cancellation is signalled.
Contest(r, t) ==
  \/ \E q \in Runs \ {r} : Holds(q, t)
  \/ \E k \in Errands : errand[k][t] # None
  \/ t \in cancelled

Complete(r) ==
  /\ At(r, "complete")
  /\ SetStatus(r, "completed", "release")
  /\ contested' = contested \cup {t \in {run[r].task} : Contest(r, t)}
  /\ UNCHANGED <<failures, stranded>>

\* Mutants of Exhausted: one retry too many; the dead letter queue too early.
Exhausted_Late(n) == n > Limit
Exhausted_Early(n) == n + 1 >= Limit

Exhausted(n) == n >= Limit

\* retryTask has read the record, with n retries.
Retried(call, n) ==
  IF Exhausted(n) THEN [call EXCEPT !.pc = "bury", !.told = TRUE]
                  ELSE [call EXCEPT !.pc = "rewrite", !.told = TRUE, !.tries = n]

\* retryTask, from the failure branch or the outer catch: GET and decide.
Retry(r) ==
  /\ At(r, "retry")
  /\ LET t == run[r].task IN
     /\ run' = [run EXCEPT ![r] = IF status[t] = None
                                   THEN [Thrown(@) EXCEPT !.told = TRUE]
                                   ELSE Retried(@, retries[t])]
     /\ failures' = IF run[r].told THEN failures ELSE [failures EXCEPT ![t] = @ + 1]
  /\ UNCHANGED <<dispatcher, store, pool, lingering, cancelled, errands, faults,
                 contested, stranded>>

\* The SET of the edited record ...
Rewrite(r) ==
  /\ At(r, "rewrite")
  /\ LET t == run[r].task IN
     /\ status' = [status EXCEPT ![t] = "retry"]
     /\ retries' = [retries EXCEPT ![t] = run[r].tries + 1]
  /\ run' = [run EXCEPT ![r].pc = "requeue", ![r].tries = 0]
  /\ UNCHANGED <<dispatcher, queue, dlq, pool, lingering, cancelled, errands, faults,
                 history>>

\* Mutant of BackOnQueue: the ZADD is left out.
BackOnQueue_Not(t) == queue

BackOnQueue(t) == queue \cup {t}

\* ... and the ZADD.
Requeue(r) ==
  /\ At(r, "requeue")
  /\ queue' = BackOnQueue(run[r].task)
  /\ Goto(r, "release")
  /\ UNCHANGED <<dispatcher, status, retries, dlq, pool, lingering, cancelled, errands,
                 faults, history>>

\* _moveToDeadLetterQueue: GET; nothing to move without a record ...
Bury(r) ==
  /\ At(r, "bury")
  /\ Goto(r, IF status[run[r].task] = None THEN "fail" ELSE "push")
  /\ UNCHANGED <<dispatcher, store, pool, lingering, cancelled, errands, faults,
                 history>>

\* ... LPUSH of the record read ...
Push(r) ==
  /\ At(r, "push")
  /\ dlq' = [dlq EXCEPT ![run[r].task] = @ + 1]
  /\ Goto(r, "delete")
  /\ UNCHANGED <<dispatcher, status, retries, queue, pool, lingering, cancelled,
                 errands, faults, history>>

\* ... and DEL; retryTask returns false.
Delete(r) ==
  /\ At(r, "delete")
  /\ status' = [status EXCEPT ![run[r].task] = None]
  /\ Goto(r, "fail")
  /\ UNCHANGED <<dispatcher, retries, queue, dlq, pool, lingering, cancelled, errands,
                 faults, history>>

\* updateTaskStatus(failed), which finds no record any more.
Fail(r) ==
  /\ At(r, "fail")
  /\ SetStatus(r, "failed", "release")
  /\ UNCHANGED history

-----------------------------------------------------------------------------
(* Leaving.                                                                *)

Less(n) == IF n = 0 THEN 0 ELSE n - 1

\* completeTask: give the slot back, take the task off the list, then add up
\* the cost, which may throw; a throw in the outer catch leaves through the
\* finally.
Release(r) ==
  \/ GetWorker(r, "release", [RecordOf(r) EXCEPT !.load = Less(@)], "releaseSet")
  \/ SetWorker(r, "releaseSet", "unlist")
  \/ /\ At(r, "unlist")
     /\ list' = [list EXCEPT ![run[r].worker][run[r].task] = Less(@)]
     /\ \/ Goto(r, "finally") /\ UNCHANGED <<faults, contested>>
        \/ /\ IF run[r].late THEN Goto(r, "finally") ELSE Throw(r)
           /\ Fault("cost")
           /\ contested' = contested \cup {run[r].task}
     /\ UNCHANGED <<dispatcher, store, worker, lingering, cancelled, errands,
                    failures, stranded>>

\* finally: clearCancellation ...
Finally(r) ==
  /\ At(r, "finally")
  /\ cancelled' = cancelled \ {run[r].task}
  /\ run' = [run EXCEPT ![r].pc = "leave", ![r].fresh = FALSE, ![r].late = FALSE,
                        ![r].told = FALSE]
  /\ UNCHANGED <<dispatcher, store, pool, lingering, errands, faults, history>>

\* ... and updateWorkerStatus (busy or idle, by the worker's load); then the run
\* is over.
Leave(r) ==
  \/ GetWorker(r, "leave", [RecordOf(r) EXCEPT !.online = FALSE], "leaveSet")
  \/ /\ At(r, "leaveSet")
     /\ PutWorker(r)
     /\ run' = [run EXCEPT ![r] = None]
     /\ UNCHANGED <<dispatcher, store, list, lingering, cancelled, errands, faults,
                    history>>

-----------------------------------------------------------------------------
(* The world around the runs: errands, each a GET, a SET of the record as it *)
(* was read but for its status, and a change of the queue.                 *)

Sent(k, t, step, n) == errand' = [errand EXCEPT ![k][t] = [step |-> step, tries |-> n]]
Back(k, t) == errand' = [errand EXCEPT ![k][t] = None]

\* POST /tasks/:id/cancel: cancelTask.  It refuses a finished task, whose
\* cancellation is signalled all the same.
CancelTask(t) ==
  /\ errand["cancel"][t] = None
  /\ status[t] # None
  /\ Fault("cancel")
  /\ IF status[t] \in Finished THEN Sent("cancel", t, "signal", 0)
                               ELSE Sent("cancel", t, "set", retries[t])
  /\ UNCHANGED <<dispatcher, store, pool, run, lingering, cancelled, down, history>>

\* Mutant of Stale: the status index is trusted, which may still list a task
\* that has completed.
Stale_Index(t) == status[t] \in {"processing", "completed"}

Stale(t) == status[t] = "processing"

\* recoverStaleTasks: a task that has been processing for too long goes back
\* to the queue; it may be a slow one that still runs.
Recover(t) ==
  /\ errand["recover"][t] = None
  /\ Stale(t)
  /\ IF Held(t) THEN Fault("straggler") ELSE UNCHANGED faults
  /\ Sent("recover", t, "set", retries[t])
  /\ UNCHANGED <<dispatcher, store, pool, run, lingering, cancelled, down, history>>

\* handleWorkerDisconnect: the tasks the worker lists ...
Disconnect(w) ==
  /\ down = None
  /\ Fault("disconnect")
  /\ down' = [worker |-> w, step |-> "requeue", todo |-> list[w]]
  /\ UNCHANGED <<dispatcher, store, pool, run, lingering, cancelled, errand, history>>

Requeueing == \E t \in Tasks : errand["requeue"][t] # None

\* ... go through requeueTask one by one, whatever their status ...
RequeueTask(t) ==
  /\ down # None /\ down.step = "requeue" /\ ~Requeueing
  /\ down.todo[t] > 0
  /\ down' = [down EXCEPT !.todo[t] = @ - 1]
  /\ IF status[t] = None THEN UNCHANGED errand
                         ELSE Sent("requeue", t, "set", retries[t])
  /\ contested' = contested \cup {u \in {t} : status[u] = "completed"}
  /\ UNCHANGED <<dispatcher, store, pool, run, lingering, cancelled, faults, failures,
                 stranded>>

\* ... then the list is deleted ...
Unlist ==
  /\ down # None /\ down.step = "requeue" /\ ~Requeueing
  /\ \A t \in Tasks : down.todo[t] = 0
  /\ list' = [list EXCEPT ![down.worker] = [t \in Tasks |-> 0]]
  /\ down' = [down EXCEPT !.step = "offline"]
  /\ UNCHANGED <<dispatcher, store, worker, run, lingering, cancelled, errand, faults,
                 history>>

\* ... and the worker's record is reset; its runs may go on all the while.
GoOffline ==
  /\ down # None /\ down.step = "offline"
  /\ worker' = [worker EXCEPT ![down.worker] = Blank]
  /\ down' = None
  /\ UNCHANGED <<dispatcher, store, list, run, lingering, cancelled, errand, faults,
                 history>>

\* The SET of an errand, which brings back a record that is gone by now.
Store(k, t) ==
  /\ OnErrand(k, t, "set")
  /\ status' = [status EXCEPT ![t] = IF k = "cancel" THEN "cancelled" ELSE "queued"]
  /\ retries' = [retries EXCEPT ![t] = errand[k][t].tries]
  /\ Sent(k, t, "queue", 0)
  /\ UNCHANGED <<dispatcher, queue, dlq, pool, run, lingering, cancelled, down, faults,
                 history>>

\* ZADD at the end of a recovery or a requeue.
Enqueue(k, t) ==
  /\ k # "cancel" /\ OnErrand(k, t, "queue")
  /\ queue' = queue \cup {t}
  /\ Back(k, t)
  /\ UNCHANGED <<dispatcher, status, retries, dlq, pool, run, lingering, cancelled,
                 down, faults, history>>

\* ZREM of a cancellation: a retry that came in between is lost.
Unqueue(t) ==
  /\ OnErrand("cancel", t, "queue")
  /\ queue' = queue \ {t}
  /\ Sent("cancel", t, "signal", 0)
  /\ stranded' = stranded \cup {u \in {t} \cap queue : status[u] # "cancelled"}
  /\ UNCHANGED <<dispatcher, status, retries, dlq, pool, run, lingering, cancelled,
                 down, faults, failures, contested>>

\* TaskExecutor.cancel, after cancelTask.
Signal(t) ==
  /\ OnErrand("cancel", t, "signal")
  /\ Back("cancel", t)
  /\ cancelled' = cancelled \cup {t}
  /\ contested' = contested \cup {u \in {t} : status[u] = "completed"}
  /\ UNCHANGED <<dispatcher, store, pool, run, lingering, down, faults, failures,
                 stranded>>

\* The worker dies in mid-run; its record keeps the slot.  Recovery only finds
\* a task that is marked processing.
Crash(r) ==
  /\ run[r] # None
  /\ Fault("crash")
  /\ run' = [run EXCEPT ![r] = None]
  /\ stranded' = stranded \cup {t \in Tasks : Holds(r, t) /\ status[t] # "processing"}
  /\ UNCHANGED <<dispatcher, store, pool, lingering, cancelled, errands, failures,
                 contested>>

\* The process of a request or of the scheduler dies in mid-errand.
ErrandDies(k, t) ==
  /\ k # "requeue" /\ errand[k][t] # None
  /\ Fault("abandon")
  /\ Back(k, t)
  /\ stranded' = stranded \cup {u \in {t} : k = "recover" /\ OnErrand(k, u, "queue")}
  /\ UNCHANGED <<dispatcher, store, pool, run, lingering, cancelled, down, failures,
                 contested>>

\* The process that handles a disconnect dies.
DisconnectDies ==
  /\ down # None
  /\ Fault("abandon")
  /\ down' = None
  /\ errand' = [errand EXCEPT !["requeue"] = [t \in Tasks |-> None]]
  /\ stranded' = stranded \cup {t \in Tasks : OnErrand("requeue", t, "queue")}
  /\ UNCHANGED <<dispatcher, store, pool, run, lingering, cancelled, failures,
                 contested>>

-----------------------------------------------------------------------------
Step(r) ==
  \/ Assign(r) \/ Begin(r) \/ Drop(r) \/ Check(r) \/ Start(r) \/ Busy(r)
  \/ Handled(r) \/ TimesOut(r) \/ Abort(r) \/ Latest(r) \/ Complete(r)
  \/ Retry(r) \/ Rewrite(r) \/ Requeue(r) \/ Bury(r) \/ Push(r) \/ Delete(r)
  \/ Fail(r) \/ Release(r) \/ Finally(r) \/ Leave(r)

Claims(t) == \E r \in Runs, w \in Workers : Claim(r, t, w)

\* An errand that has begun goes on.
GoesOn(t) ==
  \/ \E k \in Errands : Store(k, t) \/ Enqueue(k, t)
  \/ Unqueue(t) \/ Signal(t) \/ RequeueTask(t)

Next ==
  \/ \E t \in Tasks : Claims(t) \/ HandlerEnds(t) \/ CancelTask(t) \/ Recover(t)
                     \/ GoesOn(t)
  \/ \E t \in Tasks, k \in Errands : ErrandDies(k, t)
  \/ \E r \in Runs : Step(r) \/ Crash(r)
  \/ \E w \in Workers : Disconnect(w)
  \/ Unlist \/ GoOffline \/ DisconnectDies

Spec == Init /\ [][Next]_vars

\* Workers keep asking for tasks, runs go on (a handler ends or times out), so
\* do errands, and the scheduler keeps looking for orphans.  A task on the queue
\* is taken again and again, so strong fairness of Claims: runs may be busy in
\* between.
Fairness ==
  /\ \A t \in Tasks : /\ SF_vars(Claims(t))
                      /\ WF_vars(~Held(t) /\ Recover(t))
                      /\ WF_vars(GoesOn(t))
  /\ \A r \in Runs : WF_vars(Step(r))

FairSpec == Spec /\ Fairness

-----------------------------------------------------------------------------
\* The state keeps its types; a task is never retried more than maxRetries
\* times, whatever runs, recoveries and throws there are.
TypeOK ==
  /\ dispatcher \in {"loop", "select"}
  /\ status \in [Tasks -> Statuses \cup {None}]
  /\ retries \in [Tasks -> 0 .. Limit]
  /\ queue \subseteq Tasks /\ cancelled \subseteq Tasks
  /\ dlq \in [Tasks -> Nat]
  /\ worker \in [Workers -> Record]
  /\ list \in [Workers -> [Tasks -> Nat]]
  /\ run \in [Runs -> Run \cup {None}]
  /\ lingering \in [Tasks -> Nat]
  /\ errand \in [Errands -> [Tasks -> Errand \cup {None}]]
  /\ down \in Disconnecting \cup {None}
  /\ faults \subseteq Kinds
  /\ failures \in [Tasks -> Nat]
  /\ contested \subseteq Tasks /\ stranded \subseteq Tasks

\* The runs that an assignment counted and completeTask has not yet.
Counted(w) ==
  {r \in Runs : /\ run[r] # None
                /\ run[r].worker = w
                /\ run[r].pc \notin {"assign", "assignSet", "unlist", "finally",
                                     "leave", "leaveSet"}}

\* currentTasks is the number of runs the worker has in hand: however a run
\* ends, its slot is given back once ("Still need to decrement the worker's
\* currentTasks counter").  The worker has one loop, since records are read and
\* written apart, and none of the paths that keep the slot or give it back
\* twice: a death, a task dropped before it starts, a refused cost, a
\* disconnect.
SlotsBalanced ==
  (/\ Loops = 1 /\ dispatcher = "loop"
   /\ faults \cap {"crash", "expire", "cancel", "cost", "disconnect"} = {}) =>
    \A w \in Workers : worker[w].load = Cardinality(Counted(w))

\* "Without double-processing work": no two handlers run the same task at the
\* same time, also when workers die and their tasks are recovered, as long as
\* handlers end before their timeout and before recovery or a missed heartbeat
\* takes them for dead, and no cost is refused: that sends a run that has put
\* its task back on the queue to retryTask again, beside the run that may have
\* taken the task.
NoDoubleRun ==
  faults \cap {"straggler", "timeout", "cost", "disconnect"} = {} =>
    \A t \in Tasks : Cardinality(InHandler(t)) + lingering[t] =< 1

\* A task reaches the dead letter queue only when maxRetries + 1 runs of it have
\* failed: stale retries, and records that a cancellation, a recovery or a
\* requeue writes back, cannot cut its attempts short.  A refused cost can: the
\* run reports to retryTask a second time, or after a success.  The task is
\* there once, unless its record outlives the push (a death before the delete),
\* comes back (an errand that read it before), or two runs push it.
DeadLetterEarned ==
  \A t \in Tasks :
    /\ "cost" \notin faults /\ dlq[t] > 0 => failures[t] >= Limit + 1
    /\ faults \cap {"crash", "cancel", "disconnect", "straggler", "cost"} = {} =>
         dlq[t] =< 1

\* A completed task stays completed, over crashes and their recovery, refused
\* cancellations, stragglers and expiry.  The only tasks it does not hold for are
\* the contested ones: completed while another run, an errand that may have read
\* the record before, or a signalled cancellation was about; or afterwards taken
\* up by requeueTask (which looks at no status), sent to retryTask by a refused
\* cost, or signalled to the executor by a refused cancellation.
CompletedStays ==
  [][\A t \in Tasks \ contested' :
       status[t] = "completed" => status'[t] = "completed"]_vars

\* Every queued task is completed, cancelled or dead-lettered in the end,
\* whatever its handler does and whatever goes wrong, with two exceptions.  One
\* is a task that is dropped where nothing looks for it: a process dies between
\* taking it off the queue and marking it processing, or between marking it
\* retry or queued and queueing it, or a cancellation takes its retry off the
\* queue.  The other is a dispatcher that selects workers as
\* getAvailableWorkers does, when no worker is online with room any more: one
\* that has run a task stays busy or idle, and one that has died keeps its slot.
EveryTaskSettles ==
  \A t \in Tasks :
    t \in queue ~> \/ status[t] \in {"completed", "cancelled"}
                   \/ dlq[t] > 0
                   \/ t \in stranded
                   \/ dispatcher = "select" /\ [](\A w \in Workers : ~Available(w))
=============================================================================

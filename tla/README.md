# TaskFlow in TLA+

Specifications, model-checking runs and proofs for TaskFlow, a distributed task
queue in TypeScript that keeps everything it knows in Redis. The modules are
written from the source under `src/`; where a doc or a comment promises
something, the promise is a property, and the definitions are the code's.

Contents: [inventory](#inventory) · [plan](#plan) · [modules](#modules) ·
[runs](#runs) · [what the code does not keep](#what-the-code-does-not-keep) ·
[proofs](#proofs) · [not modelled](#not-modelled) · [limits](#limits)

## Inventory

| Component | Source | State | Operations | Correct when | Module |
|---|---|---|---|---|---|
| Task store and queue | `services/task-queue.ts` | `task:<id>` records, `queue:<q>` (sorted set), `tasks:index`, status indices, `:stats` counters, `dlq:tasks` | create, retry, cancel, requeue, edit, status transaction, claim, recover, expire, clean up | no task is lost or handed out twice, indices and counters agree with the records | TaskQueue |
| Batch dispatch, dependencies | `getNextTask`, `getNextBatch`, `_checkDependencies` | the page being walked | page through the queue, check, take | only runnable tasks are taken, none is overlooked | Dispatch |
| Admission | `createTask`, `createTasksBatch` | queue size, caller budgets | check, create, deduct | limits hold under concurrent creation, nobody pays for nothing | Admission |
| Executor | `services/task-executor.ts` | handler table, `cancelledTasks`; per call of `execute` its place in the code | execute (timeout, retry, dead letter, cancellation), executeBatch | a task ends completed or dead-lettered, is not run twice at once, and gives its worker's slot back | TaskExecutor |
| Consensus | executor and queue | `queue:<q>:dispatch` counts, `task:<id>:consensus` votes | hand out, vote, count, decide | success only with a quorum, one outcome, no task undecided for ever | Consensus |
| Scheduler | `services/task-scheduler.ts` | `scheduler:lock`, `scheduled:tasks`, the flag `schedulerRunning` | start, stop, poll, heartbeat, release | one instance acts at a time, no due task is lost | TaskScheduler, Lease |
| Worker pool | `services/worker-pool.ts` | worker records (`currentTasks`, heartbeat), `workers:index`, assignment lists | register, assign, complete, heartbeat, check, disconnect, unregister, select, auto-scale | load is counted right, tasks of dead workers can be found | WorkerPool |
| Rate limiter | `consumeRateLimitToken` | `:tokens`, `:last_refill` | consume | no more than the configured rate, and no denial below it | TokenBucket |
| Connection pool | `services/redis.ts` | idle, in use, waiters, total | acquire, release, warmUp, drain | never more than max, never shared, every waiter served | ConnectionPool |
| Metrics | `services/metrics-collector.ts` | snapshot keys, `collectionRunning` | start, stop, capture, prune, latest | the newest snapshots are kept, the window is bounded, stop stops | Metrics |
| Cron jobs, hooks, callbacks, templates, API, logger, start-up, compression | the other files | in-memory tables | glue | – | – |

How they interact. A client calls the API, which calls `TaskQueue`. A worker
claims with `getNextTask`, is charged with `WorkerPool.assignTask`, and runs
`TaskExecutor.execute`, which goes back to `TaskQueue` for every status and to
`WorkerPool` for its slot. The scheduler promotes due tasks and runs
`recoverStaleTasks` for those of dead workers; `checkStaleWorkers` disconnects
silent workers and requeues what was on their lists. Metrics read them all. All
of them run in any number of processes and share one Redis.

What is hard. JavaScript switches at every `await`, and other processes at every
Redis command, so an operation is a chain of commands that any other chain may
enter. Only `updateTaskStatus` (WATCH/MULTI/EXEC), the lock's scripts and the
token bucket's script are more than one command wide. Most other writers read a
record, change it in memory and write all of it back. Processes die between
commands; timers (lock expiry, handler timeout, stale tasks) race with slow
work; clocks of different hosts are compared. `PROJECT.json` lists each such
place with its line under "hazards".

## Plan

Order of work. All of it is done.

1. `TaskQueue` – the store, one action per Redis command. *done*
2. `ConnectionPool` – on which WATCH and MULTI depend. *done*
3. `TaskScheduler` – the lock and the due entries; a worker environment. *done*
4. `TaskExecutor` – execute, its worker's slot, crashes and recovery. *done*
5. `TokenBucket`. *done*
6. `Consensus`. *done*
7. `WorkerPool` – assignment, completion, heartbeat, stale workers, disconnect
   with requeue, unregistration, under jobs that claim and run. *done*
8. `Admission` – capacity and budget as check-then-act; partial batches. *done*
9. `Dispatch` – paging over a queue that shrinks and grows, dependencies. *done*
10. `Lease` – the abstract lease, implemented by `TaskScheduler`. *done*
11. `Metrics` – snapshots pruned by overlapping captures. *done*
12. The safety properties of all runs as theorems, for every value of the
    constants. *done*

## Modules

Every module names its bounds (`Max...`) where it declares them. `MC<module>`
extends the module for TLC (symmetry, a view, the values of functions) and
nothing else; `<module>Proofs` holds its theorems (`TaskSchedulerProofs` those
of `Lease` too, `AdmissionProofs` those of `TokenBucket`, `ResourceProofs` those of
`ConnectionPool` and `Metrics`). Where a module of proofs extends two
specifications, the names every specification has (`Init`, `Next`, `Spec`, `TypeOK`,
`vars`) begin with `Pool` or `Bucket` in one of them. Operators named `X_Something`
directly before `X` are mutated versions of `X` that the properties must catch.

### TaskQueue

State: the Redis keys of one queue, and `call`, the calls in progress. A call is
a record with the next command (`step`), the record it has read (`rec`), and the
ids still to visit (`todo`). `Begin...` starts a method with its validation;
`Fetch...` is a method's GET with the decision taken on it; `Store`, `SetRecord`,
`Reindex`, `Enqueue`, `Dequeue`, `Count`, `Take`, `Push`, `Delete`, ... are single
commands which several methods share, in the order `After` gives. `Watch`,
`FetchUpdate`, `Exec` and `Conflict` are the optimistic transaction with its
retries; `dirty` is Redis's memory of a broken WATCH. `Crash` cuts a call short.
Time is a choice (expired or not, stale or not). `disturbed` remembers that two
calls have overlapped or one was cut short, `expired` which tasks
`expireStaleTasks` has cancelled.

### Dispatch

The sorted set as a score per task, so that ranks, pages and their shifts are
Redis's; a score is drawn anew within its band by every ZADD, as the code's
random fraction does. A call (`getNextTask` is one that wants a single task) has
the offset, the rest of its page and its next command: `Fetch` (ZRANGE), `Read`
(GET of the candidate), `Resolve` (`_checkDependencies` and the due time),
`Acquire` (ZREM) or `Pick` and `Unqueue` for a consensus task, `Answer`.
`Create`, `Requeue`, `Complete`, `Cancel`, `Cleanup` and `ComesDue` are what
everybody else does to queue and records. `sure` holds what was runnable when a
call began, until somebody else changes something.

### Admission

A call of `createTask` or `createTasksBatch` is the list of costs still to do
and a step: `CheckSize` (ZCARD), `CheckBudget` (HGET), `Store`, `Enqueue`,
`ReadBalance` (HGET), `Charge` (HINCRBY, which refuses a cost that is not
whole: costs are counted in halves). `SetBudget`, `Take` and `PutBack` are the
others' effects on budget and queue. `worth` and `charged` are the observer's
sums.

### TaskExecutor

A run is one call of `execute`; its `pc` is its next await. `updateTaskStatus` is
one step (TaskQueue has its commands); everything else that changes a task or a
worker is a GET in one step and a SET of what was read, but for the change, in
another. So a run carries `edited`, the worker record it is going to write, and
`tries`, the retries it is going to write: `Retry` and `Rewrite` are the GET and
SET of `retryTask`, `Bury`, `Push` and `Delete` the GET, LPUSH and DEL of the dead
letter move. `Throw` goes to the outer catch, or from there to the inner one.

What meets a run from elsewhere is an errand, a record with its next command and
the retries it read: `CancelTask`, `Recover` and `RequeueTask` are the GETs with
their checks (`requeueTask` has none), `Store` their SET, which overwrites
whatever has happened since and brings back a record that is gone, `Unqueue` and
`Enqueue` the ZREM or ZADD, `Signal` the `TaskExecutor.cancel` that the route calls
last. `Disconnect`, `RequeueTask`, `Unlist`, `GoOffline` are
`handleWorkerDisconnect`, while the runs of that worker may go on. Any of these
processes may die in between (`Crash`, `ErrandDies`, `DisconnectDies`).

`Claim` has two guards, `HasRoom`, one for each way the repository's parts are put
together. With the dispatcher `loop`, each worker's process has `Loops` loops that
call `getNextTask`, `assignTask` and `execute` in turn, as the tests do, whatever
the record says. With `select`, a dispatcher hands out a task to a worker that
`getAvailableWorkers` would select: stored status online, stored `currentTasks`
below `maxConcurrent`. In both the pool's own writes (`busy`, then `busy` or `idle`,
never `online`) and what deaths and throws leave in `currentTasks` are in the
record for good.

`Scenarios` are the sets of faults that may come together, each fault once:
`MCTaskExecutor` names nineteen. `faults` records what there has been, and a
property that a kind of fault breaks says so in its own text; the narrower
histories `failures` (runs that have reported), `contested` (completions that
something else was about to touch) and `stranded` (tasks dropped where nothing
looks) let the properties excuse the case itself and not the fault. The scan
of the status index in `recoverStaleTasks` is a look at the record; the index is
in TaskQueue.

### WorkerPool

The records, `workers:index` and the assignment lists, under jobs: `Take`
(`getNextTask`), `AssignRead`, `AssignWrite`, `AssignPush`, then `execute` as far as
the pool sees it (`Start`, `BusyRead`, `BusyWrite`, `Work`, `DoneRead`,
`DoneWrite`, `DoneRemove`, `Look`, `Settle`). `BeatRead` and `BeatWrite` are a
heartbeat, `Unregister`, `Delete` and `Unindex` an unregistration,
`CheckRead`, `Disconnect`, `Requeue`, `Del`, `DownRead`, `DownWrite` a round of
`checkStaleWorkers` with `handleWorkerDisconnect`. `blurred`, `assigned` and
`muddled` are histories: which records lost a write, which tasks reached a list,
which were overtaken by a disconnect. `Entries` of a worker are the occurrences of
tasks on its list, LLEN of it being their number.

### TaskScheduler and Lease

A poll loop's `pc` is its next command, from `Acquire` (SET NX EX) over `ListDue`,
`GetTask`, `Promote`, `RemoveEntry`, `ScanStale`, `Recover` to `Release` (the
compare-and-delete script). `Heartbeat` is the timer's renewal script, `Tick` lets
time pass and Redis expire the lock. A process may have a second loop after
stop and start. `MaxDelay` is how late a due heartbeat reaches Redis: `Tick` waits
for nothing else. `updateTaskStatus` is one step here (module TaskQueue has its
commands). `lapsed` remembers the loops whose lock ran out in the middle of a
poll, which is what a pause longer than the lock's life does; `Protected` loops
are those in a poll to which that has not happened. `MaxTroubles` bounds stops,
crashes and failing promotions together. Workers (`WorkerClaims`, `WorkerStarts`,
`WorkerEnds`) and cleanup (`RecordGoes`) are the environment.

`Lease` is what the lock is for, without polls or Redis: a lease that is granted,
renewed by its covered holder, returned, given up or run out. The mapping takes
the lock for the holder, its remaining life for the lease's, and the protected
loops for the covered clients; `ImplementsLease` is the abstract specification.

### TokenBucket

`Consume` and `Deny` are the two outcomes of the Lua script at the caller's time;
`Send` reads the clock, and up to `MaxLag` ticks pass before the script runs (the
way to Redis, or a clock that is behind). Tokens are counted in units of
1/`Second`, so the refill is exact; `Filled` includes the expiry of both keys.
`Watch` starts the window over which an observer counts.

### Consensus

One task, workers that run it one at a time. `Scan`, `Dispatch` (HINCRBY) and
`Unqueue` hand it out; `Check`, `Start`, `Answer`, `Vote` (HSET), `Count` (HGETALL
and the strategy), `Latest` and `Decide` are a run; `Recover...` are the four
commands of `recoverStaleTasks` for this task, which reset the count and keep the
votes. The strategy is chosen in `Init` from `Strategies`; `Judge` is the strategy
as a function of the votes. `cast` remembers all votes ever stored, so that
"enough workers said so" has a meaning after votes were replaced.

### ConnectionPool

An action is a stretch of a method without `await`: `AcquireIdle`,
`AcquireCreate` (up to the factory), `Created`/`CreateFails` (its answer),
`AcquireWait`, `Release` (handing over to the first waiter, or parking),
`WarmStart`/`WarmCreated`/`WarmFails`, `Drain`. `Fresh` is the factory's answer:
a connection that was never opened before. `MaxRefusals` and `MaxDrains` bound
what the environment does to the pool.

### Metrics

A snapshot is its key, the millisecond of its capture. A loop is asleep
(`Wake`), or at the SET (`Store`), the KEYS (`List`) or one of the DELs
(`DeleteNext`) of a capture; `old` is the list it has read. `Start` and `Stop` set
`collectionRunning`, and a stop followed by a start leaves the old loop's timer
armed. `Skew` is how far a host's clock is behind, `Fail` and `Exit` are an error
and the end of a process in the middle of a capture.

## Runs

| Run | Instance | Shows |
|---|---|---|
| `queue` | 1 task, every operation, 2 calls that may overlap, 5 in all (7 while they come in turn), 1 cut short | `NothingVanishes`, `ClaimsBacked`, `CommitsWhatItRead`, `CountersHideNothing`; while calls come in turn, expiry among them, `IndexExact`, `DeadIsGone`, `NoneStranded` |
| `pool` | 4 callers, max 2, min 1, a warm-up, 2 refusals, a drain | `Exclusive`, `WithinMax`, liveness `WaitersServed` |
| `scheduler` | 2 processes, 2 loops, 1 task, TTL 2, delays up to 1, 2 troubles | `OneActs`, the refinement `ImplementsLease`, `NoEntryLost`, liveness `DueHandled` |
| `executor` | 1 task, 2 workers of one loop or one slot each, 2 runs, 1 retry, 19 sets of up to 3 faults | `SlotsBalanced`, `NoDoubleRun`, `DeadLetterEarned`, `CompletedStays`, liveness `EveryTaskSettles` |
| `bucket` | 1 process, 14 ticks of a quarter second, lag, expiring keys | `RateBound`, `DeniedOnlyWhenSpent` |
| `consensus` | 4 workers, quorum 3, strategies all and majority, an error | `OneOutcome`, `NotOverDispatched`, `FailsOnlyOnDisagreement`, liveness `TaskDecided` |
| `consensus_recovery` | 3 workers taking the task up to twice, a crash, a recovery, slow runs | `QuorumAgrees` |
| `worker` | 2 workers, 2 tasks, 4 calls of which 2 overlap, 1 cut short, heartbeats that time out at once | `LoadIsExact`, `Findable` |
| `admission` | 3 overlapping creations, batches up to 2, queue limit 1, whole and half costs, budgets set anew, 1 entry taken and put back, 1 cut | `QueueBounded`, `OverdraftBounded`, `PaidIsStored` |
| `dispatch` | 2 pollers, 2 polls (single or batch of 2), pages of 2, 3 tasks (one due late, one depending on it, one for two voters), 4 puts, 1 cut | `OnlyRunnable`, `HandedOnce`, `NothingOverlooked` |
| `dispatch_batch_order` | 1 poller, 4 tasks, pages of 2, a batch of 3 | violates `BatchInPriorityOrder` |
| `metrics` | 2 processes, 3 loops, 2 snapshots kept, clocks 1 ms apart, 5 milliseconds, 1 capture cut | `NewestKept`, `WindowBounded`, liveness `StopEndsLoops` |

The type invariant is checked by the runs of `TaskExecutor`, `TokenBucket` and
`WorkerPool`, where it says something of a number (a retry count, a bucket, a load)
that a mistake in the code would break; it is a theorem of every module. Every
property of a passing run has a mutant in `PROJECT.json`: a plausible mistake in one
definition that makes TLC find the property violated.

Bounds. One task suffices for the properties of `TaskQueue`: calls on different
tasks touch the same keys only through commutative set operations; what
matters is how many calls meet on one task, and two show every read-modify-write
race. Five calls are create, claim, update and two more; seven, in turn,
reach the dead letter queue with a retry and go on. Two attempts of a
transaction stand for five: the loop has no other state. Retry limits of 0 and 1 are the
boundary and one step beyond it. For the scheduler, TTL 2 with a heartbeat due
after 1 and delays up to 1 has both a heartbeat in time and one that comes as
the lock runs out; two loops are two processes or a process with a leftover.
Two troubles are, for instance, a stop and a crash. For the pool, four callers on
two connections keep two in the wait queue, and nine connections outlast every
refusal, drain and warm-up. For the executor, one task
suffices, as runs of different tasks meet only in a worker's record, and
`WorkerPool` has that; two runs are a run and its successor, straggler or
rival, two attempts a failure that is retried and one that is final. The fault
sets are all nine kinds of fault, alone or with those that meet them at the same
record: deaths with recovery, a cancellation or a refused cost; a cancellation
with a timeout, an expiry, a missing handler or the death of its request; a
disconnect or a recovery whose process dies. With the dispatcher `select`, whose
workers get one task each before they are busy for good, one fault at a time
is enough to leave no worker available. The bucket's second is 4 ticks, so that refills fall
between whole tokens, and 14 ticks outlast the keys twice. Four consensus workers
for a quorum of three is one too many. In `WorkerPool` four calls are a job, a
check, a heartbeat or an unregistration, and another job that takes the task
again; a timeout of 0 lets a check find a worker stale while it still works. Three
creations on a limit of one overrun it by two, and a budget set to 0 while all
three are admitted is overdrawn by three tasks: both bounds are reached. In `Dispatch` three tasks on
pages of two make a second page that the first one's removals shift. Three
loops are a process with a leftover loop beside another process, and with two
snapshots kept, five milliseconds make the window move on by three.

Fairness. Redis answers and timers fire, so a loop or a run that can go on does
(weak fairness of its steps; a handler ends because of its timeout; a metrics
loop wakes and finishes its capture). Workers poll: a queued task is offered again
and again, while all runs may be busy in between, hence strong fairness of
claiming it in `TaskExecutor`, as far as `HasRoom` lets anyone claim. An errand
that has begun goes on; the scheduler looks for orphans again and again, so
`Recover` is fair for a task no run holds, while nobody has to take a live run for
dead. Stopped schedulers are restarted by
the deployment. The pool's users release in a `finally` (`withConnection`) and the
factory answers or refuses. Nothing is assumed about calls, crashes or faults.

`CHECK_DEADLOCK FALSE` appears where a run may rightly end: its calls or its time
are used up, its tasks are finished, or (pool) refusals have used up the
connections.

## What the code does not keep

One promise is a run that TLC finds violated, with the quoted promise and the
code in `PROJECT.json` under "findings": `dispatch_batch_order`. `getNextBatch`
(`task-queue.ts:546`) advances its offset by a page, but its own removals have
moved the rest of the queue up, so it passes over runnable tasks and takes ones
of lower priority, which its comment (`task-queue.ts:497`) excludes. The next
call finds them.

Others were met while modelling, as counterexamples of TLC to properties without
the conditions they have now. The conditions in the properties (or the instance
of the run) mark where they begin.

The store and its queue:

* `cancelTask` writes back a record it read some awaits before
  (`task-queue.ts:618`) and overwrites a completion it did not see, although
  `GITHUB_ISSUES.md:183` wants finished tasks never cancelled; retry, requeue and
  edits do the same (`CommitsWhatItRead` speaks of transactions only).
* `cleanupOldTasks` deletes a task that was put back on the queue after it read
  the record (`NothingVanishes` excuses what cleanup removes).
* `expireStaleTasks` cancels a record and moves no index (`task-queue.ts:845`), so
  that the id stays listed under its old status, also when nothing overlaps;
  `IndexExact` says which indices that concerns, and that those of running
  and finished tasks are right all the same. The other unprotected writers leave
  all indices wrong when they overlap (`IndexExact` speaks of calls in turn).
* Cancel, retry, requeue, expiry and the dead letter queue never adjust the
  counters, so they count too much (`CountersHideNothing` is one-sided).
* A dependency that was cleaned up after it completed reads as unresolved, and
  its dependents wait for ever (`_checkDependencies`, `task-queue.ts:1253`).
* Overlapping creations pass the queue's limit and the budget; the bounds by
  which they do are `QueueBounded` and `OverdraftBounded`.
* A cost that is not whole makes HINCRBY fail after the task was stored: the
  caller is not charged, `createTask` throws, and a batch stops in its middle with
  its first tasks created.

Running tasks:

* A worker that dies between claiming a task and marking it processing leaves it
  where `recoverStaleTasks` does not look (`task-queue.ts:948`), against the comment
  above it (`:943`), and so does one that dies between marking it `retry` or
  `queued` and the ZADD (`EveryTaskSettles`, `stranded`). `checkStaleWorkers`
  finds it only if `assignTask` had listed it (`Findable`).
* The ZREM of a cancellation takes off the queue what a retry has put there
  since its SET: the task is marked `retry` and nobody ever takes it
  (`EveryTaskSettles`, `stranded`).
* Cancellation, recovery and requeue write back a record read before
  (`task-queue.ts:618`, `:970`, `:922`), over a completion, or in place of a record
  that has gone to the dead letter queue meanwhile; `requeueTask` reopens a
  completed task even with nothing in between, as it looks at no status
  (`CompletedStays`, `contested`; the second half of `DeadLetterEarned`).
* A straggler past its check reopens a task that another run has completed
  (`CompletedStays`, `contested`).
* Two runs at the dead letter move both push before either deletes, and a
  process that dies in between leaves the record to be pushed again
  (`DeadLetterEarned`, second half).
* A task cancelled or expired before its start keeps its worker's slot
  (`SlotsBalanced`, "cancel" and "expire"); two tasks of one worker lose each
  other's updates of the counter (`Loops = 1`, and `blurred` in `LoadIsExact`).
* Nothing sets a worker `online` again once it was `busy` or `idle`, and
  `getAvailableWorkers` selects only `online` ones, so a dispatcher that relies on it
  runs out of workers with tasks still queued (`EveryTaskSettles`, last case).
* A timed-out handler runs on beside its retry (`NoDoubleRun`, "timeout").
* A cost that is not whole makes `completeTask` throw, so that the run goes to
  `retryTask` after a success, or a second time after one failure: a completed
  task is run again (`CompletedStays`), a task reaches the dead letter queue with
  fewer failed runs (`DeadLetterEarned`), and, with maxRetries of 2 or more, it is
  queued again beside the run that has taken it, so that two handlers run it. The
  proof of `NoDoubleRun` asked for this condition, and TLC shows the behaviour
  with `Limit = 2`; with the run's limit of 1 the second report only dead-letters
  the task (`NoDoubleRun`, "cost").
* The weighted strategy compares with the weights of the votes there are, so the
  first vote decides (`task-executor.ts:220`; `GITHUB_ISSUES.md:663` wants the
  agreement of enough workers). `consensus` and `consensus_recovery` check the
  other two strategies.
* With a vote left from an earlier round, or more voters than the quorum after a
  recovery, agreement of all fails a unanimous task (it asks for exactly `workers`
  equal results; the properties speak of `recoveries = 0`); a worker that takes a task twice leaves it undecided (`consensus` has
  neither recoveries nor repeated takers).
* A consensus task is counted in without a look at whether it is still on the
  queue (`HandedOnce` speaks of ordinary tasks).

Workers and instances:

* A worker declared offline has its tasks requeued while it still runs them, its
  load set to zero and its late completion counted against that (`LoadIsExact`
  excludes such workers, `TypeOK` shows the clamp at zero).
* `unregisterWorker` drops the index entry and leaves the assignment list to
  nobody, so its tasks are stranded (`Findable`, `muddled`).
* Promotion sets 'queued' over any status and puts the task on no queue
  (`task-scheduler.ts:134`, against the comment above it).
* A scheduler paused past its lock's life goes on acting beside the next holder
  (`OneActs` speaks of protected loops).
* Calls of the token bucket of different processes that overtake each other
  refill the same time twice (`bucket` has one process, `RateIsBounded` assumes
  `InOrder`).
* `warmUp` counts after its await and passes max (`WithinMax` allows for it); a
  refused connection keeps its slot, until acquires wait for ever (`WaitersServed`
  asks that fewer than max slots were lost).

## Proofs

All are for every value of the constants, from the named assumptions of the
modules alone unless stated. Every safety property of every passing run is one of
these theorems, and so is every action property and the refinement.

The assumptions: limits and bounds are numbers, and positive where the code
fixes or demands a positive one; sets of callers, workers, runs, loops and tasks that are counted
are finite (`UsersAssumption`, `RunsAssumption`, `FiniteAssumption`, ...); the marks
`None`, `NoCall` and `Disagree` are no value they are compared with
(`NoneAssumption`, `NoCallAssumption`, `CallAssumption`). TLC evaluates all of them
in the runs.

**TaskQueueProofs**, for any interleaving. `TypeCorrect` adds what each call has
in hand at each of its commands. `NoTaskVanishes`: the invariant adds that a
call about to delete a record has already pushed the task to the dead letter
queue or is a cleanup, which the one-line property does not say.
`EntriesHandedOutOnce`: the count of claims and the queue entry against the
enqueues is inductive with the types. `TransactionsLoseNothing`: a call between
its GET and its EXEC either is marked dirty or holds what the store holds; every
writer marks the watchers. `CountersAreNotShort`: that a transaction committed
over the record it read is also why its two HINCRBYs are the right ones; each of
the two is one call in the sets of those that still have to add or subtract, and
the other writers write none of the counted statuses.

**TaskQueueProofs**, for calls that come one after the other. `IndicesAreExact`,
`DeadLettersAreGone` and `NobodyIsStranded` follow from one invariant, `SerialInv`:
every task is settled (its record, its index entries, its place on the queue and
in the dead letter queue agree), except the one that the single call has in hand,
which is halfway: `Halfway` says for each command of each method what has been
done and what has not. One lemma per command shows that it leads from halfway to
halfway, or to settled when the call ends. None of the three properties is
inductive, since each command breaks one of them for a while. What an expiry has
cancelled stays in `expired`: `Booked` allows such a task, and no other, to be
missing among the cancelled and to be listed under a status from before it
started, and every later call moves it between indices without making that worse,
since no status index it may be in wrongly is one a started task is in. TLC has
checked `SerialInv` on the instance of `queue` before it was proved. `NobodyIsStranded`
assumes that `updateTaskStatus` is not called with `pending` or `retry`, as nobody
does: the executor and the scheduler pass `queued`, `processing`, `completed`,
`failed` and `cancelled`.

**DispatchProofs.** `TakenIsRunnable` and `EachPutIsHandedOnce`, inductive together
with the types: a candidate is a task because the calls are typed, what was seen
completed stays in `finished`, and an entry is a put not yet spent.
`FirstRunnableIsFound` is about pages: what was runnable when an undisturbed
call began is on the rest of its page or ranked behind it (`Awaits`). Lemmas on
ranks give that a page holds exactly the entries of the next CHUNK_SIZE ranks, so a page that
is not full is the last one; no removal of the call's own moves the ranks,
because a call for one task ends with its first.

**AdmissionProofs.** `TypesCorrect` (with the fact that a budget, once set, stays
set, so that a call about to charge has one). `QueueIsBounded`: queue plus
admitted calls; a call is admitted only below the limit, when the others are at
most all the rest. `OverdraftIsBounded`: each call that may still charge has room
for one more task, and only billed calls get that far. `OnlyStoredIsPaid`: what is
charged and what stored tasks still owe is at most their worth. The sum of what
calls still owe is the size of a set with one element for each half of a cost, so
that no induction over a sum is needed.

**AdmissionProofs, the rate limiter.** `BucketHoldsItsCapacity`: the types.
`RateIsBounded`: a window's grants, with what the bucket still holds, are paid
for by a full bucket at its start and the refill up to the latest grant
(`GrantsPaid`), because a capped refill only leaves less. Keys that expire were idle for
a TTL, in which the bucket had filled anyway: `TTL >= Second + MaxLag`, which the
code's minute at least satisfies for calls that take less than 59 seconds. The theorem
assumes `InOrder`: calls arrive in the order of their clocks, because one process
sends them or no call takes time. Without it the property is false, as said above.
`DenialsAreDue` needs no such hypothesis: the timestamp is always that of the latest
grant.

**TaskExecutorProofs.** All rest on lemmas that say where an action takes its run
(`StepMoves`, `RunCases`) and which actions write which variable (`Frames`,
`StatusCases`, `QueueCases`, `ErrandCases`). `TypesCorrect`: a run or an errand that
is about to write back retries has read a number within the limit. `QuietInv` says
what there is not before a fault has occurred. Then:

* `DeadLettersAreEarned`. `EarnedInv`: every stored or carried count of retries,
  with the runs that have reported and not yet written, is at most the failures
  there were (`Room`), so that no stale write makes a task look more tried than it
  was, in whatever order the writes come. `OnceInv`: the record of a task that is in
  the dead letter queue is gone, or about to be deleted by the run that holds it.
* `NeverRunTwice`. `TokenInv`: one run holds a task, from the claim until it has
  told the store what became of it; a task that a run or a recovery has is not on
  the queue. Only the faults the property names give it to a second one.
* `CompletionIsFinal`. `DoneInv`: of a completed task that is not contested, no errand
  can be left but a refused cancellation, and a run that turns up with it is still
  before its check. This needs no condition on faults: `contested` is computed from
  who else had the task at the moment of completion.
* `SlotsAreGivenBack`. `OneEach` and `SlotInv`: a worker has one run, its counter is
  1 or 0 by the run's `pc`, and what the run is about to write back is what it would
  read again.

**ConsensusProofs.** `TypeCorrect`. `Agreement` (strategy all or majority): every
stored vote was cast, and every result a run, the record or recovery holds had
enough backers when it was found; `cast` only grows, so it still has. The
property alone is not inductive: the result is carried by `verdict` and `kept`
across other workers' steps. Before a recovery: `WithinQuorum`, since only those who
counted themselves within the quorum take the task and vote. `FailureHasAReason`:
who is about to fail the task has seen as many votes as the quorum, which are all
there can be, and no answer won, so two differ or one is an error.
`OutcomeIsOne`: a verdict holds for good. A majority of the quorum stays one
whoever votes later, and two majorities share a voter; a disagreement is
seen only when all votes are in, since each taker votes once.

**TaskSchedulerProofs.** `LockOutlivesActing` and `OneProtected`: a protected
loop owns the lock, whose remaining life is TTL less the time since its
heartbeat; two such loops would both own it. `MutualExclusion` assumes
`Half + MaxDelay < TTL`, under which no loop ever lapses, and concludes that at
most one loop acts, without exception. `EntriesAreKept`: a loop at its ZREM has
seen its task promoted or gone, and no operation ever makes a task pending
again. `SchedulerImplementsLease` is the refinement: every command, crash, stop
and tick is a step of the lease or leaves it alone, given the lock invariant and
the types. `CoverIsExclusive`: a lease never covers two clients. With the
refinement, what the compare scripts promise: a loop whose lock has passed to
another neither renews nor releases it, since the lease has no such step.

**WorkerPoolProofs.** `RecordsAreTyped`: where a call is about to write, it has a
copy to write. `LoadsAreExact` and `TasksAreFindable` share one invariant, whose
parts need each other. A load is adjusted in one command and the list in another, so
`LoadIsExact` counts the calls between the two; but the code clamps a load at zero
and LREM ignores an entry that is not there, and nothing in the property says that
neither happens. `Own` does: each job between its LPUSH and its LREM owns an entry.
A disconnect deletes a whole list under the jobs it takes for dead, which then own
nothing; their task is `muddled` or their worker `blurred` by then, which is what
`Kept` has to show. It says of each task that is not `muddled`: a disconnect under
way on a worker whose jobs hold the task has read the task's entry (`Seen`), and
will put it back before its DEL; and a task that waits (neither on the queue nor
completed) has, on the list of a worker that is still checked, an entry that no job
is about to remove (`Spare`). The last is how a job that dies anywhere leaves
its task findable. To count, a lemma per kind of step says which
calls join or leave the set of those at given steps (`ForMoved`, `HavingMoved`), and
`Entries` gains or loses one element with LPUSH and LREM (`Pushed`, `Removed`). TLC
has checked the invariant on the instance of `worker` before it was proved. The proof
also showed that `Findable` holds while a job is still at its task, which it had
excused before, and that neither needs finitely many tasks.

**ResourceProofs, the connection pool.** `PoolTypesCorrect`, `NeverShared`: the
invariant adds that held, idle and used connections are opened ones, so that a new
one is nobody's. `LimitKept`: until a drain, connections that are idle, held or on
their way are at most `total`, and `total` with the warm-ups that have looked at it
already stays within max and one for each warm-up.

**ResourceProofs, the metrics.** `CollectorTypesCorrect`. `NewestAreKept`: the
invariant adds that what a loop has on its list of old keys is outdated
(maxSnapshots newer ones were stored), which a stale list stays, because snapshots
only become older. `WindowStaysBounded`: a capture that has read its list will leave
what it listed as new and what others stored after that; each of those has a capture
of its own under way or cut short. Who stored after whose list is an order
(`Ordered`), and the last to end leaves nothing behind.

What is only model-checked, and why:

* liveness (`WaitersServed`, `DueHandled`, `EveryTaskSettles`, `TaskDecided`,
  `StopEndsLoops`), which the prover does not reach;
* the agreement of the weighted strategy, which does not hold as promised (see
  above), and whose sums of weights are folds: facts about them need induction
  over data.

## Not modelled

* Cron jobs, hooks, callbacks, templates: a synchronous step on a table in memory,
  or calls whose outcome nothing depends on.
* The cost order in which `getAvailableWorkers` returns the workers (whom it returns is
  `Available` in `TaskExecutor`), and the forecasts of cost, which only read.
  Auto-scaling is a decision with one cooldown stamp in memory, and provisions
  nothing.
* Cycle detection (`_detectDependencyCycle`): a new task's id is a fresh uuid that no
  stored task can name, and dependencies are never edited, so there is no cycle for
  it to find.
* `configureRateLimit`: the limit is a constant of `TokenBucket`.
* The API's routes but cancel and batch: each checks a request and makes one call.
  Its task routes pass no metadata, so only callers of the library are billed.
* Logger, compression, and the contents of metrics and SLA reports.

## Limits

* Time is discrete and, in `TaskQueue`, only a choice.
* One queue; in `TaskQueue` scores decide only the order in which a claim looks, so
  the order is left open there, and `Dispatch` has it.
* `TaskQueue` leaves out consensus data, budgets, dependencies, traces and
  compression; `TaskExecutor` leaves out consensus, hooks and callbacks, and its
  workers stay registered; `Consensus` leaves out cancellation and exceptions;
  `WorkerPool` leaves out what `TaskExecutor` has (retries that run out,
  cancellation, expiry, refused costs) and starts after registration.
* Redis itself is taken to be one server that keeps what it answered; failover
  and lost writes are outside.
* Rounding of the token bucket's floating-point numbers is left out.

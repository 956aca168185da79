---------------------------- MODULE TaskScheduler ----------------------------
(***************************************************************************)
(* The polling scheduler, src/services/task-scheduler.ts, with the Redis   *)
(* lock that keeps several instances apart.                                *)
(*                                                                         *)
(* Every call of startScheduler that finds schedulerRunning false starts a *)
(* poll loop; stopScheduler only clears the flag, so after a stop and a    *)
(* start a process may have two loops for a while.  A loop is a chain of   *)
(* Redis commands with an `await` between two of them, and an action is    *)
(* one command.  Time is discrete: the lock's remaining life counts down,  *)
(* and a heartbeat is due every TTL/2.  MaxDelay says how late a due       *)
(* heartbeat may reach Redis (a blocked event loop, a slow connection).    *)
(*                                                                         *)
(* The store is seen as its other users leave it: updateTaskStatus is the  *)
(* atomic transaction of module TaskQueue, and workers take due tasks off  *)
(* the queue, start them and complete them.                                *)
(***************************************************************************)
EXTENDS Integers

CONSTANTS
  Tasks,        \* tasks with an entry in "scheduled:tasks"
  Processes,    \* instances of the service
  Loops,        \* poll loops (a bound: at most this many alive at once)
  None,         \* no holder, no task, no process
  TTL,          \* lockTtlSeconds, in ticks
  MaxDelay,     \* how long after it is due a heartbeat may take effect
  MaxTroubles   \* bound: calls of stopScheduler, processes that die and
                \* updateTaskStatus calls that throw, together

Half == TTL \div 2 \* the period of the heartbeat
Statuses == {"pending", "queued", "processing", "completed"}

ASSUME TimeAssumption == TTL \in Nat \ {0} /\ MaxDelay \in Nat
ASSUME BoundsAssumption == MaxTroubles \in Nat
ASSUME NoneAssumption == None \notin Loops \cup Tasks \cup Processes \cup Statuses

VARIABLES
  \* In Redis
  lock,       \* "scheduler:lock": the loop whose lockId it stores, or None
  ttl,        \* its remaining life
  scheduled,  \* "scheduled:tasks": tasks with an entry
  due,        \* those whose score has passed
  status,     \* status of each task's record, None when it is gone
  queue,      \* "queue:<q>"
  \* In the processes
  running,    \* schedulerRunning
  home,       \* the process a loop belongs to
  pc,         \* the next command of a loop
  age,        \* time since the loop's lock was taken or last renewed
  seen,       \* the tasks that were due when the loop read the clock
  todo,       \* dueTasks, then the tasks recoverStaleTasks has found
  cur,        \* the entry the loop is working on
  claimed,    \* tasks a worker has taken off the queue and not yet left
  lapsed,     \* history: loops whose lock ran out in the middle of a poll
  troubles    \* counter for the bound

redis == <<lock, ttl, scheduled, due, status, queue>>
loops == <<pc, age, seen, todo, cur>>
vars == <<redis, running, home, loops, claimed, lapsed, troubles>>

Acting == {"list", "next", "get", "promote", "remove", "scan", "recover", "release"}

\* One more trouble, while the bound allows it.
Trouble == troubles < MaxTroubles /\ troubles' = troubles + 1

\* A loop between the SET that took the lock and its release.
Active(l) == pc[l] \in Acting

Init ==
  /\ lock = None /\ ttl = 0
  /\ scheduled = Tasks /\ due = {}
  /\ status = [t \in Tasks |-> "pending"]
  /\ queue = Tasks
  /\ running = [p \in Processes |-> FALSE]
  /\ home = [l \in Loops |-> None]
  /\ pc = [l \in Loops |-> "off"]
  /\ age = [l \in Loops |-> 0]
  /\ seen = [l \in Loops |-> {}]
  /\ todo = [l \in Loops |-> {}]
  /\ cur = [l \in Loops |-> None]
  /\ claimed = {} /\ lapsed = {}
  /\ troubles = 0

-----------------------------------------------------------------------------
(* Starting and stopping.                                                  *)

\* startScheduler: a new loop, unless the process is already scheduling.
StartScheduler(p, l) ==
  /\ ~running[p]
  /\ pc[l] = "off"
  /\ running' = [running EXCEPT ![p] = TRUE]
  /\ home' = [home EXCEPT ![l] = p]
  /\ pc' = [pc EXCEPT ![l] = "poll"]
  /\ UNCHANGED <<redis, age, seen, todo, cur, claimed, lapsed, troubles>>

\* stopScheduler: the flag only; loops notice when their timer fires.
StopScheduler(p) ==
  /\ running[p]
  /\ Trouble
  /\ running' = [running EXCEPT ![p] = FALSE]
  /\ UNCHANGED <<redis, home, loops, claimed, lapsed>>

\* The process dies: its loops, their timers and heartbeats go; the lock stays.
Crash(p) ==
  /\ Trouble
  /\ running' = [running EXCEPT ![p] = FALSE]
  /\ LET Unless(dead, f) == [l \in Loops |-> IF home[l] = p THEN dead ELSE f[l]] IN
     /\ pc' = Unless("off", pc) /\ home' = Unless(None, home)
     /\ age' = Unless(0, age) /\ seen' = Unless({}, seen)
     /\ todo' = Unless({}, todo) /\ cur' = Unless(None, cur)
  /\ lapsed' = {l \in lapsed : home[l] # p}
  /\ UNCHANGED <<redis, claimed>>

\* The timer fires after stopScheduler: the loop ends.
Quit(l) ==
  /\ pc[l] = "poll"
  /\ ~running[home[l]]
  /\ pc' = [pc EXCEPT ![l] = "off"]
  /\ home' = [home EXCEPT ![l] = None]
  /\ UNCHANGED <<redis, running, age, seen, todo, cur, claimed, lapsed, troubles>>

-----------------------------------------------------------------------------
(* One poll.                                                               *)

\* Mutant of Free: SET without NX.
Free_NoNX == TRUE

\* SET NX finds no lock.
Free == lock = None

\* The timer fires: read the clock, then SET NX EX; a loop that does not get
\* the lock waits for its next turn (it stays at "poll").
Acquire(l) ==
  /\ pc[l] = "poll"
  /\ running[home[l]]
  /\ Free
  /\ lock' = l /\ ttl' = TTL
  /\ seen' = [seen EXCEPT ![l] = due]
  /\ age' = [age EXCEPT ![l] = 0]
  /\ pc' = [pc EXCEPT ![l] = "list"]
  /\ UNCHANGED <<scheduled, due, status, queue, running, home, todo, cur,
                 claimed, lapsed, troubles>>

\* The interval timer has fired; it is cleared just before the release.
Beating(l) == Active(l) /\ pc[l] # "release" /\ age[l] >= Half

\* The renew script: prolong the lock if it is still this loop's.
Heartbeat(l) ==
  /\ Beating(l)
  /\ age' = [age EXCEPT ![l] = 0]
  /\ ttl' = IF lock = l THEN TTL ELSE ttl
  /\ UNCHANGED <<lock, scheduled, due, status, queue, running, home, pc, seen,
                 todo, cur, claimed, lapsed, troubles>>

\* ZRANGE of the entries due at the time read above.
ListDue(l) ==
  /\ pc[l] = "list"
  /\ todo' = [todo EXCEPT ![l] = seen[l] \cap scheduled]
  /\ seen' = [seen EXCEPT ![l] = {}]
  /\ pc' = [pc EXCEPT ![l] = "next"]
  /\ UNCHANGED <<redis, running, home, age, cur, claimed, lapsed, troubles>>

\* The loop over dueTasks: the next entry, or on to recoverStaleTasks.
NextEntry(l) ==
  /\ pc[l] = "next"
  /\ \/ \E t \in todo[l] :
          /\ cur' = [cur EXCEPT ![l] = t]
          /\ todo' = [todo EXCEPT ![l] = @ \ {t}]
          /\ pc' = [pc EXCEPT ![l] = "get"]
     \/ /\ todo[l] = {}
        /\ cur' = [cur EXCEPT ![l] = None]
        /\ pc' = [pc EXCEPT ![l] = "scan"]
        /\ UNCHANGED todo
  /\ UNCHANGED <<redis, running, home, age, seen, claimed, lapsed, troubles>>

\* getTask: a record to promote, or only an entry to drop.
GetTask(l) ==
  /\ pc[l] = "get"
  /\ pc' = [pc EXCEPT ![l] = IF status[cur[l]] # None THEN "promote" ELSE "remove"]
  /\ UNCHANGED <<redis, running, home, age, seen, todo, cur, claimed, lapsed, troubles>>

\* updateTaskStatus(taskId, 'queued'), whatever the status is by now; throws
\* when the record has gone.
Promote(l) ==
  /\ pc[l] = "promote"
  /\ LET t == cur[l] IN
     IF status[t] # None
     THEN /\ status' = [status EXCEPT ![t] = "queued"]
          /\ pc' = [pc EXCEPT ![l] = "remove"]
     ELSE /\ pc' = [pc EXCEPT ![l] = "next"]
          /\ UNCHANGED status
  /\ UNCHANGED <<lock, ttl, scheduled, due, queue, running, home, age, seen,
                 todo, cur, claimed, lapsed, troubles>>

\* Mutant of AfterFailure: the catch is below the removal of the entry.
AfterFailure_Drop == "remove"

\* updateTaskStatus throws (five conflicts, a refused command): the catch
\* leaves the entry for the next poll.
AfterFailure == "next"

PromoteFails(l) ==
  /\ pc[l] = "promote"
  /\ Trouble
  /\ pc' = [pc EXCEPT ![l] = AfterFailure]
  /\ UNCHANGED <<redis, running, home, age, seen, todo, cur, claimed, lapsed>>

\* ZREM of the entry.
RemoveEntry(l) ==
  /\ pc[l] = "remove"
  /\ scheduled' = scheduled \ {cur[l]}
  /\ pc' = [pc EXCEPT ![l] = "next"]
  /\ UNCHANGED <<lock, ttl, due, status, queue, running, home, age, seen, todo,
                 cur, claimed, lapsed, troubles>>

\* recoverStaleTasks: the tasks in status processing ...
ScanStale(l) ==
  /\ pc[l] = "scan"
  /\ todo' = [todo EXCEPT ![l] = {t \in Tasks : status[t] = "processing"}]
  /\ pc' = [pc EXCEPT ![l] = "recover"]
  /\ UNCHANGED <<redis, running, home, age, seen, cur, claimed, lapsed, troubles>>

\* ... of which those that have been so for too long go back to the queue.
Recover(l) ==
  /\ pc[l] = "recover"
  /\ \/ \E t \in todo[l] :
          /\ todo' = [todo EXCEPT ![l] = @ \ {t}]
          /\ \/ UNCHANGED <<status, queue>>
             \/ /\ status[t] = "processing"
                /\ status' = [status EXCEPT ![t] = "queued"]
                /\ queue' = queue \cup {t}
          /\ UNCHANGED pc
     \/ /\ todo[l] = {}
        /\ pc' = [pc EXCEPT ![l] = "release"]
        /\ UNCHANGED <<todo, status, queue>>
  /\ UNCHANGED <<lock, ttl, scheduled, due, running, home, age, seen, cur,
                 claimed, lapsed, troubles>>

\* Mutant of Owns: DEL without comparing.
Owns_NoCompare(l) == TRUE

\* The release script compares first.
Owns(l) == lock = l

\* The release script (in the `finally`): delete the lock if it is still this
\* loop's; then wait for the next poll.
Release(l) ==
  /\ pc[l] = "release"
  /\ lock' = IF Owns(l) THEN None ELSE lock
  /\ ttl' = IF Owns(l) THEN 0 ELSE ttl
  /\ age' = [age EXCEPT ![l] = 0]
  /\ pc' = [pc EXCEPT ![l] = "poll"]
  /\ lapsed' = lapsed \ {l}
  /\ UNCHANGED <<scheduled, due, status, queue, running, home, seen, todo, cur,
                 claimed, troubles>>

-----------------------------------------------------------------------------
(* Time, and the other users of the store.                                 *)

\* Mutant of Spent: the lock was set without EX.
Spent_NoExpiry == 0

\* How much of the lock's life a tick takes.
Spent == 1

\* A tick of the clock; no heartbeat, and no release instead of one, is later
\* than MaxDelay.
Tick ==
  /\ lock # None
  /\ \A l \in Loops : Active(l) => age[l] < Half + MaxDelay
  /\ age' = [l \in Loops |-> IF Active(l) THEN age[l] + 1 ELSE age[l]]
  /\ ttl' = ttl - Spent
  /\ lock' = IF ttl' = 0 THEN None ELSE lock
  /\ lapsed' = IF ttl' = 0 THEN lapsed \cup {l \in Loops : Active(l) /\ lock = l}
                          ELSE lapsed
  /\ UNCHANGED <<scheduled, due, status, queue, running, home, pc, seen, todo,
                 cur, claimed, troubles>>

\* The score of an entry passes; it is the task's scheduledFor, too.
FallDue(t) ==
  /\ t \in scheduled \ due
  /\ due' = due \cup {t}
  /\ UNCHANGED <<lock, ttl, scheduled, status, queue, running, home, loops,
                 claimed, lapsed, troubles>>

\* A worker takes a task whose time has come off the queue ...
WorkerClaims(t) ==
  /\ t \in due \cap queue
  /\ status[t] # None
  /\ queue' = queue \ {t}
  /\ claimed' = claimed \cup {t}
  /\ UNCHANGED <<lock, ttl, scheduled, due, status, running, home, loops, lapsed,
                 troubles>>

\* ... marks it processing ...
WorkerStarts(t) ==
  /\ t \in claimed
  /\ status[t] \notin {"completed", None}
  /\ status' = [status EXCEPT ![t] = "processing"]
  /\ UNCHANGED <<lock, ttl, scheduled, due, queue, running, home, loops, claimed,
                 lapsed, troubles>>

\* ... and completes it if that is still its status when the handler ends.
WorkerEnds(t) ==
  /\ t \in claimed
  /\ status' = IF status[t] = "processing" THEN [status EXCEPT ![t] = "completed"]
                                           ELSE status
  /\ claimed' = claimed \ {t}
  /\ UNCHANGED <<lock, ttl, scheduled, due, queue, running, home, loops, lapsed,
                 troubles>>

\* The record of a finished task is cleaned up.
RecordGoes(t) ==
  /\ status[t] = "completed"
  /\ status' = [status EXCEPT ![t] = None]
  /\ UNCHANGED <<lock, ttl, scheduled, due, queue, running, home, loops, claimed,
                 lapsed, troubles>>

-----------------------------------------------------------------------------
PollStep(l) ==
  \/ Acquire(l) \/ ListDue(l) \/ NextEntry(l) \/ GetTask(l)
  \/ Promote(l) \/ PromoteFails(l) \/ RemoveEntry(l)
  \/ ScanStale(l) \/ Recover(l) \/ Release(l)

Worker(t) == WorkerClaims(t) \/ WorkerStarts(t) \/ WorkerEnds(t) \/ RecordGoes(t)

Next ==
  \/ \E p \in Processes, l \in Loops : StartScheduler(p, l)
  \/ \E p \in Processes : StopScheduler(p) \/ Crash(p)
  \/ \E l \in Loops : PollStep(l) \/ Quit(l) \/ Heartbeat(l)
  \/ \E t \in Tasks : FallDue(t) \/ Worker(t)
  \/ Tick

Spec == Init /\ [][Next]_vars

\* Redis answers every command, timers fire, a stopped or dead process is
\* started again (the deployment restarts it), and time passes.
Fairness ==
  /\ \A l \in Loops :
       WF_vars(PollStep(l)) /\ WF_vars(Quit(l)) /\ WF_vars(Heartbeat(l))
  /\ \A p \in Processes : WF_vars(\E l \in Loops : StartScheduler(p, l))
  /\ WF_vars(Tick)

FairSpec == Spec /\ Fairness

-----------------------------------------------------------------------------
LoopStates == {"off", "poll"} \cup Acting

\* The state keeps its types, and the lock's life its bounds.
TypeOK ==
  /\ lock \in Loops \cup {None}
  /\ ttl \in 0 .. TTL
  /\ scheduled \subseteq Tasks /\ due \subseteq Tasks /\ queue \subseteq Tasks
  /\ status \in [Tasks -> Statuses \cup {None}]
  /\ running \in [Processes -> BOOLEAN]
  /\ home \in [Loops -> Processes \cup {None}]
  /\ pc \in [Loops -> LoopStates]
  /\ age \in [Loops -> Nat]
  /\ seen \in [Loops -> SUBSET Tasks] /\ todo \in [Loops -> SUBSET Tasks]
  /\ cur \in [Loops -> Tasks \cup {None}]
  /\ claimed \subseteq Tasks /\ lapsed \subseteq Loops
  /\ troubles \in 0 .. MaxTroubles

\* A loop in the middle of a poll whose lock has not run out under it.
Protected(l) == Active(l) /\ l \notin lapsed

\* Two schedulers act at a time only if one of them was paused past the life
\* of its lock, over crashes, stops and restarts: no other way leads two loops
\* between taking the lock and releasing it.
OneActs == \A l, m \in Loops : Protected(l) /\ Protected(m) => l = m

\* What makes it so: the lock of such a loop has exactly as much life left as
\* its last heartbeat gave it, so nobody else can have renewed or shortened it.
LockCovers ==
  \A l \in Loops : Protected(l) => lock = l /\ ttl = TTL - age[l]

\* "Only one scheduler acts at a time", without exception: what holds as long
\* as heartbeats are late by less than the slack (Half + MaxDelay < TTL).
Exclusion == \A l, m \in Loops : Active(l) /\ Active(m) => l = m

\* An entry leaves the schedule only when its task has been promoted or is
\* gone: a failed promotion or a crash between the two commands repeats it.
NoEntryLost ==
  [][\A t \in scheduled \ scheduled' : status[t] # "pending"]_vars

\* Every entry that falls due is handled in the end, although processes stop
\* or die with the lock in hand and promotions fail.
DueHandled == \A t \in Tasks : t \in due ~> t \notin scheduled

-----------------------------------------------------------------------------
L == INSTANCE Lease WITH Clients <- Loops, holder <- lock, left <- ttl,
                         covered <- {l \in Loops : Protected(l)}

\* The commands of startScheduler implement a lease over every delay, crash,
\* stop and restart: a lock is taken only when free and for its whole life,
\* prolonged and given back only by a loop it still covers (the compare
\* scripts), otherwise it ends only by running out, and then covers nobody.
ImplementsLease == L!Spec
=============================================================================

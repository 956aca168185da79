------------------------- MODULE TaskSchedulerProofs -------------------------
(***************************************************************************)
(* Proofs about TaskScheduler for any number of processes, loops and tasks *)
(* and any lock lifetime: two loops act together only when one was paused  *)
(* past the life of its lock, and the lock implements module Lease.        *)
(***************************************************************************)
EXTENDS TaskScheduler, TLAPS

\* The period of the heartbeat is a number.
LEMMA HalfType == Half \in Nat
  BY TimeAssumption DEF Half

\* What a heartbeat is counted on for: the lock and the clocks are typed, and
\* a protected loop owns the lock, which has lived since that loop's last
\* heartbeat.
LockInv ==
  /\ lock \in Loops \cup {None}
  /\ ttl \in Int
  /\ pc \in [Loops -> LoopStates]
  /\ age \in [Loops -> Nat]
  /\ \A l \in Loops : Protected(l) => lock = l /\ ttl = TTL - age[l]

\* A protected loop leaves no room for a second one: both would own the lock.
LEMMA CoversExcludes == LockInv => OneActs /\ LockCovers
  BY DEF LockInv, OneActs, LockCovers

LEMMA LockInit == Init => LockInv
  BY DEF Init, LockInv, LoopStates, Protected, Active, Acting

\* A loop that goes on without touching the lock or its clock.
LEMMA GoesOn ==
  ASSUME LockInv, NEW l \in Loops, Active(l), NEW step \in Acting,
         pc' = [pc EXCEPT ![l] = step], UNCHANGED <<lock, ttl, age, lapsed>>
  PROVE  LockInv'
  BY DEF LockInv, Protected, Active, LoopStates

LEMMA LockNext == LockInv /\ [Next]_vars => LockInv'
<1> SUFFICES ASSUME LockInv, [Next]_vars PROVE LockInv'
  OBVIOUS
<1> USE HalfType, TimeAssumption, NoneAssumption
<1>1. ASSUME NEW p \in Processes, NEW l \in Loops, StartScheduler(p, l)
      PROVE  LockInv'
  BY <1>1 DEF LockInv, StartScheduler, redis, Protected, Active, Acting, LoopStates
<1>2. ASSUME NEW p \in Processes, StopScheduler(p) PROVE LockInv'
  BY <1>2 DEF LockInv, StopScheduler, redis, loops, Protected, Active
<1>3. ASSUME NEW p \in Processes, Crash(p) PROVE LockInv'
  BY <1>3 DEF LockInv, Crash, redis, Protected, Active, Acting, LoopStates
<1>4. ASSUME NEW l \in Loops, Quit(l) PROVE LockInv'
  BY <1>4 DEF LockInv, Quit, redis, Protected, Active, Acting, LoopStates
<1>5. ASSUME NEW l \in Loops, Acquire(l) PROVE LockInv'
  <2>1. \A m \in Loops : ~Protected(m)
    BY <1>5 DEF Acquire, Free, LockInv
  <2>2. pc' = [pc EXCEPT ![l] = "list"] /\ age' = [age EXCEPT ![l] = 0]
    BY <1>5 DEF Acquire
  <2>3. lock' = l /\ ttl' = TTL /\ lapsed' = lapsed
    BY <1>5 DEF Acquire
  <2> QED
    BY <2>1, <2>2, <2>3 DEF LockInv, Protected, Active, Acting, LoopStates
<1>6. ASSUME NEW l \in Loops, Heartbeat(l) PROVE LockInv'
  BY <1>6 DEF LockInv, Heartbeat, Beating, Protected, Active
<1>7. ASSUME NEW l \in Loops, PollStep(l), ~Acquire(l) PROVE LockInv'
  <2>1. CASE ListDue(l)
    BY <2>1, GoesOn DEF ListDue, redis, Active, Acting
  <2>2. CASE NextEntry(l)
    BY <2>2, GoesOn DEF NextEntry, redis, Active, Acting
  <2>3. CASE GetTask(l)
    BY <2>3, GoesOn DEF GetTask, redis, Active, Acting
  <2>4. CASE Promote(l)
    BY <2>4, GoesOn DEF Promote, Active, Acting
  <2>5. CASE PromoteFails(l)
    BY <2>5, GoesOn DEF PromoteFails, AfterFailure, redis, Active, Acting
  <2>6. CASE RemoveEntry(l)
    BY <2>6, GoesOn DEF RemoveEntry, Active, Acting
  <2>7. CASE ScanStale(l)
    BY <2>7, GoesOn DEF ScanStale, redis, Active, Acting
  <2>8. CASE Recover(l)
    BY <2>8, GoesOn DEF Recover, Active, Acting, LockInv
  <2>9. CASE Release(l)
    BY <2>9 DEF Release, Owns, LockInv, Protected, Active, Acting, LoopStates
  <2> QED
    BY <1>7, <2>1, <2>2, <2>3, <2>4, <2>5, <2>6, <2>7, <2>8, <2>9 DEF PollStep
<1>8. ASSUME NEW t \in Tasks, FallDue(t) \/ Worker(t) PROVE LockInv'
  BY <1>8 DEF LockInv, FallDue, Worker, WorkerClaims, WorkerStarts, WorkerEnds,
              RecordGoes, loops, Protected, Active
<1>9. ASSUME Tick PROVE LockInv'
  <2>1. \A l \in Loops : Protected(l)' => lock' = l /\ ttl' = TTL - age'[l]
    <3> SUFFICES ASSUME NEW l \in Loops, Protected(l)'
                 PROVE  lock' = l /\ ttl' = TTL - age'[l]
      OBVIOUS
    <3>1. Active(l) /\ l \notin lapsed'
      BY <1>9 DEF Tick, Protected, Active
    <3>2. l \notin lapsed
      BY <1>9, <3>1 DEF Tick
    <3>3. lock = l /\ ttl = TTL - age[l] /\ age[l] \in Nat
      BY <3>1, <3>2 DEF LockInv, Protected
    <3>4. ttl # 1
      BY <1>9, <3>1, <3>3 DEF Tick, Spent
    <3>5. age'[l] = age[l] + 1
      BY <1>9, <3>1 DEF Tick
    <3> QED
      BY <1>9, <3>3, <3>4, <3>5 DEF Tick, Spent
  <2>2. pc' = pc /\ age' \in [Loops -> Nat] /\ ttl' \in Int /\ lock' \in Loops \cup {None}
    BY <1>9 DEF Tick, Spent, LockInv
  <2> QED
    BY <2>1, <2>2 DEF LockInv
<1>10. CASE UNCHANGED vars
  BY <1>10 DEF LockInv, vars, redis, loops, Protected, Active
<1> QED
  BY <1>1, <1>2, <1>3, <1>4, <1>5, <1>6, <1>7, <1>8, <1>9, <1>10 DEF Next

\* The lock of a loop that is not paused past its life has the life its last
\* heartbeat gave it (the renew script), for any delays.
THEOREM LockOutlivesActing == Spec => []LockCovers
  BY LockInit, LockNext, CoversExcludes, PTL DEF Spec

\* Two loops act together only after a pause longer than the lock's life.
THEOREM OneProtected == Spec => []OneActs
  BY LockInit, LockNext, CoversExcludes, PTL DEF Spec

\* With heartbeats that are late by less than the slack no lock runs out under
\* its loop.
Punctual ==
  /\ lapsed = {}
  /\ \A l \in Loops : Active(l) => age[l] =< Half + MaxDelay

LEMMA PunctualNext ==
  ASSUME Half + MaxDelay < TTL, LockInv, Punctual, [Next]_vars
  PROVE  Punctual'
<1> USE HalfType, TimeAssumption
<1>1. CASE Tick
  <2>1. \A l \in Loops : Active(l) => age[l] < Half + MaxDelay /\ age'[l] = age[l] + 1
    BY <1>1 DEF Tick
  <2>2. \A l \in Loops : Active(l) /\ lock = l => ttl # 1
    BY <2>1 DEF LockInv, Punctual, Protected
  <2>3. lapsed' = {}
    BY <1>1, <2>2 DEF Tick, Spent, Punctual
  <2>4. pc' = pc
    BY <1>1 DEF Tick
  <2>5. \A l \in Loops : Active(l) => age'[l] =< Half + MaxDelay
    BY <2>1 DEF LockInv
  <2> QED
    BY <2>3, <2>4, <2>5 DEF Punctual, Active
<1>2. ASSUME NEW l \in Loops, Acquire(l) \/ Heartbeat(l) \/ Release(l) PROVE Punctual'
  BY <1>2 DEF Punctual, LockInv, Acquire, Heartbeat, Beating, Release,
              Active, Acting
<1>3. ASSUME NEW p \in Processes, Crash(p) PROVE Punctual'
  BY <1>3 DEF Punctual, LockInv, Crash, Active, Acting
<1>4. ASSUME NEW l \in Loops,
             \/ ListDue(l) \/ NextEntry(l) \/ GetTask(l) \/ Promote(l)
             \/ PromoteFails(l) \/ RemoveEntry(l) \/ ScanStale(l) \/ Recover(l)
      PROVE  Punctual'
  BY <1>4 DEF Punctual, LockInv, Active, Acting, ListDue, NextEntry, GetTask, Promote,
              PromoteFails, AfterFailure, RemoveEntry, ScanStale, Recover
<1>5. ASSUME NEW l \in Loops, Quit(l) \/ \E p \in Processes : StartScheduler(p, l)
      PROVE  Punctual'
  BY <1>5 DEF Punctual, LockInv, Active, Acting, Quit, StartScheduler
<1>6. ASSUME \/ \E p \in Processes : StopScheduler(p)
             \/ \E t \in Tasks : FallDue(t) \/ Worker(t)
             \/ UNCHANGED vars
      PROVE  Punctual'
  BY <1>6 DEF Punctual, Active, StopScheduler, FallDue, Worker, WorkerClaims,
              WorkerStarts, WorkerEnds, RecordGoes, vars, loops
<1> QED
  BY <1>1, <1>2, <1>3, <1>4, <1>5, <1>6 DEF Next, PollStep

\* Only one scheduler acts at a time, without exception, as long as heartbeats
\* are late by less than the slack (startScheduler renews after half the
\* lock's life).
THEOREM MutualExclusion ==
  ASSUME Half + MaxDelay < TTL
  PROVE  Spec => []Exclusion
<1>1. Init => LockInv /\ Punctual
  BY LockInit DEF Init, Punctual, Active, Acting
<1>2. LockInv /\ Punctual /\ [Next]_vars => LockInv' /\ Punctual'
  BY LockNext, PunctualNext
<1>3. LockInv /\ Punctual => Exclusion
  BY DEF LockInv, Punctual, Protected, Exclusion
<1> QED
  BY <1>1, <1>2, <1>3, PTL DEF Spec

\* What the lease needs besides: a lock with a holder has life left, and a loop
\* whose lock ran out in the middle of a poll is still in that poll and does
\* not own the lock.
TypeInv ==
  /\ TypeOK
  /\ lock # None => ttl > 0
  /\ \A l \in lapsed : Active(l) /\ lock # l

LEMMA TypeInit == Init => TypeInv
  BY TimeAssumption, BoundsAssumption, NoneAssumption
     DEF Init, TypeInv, TypeOK, LoopStates, Statuses, Active, Acting

LEMMA TypeNext == TypeInv /\ [Next]_vars => TypeInv'
<1> SUFFICES ASSUME TypeInv, [Next]_vars PROVE TypeInv'
  OBVIOUS
<1> USE HalfType, TimeAssumption, BoundsAssumption, NoneAssumption
        DEF TypeInv, TypeOK, LoopStates, Statuses, Active, Acting
<1>1. ASSUME NEW p \in Processes, NEW l \in Loops, StartScheduler(p, l)
      PROVE  TypeInv'
  BY <1>1 DEF StartScheduler, redis
<1>2. ASSUME NEW p \in Processes, StopScheduler(p) PROVE TypeInv'
  BY <1>2 DEF StopScheduler, Trouble, redis, loops
<1>3. ASSUME NEW p \in Processes, Crash(p) PROVE TypeInv'
  BY <1>3 DEF Crash, Trouble, redis
<1>4. ASSUME NEW l \in Loops, Acquire(l) \/ Release(l) PROVE TypeInv'
  BY <1>4 DEF Acquire, Free, Release, Owns
<1>5. ASSUME NEW l \in Loops, Quit(l) \/ Heartbeat(l) PROVE TypeInv'
  BY <1>5 DEF Quit, Heartbeat, Beating, redis
<1>6. ASSUME NEW l \in Loops, ListDue(l) \/ NextEntry(l) \/ GetTask(l)
      PROVE  TypeInv'
  BY <1>6 DEF ListDue, NextEntry, GetTask, redis
<1>7. ASSUME NEW l \in Loops, Promote(l) \/ PromoteFails(l) \/ RemoveEntry(l)
      PROVE  TypeInv'
  BY <1>7 DEF Promote, PromoteFails, AfterFailure, Trouble, RemoveEntry, redis
<1>8. ASSUME NEW l \in Loops, ScanStale(l) \/ Recover(l) PROVE TypeInv'
  BY <1>8 DEF ScanStale, Recover, redis
<1>9. ASSUME NEW t \in Tasks, FallDue(t) \/ Worker(t) PROVE TypeInv'
  BY <1>9 DEF FallDue, Worker, WorkerClaims, WorkerStarts, WorkerEnds, RecordGoes, loops
<1>10. CASE Tick
  BY <1>10 DEF Tick, Spent
<1>11. CASE UNCHANGED vars
  BY <1>11 DEF vars, redis, loops
<1> QED
  BY <1>1, <1>2, <1>3, <1>4, <1>5, <1>6, <1>7, <1>8, <1>9, <1>10, <1>11
     DEF Next, PollStep

\* Every variable keeps its type; the lock's life never leaves 0 .. TTL.
THEOREM TypesCorrect == Spec => []TypeOK
<1>1. TypeInv => TypeOK
  BY DEF TypeInv
<1> QED
  BY <1>1, TypeInit, TypeNext, PTL DEF Spec

-----------------------------------------------------------------------------
(* Entries of the schedule.                                                *)

\* The loop that is about to remove an entry found its record gone or promoted
\* the task, and no task is ever pending again.
EntryInv ==
  \A l \in Loops :
    /\ pc[l] \in {"get", "promote", "remove"} => cur[l] \in Tasks
    /\ pc[l] = "remove" => status[cur[l]] # "pending"

LEMMA EntryInit == Init => EntryInv
  BY DEF Init, EntryInv

\* No operation makes a task pending.
LEMMA NeverPendingAgain ==
  ASSUME TypeInv, [Next]_vars, NEW t \in Tasks, status[t] # "pending"
  PROVE  status'[t] # "pending"
<1> USE DEF TypeInv, TypeOK
<1>1. ASSUME NEW l \in Loops, PollStep(l) PROVE status'[t] # "pending"
  BY <1>1, NoneAssumption DEF PollStep, Acquire, ListDue, NextEntry, GetTask, Promote, PromoteFails,
     RemoveEntry, ScanStale, Recover, Release, redis
<1>2. ASSUME NEW u \in Tasks, FallDue(u) \/ WorkerClaims(u) \/ WorkerStarts(u) \/ WorkerEnds(u)
      PROVE  status'[t] # "pending"
  BY <1>2 DEF FallDue, WorkerClaims, WorkerStarts, WorkerEnds
<1>3. ASSUME NEW u \in Tasks, RecordGoes(u) PROVE status'[t] # "pending"
  BY <1>3, NoneAssumption DEF RecordGoes, Statuses
<1> QED
  BY <1>1, <1>2, <1>3 DEF Next, Worker, StartScheduler, StopScheduler, Crash, Quit, Heartbeat, Tick,
     vars, redis

LEMMA EntryNext == TypeInv /\ EntryInv /\ [Next]_vars => EntryInv'
<1> SUFFICES ASSUME TypeInv, EntryInv, [Next]_vars PROVE EntryInv'
  OBVIOUS
<1>1. \A t \in Tasks : status[t] # "pending" => status'[t] # "pending"
  BY NeverPendingAgain
<1>2. ASSUME UNCHANGED <<pc, cur>> PROVE EntryInv'
  BY <1>1, <1>2 DEF EntryInv
<1> USE DEF TypeInv, TypeOK, LoopStates, Acting
<1>3. ASSUME NEW l \in Loops, PollStep(l) PROVE EntryInv'
  <2>1. CASE GetTask(l)
    BY <1>1, <2>1, NoneAssumption DEF GetTask, redis, EntryInv, Statuses
  <2>2. CASE Promote(l)
    <3>1. cur[l] \in Tasks BY <2>2 DEF Promote, EntryInv
    <3> QED BY <1>1, <2>2, <3>1 DEF Promote, EntryInv
  <2>3. CASE NextEntry(l)
    BY <1>1, <2>3 DEF NextEntry, EntryInv
  <2>4. CASE Acquire(l) \/ ListDue(l) \/ PromoteFails(l) \/ RemoveEntry(l) \/ ScanStale(l)
             \/ Recover(l) \/ Release(l)
    BY <1>1, <2>4 DEF Acquire, ListDue, PromoteFails, AfterFailure, RemoveEntry, ScanStale,
       Recover, Release, EntryInv
  <2> QED BY <1>3, <2>1, <2>2, <2>3, <2>4 DEF PollStep
<1>4. ASSUME NEW l \in Loops, Quit(l) \/ \E p \in Processes : StartScheduler(p, l)
      PROVE  EntryInv'
  BY <1>1, <1>4 DEF Quit, StartScheduler, EntryInv
<1>5. ASSUME NEW p \in Processes, Crash(p) PROVE EntryInv'
  BY <1>1, <1>5 DEF Crash, EntryInv
<1> QED
  BY <1>2, <1>3, <1>4, <1>5 DEF Next, StopScheduler, Heartbeat, FallDue, Worker, WorkerClaims,
     WorkerStarts, WorkerEnds, RecordGoes, Tick, vars, loops

\* An entry leaves the schedule only when its task has been promoted or is
\* gone, whatever fails or dies between the promotion and the ZREM, and with
\* any number of loops at it at the same time.
THEOREM EntriesAreKept == Spec => NoEntryLost
<1>1. EntryInv /\ [Next]_vars => [\A t \in scheduled \ scheduled' : status[t] # "pending"]_vars
  <2> SUFFICES ASSUME EntryInv, [Next]_vars,
                      NEW t \in scheduled, t \notin scheduled'
               PROVE  status[t] # "pending"
    OBVIOUS
  <2>1. PICK l \in Loops : RemoveEntry(l)
    BY DEF Next, PollStep, StartScheduler, StopScheduler, Crash, Quit, Heartbeat, Acquire, ListDue,
       NextEntry, GetTask, Promote, PromoteFails, ScanStale, Recover, Release, Tick, FallDue, Worker,
       WorkerClaims, WorkerStarts, WorkerEnds, RecordGoes, vars, redis
  <2> QED
    BY <2>1 DEF RemoveEntry, EntryInv
<1> QED
  BY <1>1, TypeInit, TypeNext, EntryInit, EntryNext, PTL DEF Spec, NoEntryLost

-----------------------------------------------------------------------------
(* The lease.                                                              *)

\* The loops a lease covers, in the state and in the next one.
LEMMA CoverSame ==
  ASSUME UNCHANGED <<pc, lapsed>>
  PROVE  {l \in Loops : Protected(l)}' = {l \in Loops : Protected(l)}
  BY DEF Protected, Active

\* A step of one loop that stays active or stays idle.
LEMMA CoverGoesOn ==
  ASSUME TypeInv, NEW l \in Loops, NEW step \in LoopStates,
         pc' = [pc EXCEPT ![l] = step], Active(l) <=> step \in Acting,
         UNCHANGED lapsed
  PROVE  {m \in Loops : Protected(m)}' = {m \in Loops : Protected(m)}
  BY DEF TypeInv, TypeOK, Protected, Active

\* The scheduler implements a lease (module Lease): every command, crash, stop
\* and tick is a step of the lease or leaves it alone, for any numbers and
\* delays.
THEOREM SchedulerImplementsLease == Spec => ImplementsLease
<1>1. Init => L!Init
  BY DEF Init, L!Init, Protected, Active, Acting
<1>2. TypeInv /\ LockInv /\ [Next]_vars => [L!Next]_(L!vars)
  <2> SUFFICES ASSUME TypeInv, LockInv, [Next]_vars
               PROVE  L!Next \/ UNCHANGED L!vars
    OBVIOUS
  <2> DEFINE cover == {l \in Loops : Protected(l)}
  <2> USE NoneAssumption, TimeAssumption
  <2>0. cover \subseteq {lock} \ {None}
    BY DEF LockInv, Protected, TypeInv, TypeOK
  <2>1. ASSUME NEW l \in Loops, Acquire(l) PROVE L!Next
    <3>1. cover' = cover \cup {l}
      BY <2>1 DEF Acquire, Protected, Active, Acting, TypeInv, TypeOK
    <3> QED
      BY <2>1, <3>1 DEF Acquire, Free, L!Next, L!Grant
  <2>2. ASSUME NEW l \in Loops, Heartbeat(l) PROVE L!Next \/ UNCHANGED L!vars
    <3>1. cover' = cover
      BY <2>2, CoverSame DEF Heartbeat
    <3>2. lock = l => l \in cover
      BY <2>2 DEF Heartbeat, Beating, Protected, TypeInv
    <3> QED
      BY <2>2, <3>1, <3>2 DEF Heartbeat, L!Next, L!Renew, L!vars
  <2>3. ASSUME NEW l \in Loops, Release(l) PROVE L!Next \/ UNCHANGED L!vars
    <3>1. cover' = cover \ {l}
      BY <2>3 DEF Release, Protected, Active, Acting, TypeInv, TypeOK
    <3>2. CASE lock = l
      <4>1. l \in cover
        BY <2>3, <3>2 DEF Release, Protected, Active, Acting, TypeInv
      <4> QED
        BY <2>3, <3>1, <3>2, <4>1 DEF Release, Owns, L!Next, L!Return
    <3>3. CASE lock # l
      <4>1. l \notin cover
        BY <3>3, <2>0
      <4> QED
        BY <2>3, <3>1, <3>3, <4>1 DEF Release, Owns, L!vars
    <3> QED
      BY <3>2, <3>3
  <2>4. ASSUME NEW p \in Processes, Crash(p) PROVE L!Next
    <3>1. cover' = cover \ {l \in cover : home[l] = p}
      BY <2>4 DEF Crash, Protected, Active, Acting, TypeInv, TypeOK
    <3> QED
      BY <2>4, <3>1 DEF Crash, redis, L!Next, L!GiveUp
  <2>5. ASSUME Tick PROVE L!Next
    <3>1. pc' = pc /\ ttl' = ttl - 1
      BY <2>5 DEF Tick, Spent
    <3>2. CASE ttl = 1
      <4>1. cover' = cover \ {lock}
        BY <2>5, <3>1, <3>2, <2>0 DEF Tick, Spent, Protected, Active
      <4> QED
        BY <2>5, <3>1, <3>2, <4>1 DEF Tick, Spent, L!Next, L!Elapse
    <3>3. CASE ttl # 1
      <4>1. cover' = cover
        BY <2>5, <3>1, <3>3, CoverSame DEF Tick, Spent, TypeInv, TypeOK
      <4> QED
        BY <2>5, <3>1, <3>3, <4>1 DEF Tick, Spent, TypeInv, TypeOK, L!Next, L!Elapse
    <3> QED
      BY <3>2, <3>3
  <2>6. ASSUME NEW l \in Loops, PollStep(l), ~Acquire(l), ~Release(l)
        PROVE  UNCHANGED L!vars
    <3>1. PICK step \in Acting : pc' = [pc EXCEPT ![l] = step]
      BY <2>6 DEF PollStep, ListDue, NextEntry, GetTask, Promote, PromoteFails,
         AfterFailure, RemoveEntry, ScanStale, Recover, Acting, TypeInv, TypeOK
    <3>2. Active(l) /\ UNCHANGED <<lock, ttl, lapsed>>
      BY <2>6 DEF PollStep, ListDue, NextEntry, GetTask, Promote, PromoteFails,
         RemoveEntry, ScanStale, Recover, Acting, Active, redis
    <3>3. cover' = cover
      BY <3>1, <3>2, CoverGoesOn DEF LoopStates
    <3> QED
      BY <3>2, <3>3 DEF L!vars
  <2>7. ASSUME NEW l \in Loops, Quit(l) \/ \E p \in Processes : StartScheduler(p, l)
        PROVE  UNCHANGED L!vars
    <3>1. cover' = cover
      BY <2>7 DEF Quit, StartScheduler, Protected, Active, Acting, TypeInv, TypeOK
    <3> QED
      BY <2>7, <3>1 DEF Quit, StartScheduler, redis, L!vars
  <2>8. ASSUME \/ \E p \in Processes : StopScheduler(p)
               \/ \E t \in Tasks : FallDue(t) \/ Worker(t)
               \/ UNCHANGED vars
        PROVE  UNCHANGED L!vars
    <3>1. UNCHANGED <<lock, ttl, pc, lapsed>>
      BY <2>8 DEF StopScheduler, FallDue, Worker, WorkerClaims, WorkerStarts,
                  WorkerEnds, RecordGoes, vars, redis, loops
    <3> QED
      BY <3>1, CoverSame DEF L!vars
  <2> QED
    BY <2>1, <2>2, <2>3, <2>4, <2>5, <2>6, <2>7, <2>8 DEF Next
<1> QED
  BY <1>1, <1>2, TypeInit, TypeNext, LockInit, LockNext, PTL DEF Spec, ImplementsLease, L!Spec

\* A lease never covers two clients, so by SchedulerImplementsLease never two
\* loops whose lock has not lapsed ("only one scheduler acts at a time").
THEOREM CoverIsExclusive == L!Spec => [](L!TypeOK /\ L!OnlyHolderCovered)
<1> USE TimeAssumption, NoneAssumption
<1>1. L!Init => L!TypeOK /\ L!OnlyHolderCovered
  BY DEF L!Init, L!TypeOK, L!OnlyHolderCovered
<1>2. L!TypeOK /\ L!OnlyHolderCovered /\ [L!Next]_(L!vars) => (L!TypeOK /\ L!OnlyHolderCovered)'
  BY DEF L!TypeOK, L!OnlyHolderCovered, L!Next, L!vars, L!Grant, L!Renew, L!Return,
         L!GiveUp, L!Elapse
<1> QED
  BY <1>1, <1>2, PTL DEF L!Spec
=============================================================================

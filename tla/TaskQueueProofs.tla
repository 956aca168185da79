---------------------------- MODULE TaskQueueProofs ----------------------------
(***************************************************************************)
(* What holds of the task store for every number of tasks, of overlapping  *)
(* calls and of crashes, whatever operations are issued: no task is lost,  *)
(* handed out twice or counted short.  And of calls that come one after    *)
(* the other: the indices are exact, a dead-lettered task is gone, and no  *)
(* waiting task is off the queue.                                          *)
(***************************************************************************)
EXTENDS TaskQueue, FiniteSetTheorems, TLAPS

\* What a call in progress has in hand at each step.
Good(k) ==
  /\ k.step \notin {"watch", "fetch"} => k.task \in Tasks
  /\ k.step \notin {"watch", "fetch", "unindex"} => k.rec \in Record
  /\ k.step \in {"push", "delete", "forget", "exec"} => k.old \in Status
  /\ k.step = "unindex" /\ k.rec # None => k.old \in Status
  /\ k.step \in {"watch", "exec"} => k.op = "update"
  /\ k.op = "update" => k.arg \in Status

CallsGood == \A c \in Calls : ~Idle(c) => Good(call[c])

TypeInv == TypeOK /\ CallsGood

\* A call that may go on with k: it has returned, or k is well formed.
MayBe(k) == k = None \/ (k \in CallRecord /\ Good(k))

LEMMA InProgress ==
  ASSUME TypeInv, NEW c \in Calls, ~Idle(c)
  PROVE  call[c] \in CallRecord /\ Good(call[c])
BY DEF TypeInv, TypeOK, CallsGood, Idle

LEMMA LeaveTaskOK ==
  ASSUME NEW k \in CallRecord, k.op # "update" \/ k.arg \in Status, NEW rest \in SUBSET Tasks
  PROVE  MayBe(LeaveTask(k, rest))
BY DEF LeaveTask, MayBe, CallRecord, Good, Steps

LEMMA AfterStep == ASSUME NEW k PROVE After(k) \in Steps \cup {"end"}
BY DEF After, AfterPush, Steps

\* The next command of a call finds in hand what it needs.
LEMMA AdvanceOK ==
  ASSUME NEW k \in CallRecord, Good(k), k.step \notin {"watch", "fetch"}
  PROVE  MayBe(IF After(k) = "end" THEN LeaveTask(k, k.todo)
                                   ELSE [k EXCEPT !.step = After(k)])
<1>1. CASE After(k) = "end"
  BY <1>1, LeaveTaskOK DEF CallRecord, Good
<1>2. CASE After(k) # "end"
  <2> DEFINE n == [k EXCEPT !.step = After(k)]
  <2>1. n \in CallRecord BY <1>2, AfterStep DEF CallRecord
  <2>2. Good(n) BY <1>2 DEF CallRecord, Good, After, AfterPush
  <2> QED BY <1>2, <2>1, <2>2 DEF MayBe
<1> QED BY <1>1, <1>2

LEMMA HoldOK ==
  ASSUME NEW k \in CallRecord, Good(k),
         NEW t \in Tasks, NEW step \in Steps \ {"watch", "fetch"},
         NEW rec \in Record, NEW old \in Status,
         step = "exec" => k.op = "update"
  PROVE  MayBe([k EXCEPT !.step = step, !.todo = k.todo \ {t}, !.task = t,
                         !.rec = rec, !.old = old])
BY DEF MayBe, CallRecord, Good

-----------------------------------------------------------------------------
(* Types.                                                                  *)

\* TypeOK without the calls, and with them.
StoreOK ==
  /\ task \in [Tasks -> Record \cup {None}]
  /\ queue \subseteq Tasks /\ taskIndex \subseteq Tasks
  /\ statusIndex \in [Status -> SUBSET Tasks]
  /\ stats \in [Buckets -> Int]
  /\ dlq \in [Tasks -> Nat]
  /\ dirty \subseteq Calls
  /\ known \subseteq Tasks /\ stored \subseteq Tasks
  /\ cleaned \subseteq Tasks /\ expired \subseteq Tasks
  /\ begun \in 0 .. MaxInTurn /\ disturbed \in BOOLEAN /\ crashes \in 0 .. MaxCrashes
  /\ enqueues \in [Tasks -> Nat] /\ claims \in [Tasks -> Nat]

CallsOK == call \in [Calls -> CallRecord \cup {None}] /\ CallsGood

LEMMA TypeParts == TypeInv <=> StoreOK /\ CallsOK
BY DEF TypeInv, TypeOK, StoreOK, CallsOK

LEMMA CallUpdate ==
  ASSUME CallsOK, NEW c \in Calls, NEW n, MayBe(n), call' = [call EXCEPT ![c] = n]
  PROVE  CallsOK'
BY DEF CallsOK, CallsGood, Idle, MayBe

LEMMA AdvanceCalls ==
  ASSUME CallsOK, NEW c \in Calls, ~Idle(c),
         call[c].step \notin {"watch", "fetch"}, Advance(c)
  PROVE  CallsOK'
<1> DEFINE k == call[c]
           n == IF After(k) = "end" THEN LeaveTask(k, k.todo)
                                    ELSE [k EXCEPT !.step = After(k)]
<1>1. k \in CallRecord /\ Good(k) BY DEF CallsOK, CallsGood, Idle
<1>2. MayBe(n) BY <1>1, AdvanceOK
<1>3. call' = [call EXCEPT ![c] = n] BY DEF Advance
<1> HIDE DEF n
<1> QED BY <1>2, <1>3, CallUpdate

LEMMA ThrowCalls ==
  ASSUME CallsOK, NEW c \in Calls, Throw(c)
  PROVE  CallsOK'
BY CallUpdate DEF Throw, MayBe

LEMMA SkipCalls ==
  ASSUME CallsOK, NEW c \in Calls, ~Idle(c), NEW t \in Tasks, Skip(c, t)
  PROVE  CallsOK'
<1> DEFINE k == call[c]
           n == LeaveTask(k, k.todo \ {t})
<1>1. k \in CallRecord /\ Good(k) BY DEF CallsOK, CallsGood, Idle
<1>2. k.todo \ {t} \in SUBSET Tasks /\ (k.op # "update" \/ k.arg \in Status)
  BY <1>1 DEF CallRecord, Good
<1>3. MayBe(n) BY <1>1, <1>2, LeaveTaskOK
<1>4. call' = [call EXCEPT ![c] = n] BY DEF Skip
<1> HIDE DEF n
<1> QED BY <1>3, <1>4, CallUpdate

LEMMA HoldCalls ==
  ASSUME CallsOK, NEW c \in Calls, ~Idle(c), NEW t \in Tasks,
         NEW step \in Steps \ {"watch", "fetch"}, NEW rec \in Record,
         NEW old \in Status, step = "exec" => call[c].op = "update",
         Hold(c, t, step, rec, old)
  PROVE  CallsOK'
<1> DEFINE k == call[c]
           n == [k EXCEPT !.step = step, !.todo = k.todo \ {t}, !.task = t,
                          !.rec = rec, !.old = old]
<1>1. k \in CallRecord /\ Good(k) BY DEF CallsOK, CallsGood, Idle
<1>2. MayBe(n) BY <1>1, HoldOK
<1>3. call' = [call EXCEPT ![c] = n] BY DEF Hold
<1> HIDE DEF n
<1> QED BY <1>2, <1>3, CallUpdate

\* A record as edited by an operation is a record again.
LEMMA EditOK ==
  ASSUME NEW r \in Record, NEW s \in Status
  PROVE  /\ [r EXCEPT !.status = s] \in Record
         /\ Retried(r) \in Record
         /\ r.status \in Status
BY DEF Record, Retried, Status

LEMMA LimitOK ==
  ASSUME NEW r \in Record, NEW limit \in Limits \cup {r.limit}
  PROVE  [r EXCEPT !.limit = limit] \in Record
BY LimitsAssumption DEF Record

\* Beginning a call.
LEMMA StartCalls ==
  ASSUME CallsOK, StoreOK, NEW c \in Calls, Start(c)
  PROVE  CallsOK'
<1>1. ASSUME NEW t \in Tasks, NEW limit \in Limits, BeginCreate(c, t, limit)
      PROVE  CallsOK'
  <2> DEFINE n == [NewCall("create", "store", {}) EXCEPT
                     !.task = t,
                     !.rec = [status |-> "pending", retries |-> 0, limit |-> limit]]
  <2>1. [status |-> "pending", retries |-> 0, limit |-> limit] \in Record
    BY LimitsAssumption DEF Record, Status
  <2> DEFINE m == NewCall("create", "store", {})
             rec == [status |-> "pending", retries |-> 0, limit |-> limit]
  <2>4. m \in CallRecord /\ m.op = "create" /\ m.step = "store"
    BY BoundsAssumption DEF NewCall, CallRecord, OpNames, Steps
  <2> HIDE DEF m, rec
  <2>5. [m EXCEPT !.task = t, !.rec = rec] \in CallRecord
    BY <2>1, <2>4 DEF CallRecord, rec
  <2>6. Good([m EXCEPT !.task = t, !.rec = rec])
    BY <2>1, <2>4 DEF CallRecord, Good, rec
  <2>2. MayBe(n) BY <2>5, <2>6 DEF MayBe, m, rec
  <2>3. call' = [call EXCEPT ![c] = n] BY <1>1 DEF BeginCreate, Begin
  <2> HIDE DEF n
  <2> QED BY <2>2, <2>3, CallUpdate
<1>2. ASSUME NEW op \in OpNames \ {"update"}, NEW ids \in SUBSET Tasks,
             Begin(c, NewCall(op, "fetch", ids))
      PROVE  CallsOK'
  <2>1. MayBe(NewCall(op, "fetch", ids))
    BY BoundsAssumption DEF MayBe, NewCall, CallRecord, Good, Steps
  <2> QED BY <1>2, <2>1, CallUpdate DEF Begin
<1>3. ASSUME NEW t \in Tasks, NEW op \in {"retry", "cancel", "requeue", "fields"}, BeginOn(c, op, t)
      PROVE  CallsOK'
  BY <1>2, <1>3 DEF BeginOn, OpNames
<1>4. ASSUME NEW t \in Tasks, NEW status \in Targets, BeginUpdate(c, t, status)
      PROVE  CallsOK'
  <2> DEFINE n == [NewCall("update", "watch", {t}) EXCEPT !.arg = status, !.attempt = 1]
  <2> DEFINE m == NewCall("update", "watch", {t})
  <2>3. m \in CallRecord /\ m.op = "update" /\ m.step = "watch"
    BY BoundsAssumption DEF NewCall, CallRecord, OpNames, Steps
  <2>4. status \in Status /\ 1 \in 0 .. MaxAttempts
    BY TargetsAssumption, BoundsAssumption
  <2> HIDE DEF m
  <2>5. [m EXCEPT !.arg = status, !.attempt = 1] \in CallRecord
    BY <2>3, <2>4 DEF CallRecord
  <2>6. Good([m EXCEPT !.arg = status, !.attempt = 1])
    BY <2>3, <2>4 DEF CallRecord, Good
  <2>1. MayBe(n) BY <2>5, <2>6 DEF MayBe, m
  <2>2. call' = [call EXCEPT ![c] = n] BY <1>4 DEF BeginUpdate, Begin
  <2> HIDE DEF n
  <2> QED BY <2>1, <2>2, CallUpdate
<1>5. CASE BeginClaim(c)
  BY <1>2, <1>5 DEF BeginClaim, Scan, StoreOK, OpNames
<1>6. CASE BeginRecover(c)
  <2>1. statusIndex["processing"] \in SUBSET Tasks BY DEF StoreOK, Status
  <2> QED BY <1>2, <1>6, <2>1 DEF BeginRecover, Scan, OpNames
<1>7. CASE BeginExpire(c)
  BY <1>2, <1>7 DEF BeginExpire, Scan, StoreOK, OpNames
<1>8. CASE BeginCleanup(c)
  <2>1. PICK old \in SUBSET taskIndex : Scan(c, "cleanup", old) BY <1>8 DEF BeginCleanup
  <2>2. old \in SUBSET Tasks BY DEF StoreOK
  <2> QED BY <1>2, <2>1, <2>2 DEF Scan, OpNames
<1> QED BY <1>1, <1>3, <1>4, <1>5, <1>6, <1>7, <1>8 DEF Start

\* What a GET returns is a record or nothing.
LEMMA FetchCalls ==
  ASSUME CallsOK, StoreOK, NEW c \in Calls, NEW t \in Tasks, Fetch(c, t)
  PROVE  CallsOK'
<1> DEFINE r == task[t]
<1>1. r # None => r \in Record BY DEF StoreOK
<1>2. ~Idle(c) /\ call[c] \in CallRecord /\ Good(call[c])
  BY DEF CallsOK, CallsGood, Idle, Fetch, Fetching, At, FetchRetry, FetchCancel,
         FetchRequeue, FetchFields, FetchUpdate, FetchClaim, FetchRecover,
         FetchExpire, FetchCleanup
<1>3. {"refetch", "set", "exec", "take", "unindex", "delete"} \subseteq Steps \ {"watch", "fetch"}
  BY DEF Steps
<1>4. {"retry", "cancelled", "queued"} \subseteq Status BY DEF Status
<1> HIDE DEF r
<1>5. CASE FetchRetry(c, t)
  BY <1>1, <1>2, <1>3, <1>4, <1>5, EditOK, HoldCalls, ThrowCalls DEF FetchRetry, Before, r
<1>6. CASE FetchCancel(c, t)
  BY <1>1, <1>2, <1>3, <1>4, <1>6, EditOK, HoldCalls, ThrowCalls DEF FetchCancel, r
<1>7. CASE FetchRequeue(c, t)
  BY <1>1, <1>2, <1>3, <1>4, <1>7, EditOK, HoldCalls, ThrowCalls DEF FetchRequeue, r
<1>8. CASE FetchFields(c, t)
  <2>1. CASE Throw(c) BY <2>1, ThrowCalls
  <2>2. ASSUME NEW kind \in {"priority", "other"}, r # None,
               NEW limit \in Limits \cup {r.limit},
               call' = [call EXCEPT ![c] =
                 [call[c] EXCEPT !.step = "set", !.todo = call[c].todo \ {t},
                                 !.task = t, !.rec = [r EXCEPT !.limit = limit],
                                 !.old = r.status, !.arg = kind]]
        PROVE  CallsOK'
    <3> DEFINE rec == [r EXCEPT !.limit = limit]
               n == [call[c] EXCEPT !.step = "set", !.todo = call[c].todo \ {t},
                                    !.task = t, !.rec = rec,
                                    !.old = r.status, !.arg = kind]
    <3>1. rec \in Record BY <1>1, <2>2, LimitOK
    <3>2. r.status \in Status BY <1>1, <2>2, EditOK, <1>4
    <3>3. call' = [call EXCEPT ![c] = n] BY <2>2
    <3>4. call[c].op = "fields" BY <1>8 DEF FetchFields, Fetching
    <3> HIDE DEF rec
    <3>5. MayBe(n)
      BY <1>2, <3>1, <3>2, <3>4 DEF MayBe, CallRecord, Good, Steps
    <3> HIDE DEF n
    <3> QED BY <3>3, <3>5, CallUpdate
  <2> QED BY <1>8, <2>1, <2>2 DEF FetchFields, r
<1>9. CASE FetchUpdate(c, t)
  <2>1. call[c].op = "update" /\ call[c].arg \in Status
    BY <1>2, <1>9 DEF FetchUpdate, Fetching, Good
  <2> QED
    BY <1>1, <1>2, <1>3, <1>9, <2>1, EditOK, HoldCalls, ThrowCalls DEF FetchUpdate, r
<1>10. CASE FetchClaim(c, t)
  BY <1>1, <1>2, <1>3, <1>4, <1>10, EditOK, HoldCalls, SkipCalls DEF FetchClaim, r
<1>11. CASE FetchRecover(c, t)
  BY <1>1, <1>2, <1>3, <1>4, <1>11, EditOK, HoldCalls, SkipCalls DEF FetchRecover, r
<1>12. CASE FetchExpire(c, t)
  BY <1>1, <1>2, <1>3, <1>4, <1>12, EditOK, HoldCalls, SkipCalls DEF FetchExpire, r
<1>13. CASE FetchCleanup(c, t)
  <2>1. CASE r = None
    <3> DEFINE n == [call[c] EXCEPT !.step = "unindex", !.todo = call[c].todo \ {t},
                                    !.task = t, !.rec = None, !.old = None]
    <3>1. call' = [call EXCEPT ![c] = n] BY <1>13, <2>1 DEF FetchCleanup, Hold, r
    <3>2. call[c].op = "cleanup" BY <1>13 DEF FetchCleanup, Fetching
    <3>3. MayBe(n) BY <1>2, <3>2 DEF MayBe, CallRecord, Good, Steps
    <3> HIDE DEF n
    <3> QED BY <3>1, <3>3, CallUpdate
  <2>2. CASE r # None
    BY <1>1, <1>2, <1>3, <1>4, <1>13, <2>2, EditOK, HoldCalls, SkipCalls DEF FetchCleanup, r
  <2> QED BY <2>1, <2>2
<1> QED
  BY <1>5, <1>6, <1>7, <1>8, <1>9, <1>10, <1>11, <1>12, <1>13 DEF Fetch

\* The commands that write, and the transaction.
LEMMA WriteCalls ==
  ASSUME CallsOK, StoreOK, NEW c \in Calls, Continue(c), \A t \in Tasks : ~Fetch(c, t)
  PROVE  CallsOK'
<1>1. CASE Store(c) BY <1>1, AdvanceCalls DEF Store, At
<1>2. CASE Index(c) BY <1>2, AdvanceCalls DEF Index, At
<1>3. CASE SetRecord(c) BY <1>3, AdvanceCalls DEF SetRecord, At
<1>4. CASE Reindex(c) BY <1>4, AdvanceCalls DEF Reindex, At
<1>5. CASE Enqueue(c) BY <1>5, AdvanceCalls DEF Enqueue, At
<1>6. CASE Dequeue(c) BY <1>6, AdvanceCalls DEF Dequeue, At
<1>7. CASE Count(c) BY <1>7, AdvanceCalls DEF Count, At
<1>8. CASE Take(c) BY <1>8, AdvanceCalls, ThrowCalls DEF Take, At
<1>9. CASE Watch(c)
  <2> DEFINE n == [call[c] EXCEPT !.step = "fetch"]
  <2>1. call[c] \in CallRecord /\ Good(call[c])
    BY <1>9 DEF Watch, At, CallsOK, CallsGood, Idle
  <2>2. MayBe(n) BY <2>1 DEF MayBe, CallRecord, Good, Steps
  <2>3. call' = [call EXCEPT ![c] = n] BY <1>9 DEF Watch
  <2> HIDE DEF n
  <2> QED BY <2>2, <2>3, CallUpdate
<1>10. CASE Exec(c) BY <1>10, AdvanceCalls DEF Exec, At
<1>11. CASE Conflict(c)
  <2> DEFINE k == call[c]
             n == [k EXCEPT !.step = "watch", !.todo = {k.task}, !.task = None,
                            !.rec = None, !.old = None, !.attempt = k.attempt + 1]
  <2>1. k \in CallRecord /\ Good(k) /\ k.step = "exec"
    BY <1>11 DEF Conflict, At, CallsOK, CallsGood, Idle
  <2>2. CASE k.attempt < MaxAttempts
    <3> DEFINE next == k.attempt + 1
    <3>1. k.attempt \in 0 .. MaxAttempts BY <2>1 DEF CallRecord
    <3>2. next \in 0 .. MaxAttempts BY <3>1, <2>2, BoundsAssumption
    <3>3. call' = [call EXCEPT ![c] = n] BY <1>11, <2>2 DEF Conflict
    <3> HIDE DEF next
    <3>4. [k EXCEPT !.step = "watch", !.todo = {k.task}, !.task = None,
                    !.rec = None, !.old = None, !.attempt = next] \in CallRecord
      BY <2>1, <3>2 DEF CallRecord, Good, Steps
    <3>5. Good([k EXCEPT !.step = "watch", !.todo = {k.task}, !.task = None,
                         !.rec = None, !.old = None, !.attempt = next])
      BY <2>1, <3>2 DEF CallRecord, Good
    <3>6. MayBe(n) BY <3>4, <3>5 DEF MayBe, next
    <3> HIDE DEF n
    <3> QED BY <3>3, <3>6, CallUpdate
  <2>3. CASE ~(k.attempt < MaxAttempts)
    BY <1>11, <2>3, ThrowCalls DEF Conflict
  <2> QED BY <2>2, <2>3
<1>12. CASE CountFrom(c) BY <1>12, AdvanceCalls DEF CountFrom, At
<1>13. CASE CountTo(c) BY <1>13, AdvanceCalls DEF CountTo, At
<1>14. CASE Refetch(c)
  <2> DEFINE t == call[c].task
  <2>1. ~Idle(c) /\ t \in Tasks
    BY <1>14 DEF Refetch, At, CallsOK, CallsGood, Idle, Good
  <2>2. CASE task[t] = None BY <1>14, <2>2, ThrowCalls DEF Refetch
  <2>3. CASE task[t] # None
    <3>1. task[t] \in Record BY <2>1, <2>3 DEF StoreOK
    <3>2. [task[t] EXCEPT !.status = "failed"] \in Record /\ task[t].status \in Status
      BY <3>1, EditOK DEF Status
    <3>3. "push" \in Steps \ {"watch", "fetch"} BY DEF Steps
    <3>4. Hold(c, t, "push", [task[t] EXCEPT !.status = "failed"], task[t].status)
      BY <1>14, <2>3 DEF Refetch, BeforeDelete
    <3> QED BY <2>1, <3>2, <3>3, <3>4, HoldCalls
  <2> QED BY <2>2, <2>3
<1>15. CASE Push(c) BY <1>15, AdvanceCalls DEF Push, At
<1>16. CASE Delete(c) BY <1>16, AdvanceCalls DEF Delete, At
<1>17. CASE Unindex(c) BY <1>17, AdvanceCalls DEF Unindex, At
<1>18. CASE Forget(c) BY <1>18, AdvanceCalls DEF Forget, At
<1> QED
  BY <1>1, <1>2, <1>3, <1>4, <1>5, <1>6, <1>7, <1>8, <1>9, <1>10, <1>11, <1>12,
     <1>13, <1>14, <1>15, <1>16, <1>17, <1>18 DEF Continue

\* The keys of the store keep their types.
LEMMA StoreNext ==
  ASSUME CallsOK, StoreOK, NEW c \in Calls, Start(c) \/ Continue(c) \/ Crash(c)
  PROVE  StoreOK'
<1>1. ASSUME ~Idle(c)
      PROVE  /\ call[c] \in CallRecord
             /\ call[c].step \notin {"watch", "fetch"} => call[c].task \in Tasks
             /\ call[c].step \notin {"watch", "fetch", "unindex"} => call[c].rec \in Record
             /\ call[c].step \in {"forget"} => call[c].old \in Status
  BY <1>1 DEF CallsOK, CallsGood, Idle, Good
<1>2. ASSUME NEW rec \in Record \cup {None}, NEW t \in Tasks
      PROVE  [task EXCEPT ![t] = rec] \in [Tasks -> Record \cup {None}]
  BY DEF StoreOK
<1>3. ASSUME NEW t, NEW rec, WriteRecord(t, rec) PROVE dirty' \subseteq Calls
  BY <1>3 DEF WriteRecord, Watching, StoreOK
<1>4. ASSUME NEW t \in Tasks, NEW new, NEW old, MoveIndex(t, new, old)
      PROVE  statusIndex' \in [Status -> SUBSET Tasks]
  BY <1>4 DEF MoveIndex, StoreOK
<1>5. CASE Start(c)
  <2>1. /\ begun < MaxCalls \/ begun < MaxInTurn
        /\ begun' = begun + 1 /\ disturbed' \in BOOLEAN
        /\ UNCHANGED <<store, dirty, known, crashes, history>>
    BY <1>5 DEF Start, BeginCreate, BeginOn, BeginUpdate, BeginClaim, BeginRecover,
                BeginExpire, BeginCleanup, Scan, Begin
  <2>2. begun' \in 0 .. MaxInTurn BY <2>1, BoundsAssumption DEF StoreOK
  <2> QED BY <2>1, <2>2 DEF store, history, opened, StoreOK
<1>6. ASSUME NEW t \in Tasks, Fetch(c, t) PROVE StoreOK'
  BY <1>6 DEF Fetch, FetchRetry, FetchCancel, FetchRequeue, FetchFields,
              FetchUpdate, FetchClaim, FetchRecover, FetchExpire, FetchCleanup,
              ReadOnly, store, history, opened, StoreOK
<1>7. CASE Store(c)
  BY <1>1, <1>2, <1>3, <1>7 DEF Store, At, WriteRecord, opened, StoreOK
<1>8. CASE Index(c) BY <1>1, <1>8 DEF Index, At, history, opened, StoreOK
<1>9. CASE SetRecord(c)
  BY <1>1, <1>2, <1>3, <1>9 DEF SetRecord, At, WriteRecord, history, opened, StoreOK
<1>10. CASE Reindex(c)
  BY <1>1, <1>4, <1>10 DEF Reindex, At, history, opened, StoreOK
<1>11. CASE Enqueue(c) BY <1>1, <1>11 DEF Enqueue, At, opened, StoreOK
<1>12. CASE Dequeue(c) BY <1>1, <1>12 DEF Dequeue, At, history, opened, StoreOK
<1>13. CASE Count(c)
  <2>1. stats' \in [Buckets -> Int] BY <1>13 DEF Count, Buckets, StoreOK
  <2> QED BY <1>13, <2>1 DEF Count, history, opened, StoreOK
<1>14. CASE Take(c) BY <1>1, <1>14 DEF Take, At, opened, StoreOK
<1>15. CASE Watch(c) BY <1>15 DEF Watch, store, history, opened, StoreOK
<1>16. CASE Exec(c)
  <2>1. call[c].task \in Tasks /\ call[c].rec \in Record
    BY <1>1, <1>16 DEF Exec, At
  <2>2. dirty' \subseteq Calls BY <1>16 DEF Exec, Watching, StoreOK
  <2>3. statusIndex' \in [Status -> SUBSET Tasks]
    BY <1>4, <1>16, <2>1 DEF Exec, StoreOK
  <2> QED BY <1>2, <1>16, <2>1, <2>2, <2>3 DEF Exec, history, opened, StoreOK
<1>17. CASE Conflict(c) BY <1>17 DEF Conflict, store, history, opened, StoreOK
<1>18. CASE CountFrom(c) BY <1>18 DEF CountFrom, history, opened, StoreOK
<1>19. CASE CountTo(c) BY <1>19 DEF CountTo, history, opened, StoreOK
<1>20. CASE Refetch(c) BY <1>20 DEF Refetch, ReadOnly, store, history, opened, StoreOK
<1>21. CASE Push(c) BY <1>1, <1>21 DEF Push, At, history, opened, StoreOK
<1>22. CASE Delete(c)
  BY <1>1, <1>2, <1>3, <1>22 DEF Delete, At, WriteRecord, opened, StoreOK
<1>23. CASE Unindex(c) BY <1>1, <1>23 DEF Unindex, At, history, opened, StoreOK
<1>24. CASE Forget(c) BY <1>1, <1>24 DEF Forget, At, history, opened, StoreOK
<1>25. CASE Crash(c)
  BY <1>25, BoundsAssumption DEF Crash, store, history, opened, StoreOK
<1> QED
  BY <1>5, <1>6, <1>7, <1>8, <1>9, <1>10, <1>11, <1>12, <1>13, <1>14, <1>15,
     <1>16, <1>17, <1>18, <1>19, <1>20, <1>21, <1>22, <1>23, <1>24, <1>25 DEF Continue

LEMMA TypeInit == Init => TypeInv
<1> SUFFICES ASSUME Init PROVE TypeInv
  OBVIOUS
<1>1. StoreOK
  <2>1. disturbed \in BOOLEAN BY DEF Init
  <2>2. begun \in 0 .. MaxInTurn /\ crashes \in 0 .. MaxCrashes
    BY BoundsAssumption DEF Init
  <2>3. task \in [Tasks -> Record \cup {None}] /\ stats \in [Buckets -> Int] BY DEF Init
  <2>4. /\ statusIndex \in [Status -> SUBSET Tasks] /\ dlq \in [Tasks -> Nat]
        /\ enqueues \in [Tasks -> Nat] /\ claims \in [Tasks -> Nat]
    BY DEF Init
  <2> QED BY <2>1, <2>2, <2>3, <2>4 DEF Init, StoreOK
<1>2. CallsOK BY DEF Init, CallsOK, CallsGood, Idle
<1> QED BY <1>1, <1>2, TypeParts

LEMMA TypeNext == TypeInv /\ [Next]_vars => TypeInv'
<1> SUFFICES ASSUME TypeInv, [Next]_vars PROVE TypeInv'
  OBVIOUS
<1> USE TypeParts
<1>1. CASE Next
  <2>1. PICK c \in Calls : Start(c) \/ Continue(c) \/ Crash(c) BY <1>1 DEF Next
  <2>2. StoreOK' BY <2>1, StoreNext
  <2>3. CallsOK'
    <3>1. CASE Start(c) BY <3>1, StartCalls
    <3>2. CASE Continue(c)
      BY <3>2, FetchCalls, WriteCalls
    <3>3. CASE Crash(c) BY <3>3, CallUpdate DEF Crash, MayBe
    <3> QED BY <2>1, <3>1, <3>2, <3>3
  <2> QED BY <2>2, <2>3 DEF TypeInv, TypeOK, StoreOK, CallsOK
<1>2. CASE UNCHANGED vars
  BY <1>2 DEF vars, store, history, opened, TypeInv, TypeOK, CallsGood, Idle
<1> QED BY <1>1, <1>2

\* The store and the calls in progress keep their types (TypeOK).
THEOREM TypeCorrect == Spec => []TypeOK
<1>1. TypeInv => TypeOK BY DEF TypeInv
<1> QED BY TypeInit, TypeNext, <1>1, PTL DEF Spec

-----------------------------------------------------------------------------
(* How calls move.                                                         *)

\* A step of one call leaves the others where they are.
LEMMA OthersKeep ==
  ASSUME TypeInv, NEW c \in Calls, Start(c) \/ Continue(c) \/ Crash(c),
         NEW d \in Calls, d # c
  PROVE  call'[d] = call[d]
<1> USE DEF TypeInv, TypeOK
<1>1. ASSUME NEW n, call' = [call EXCEPT ![c] = n] PROVE call'[d] = call[d]
  BY <1>1
<1>2. ASSUME Advance(c) PROVE call'[d] = call[d] BY <1>2 DEF Advance
<1>3. ASSUME Throw(c) PROVE call'[d] = call[d] BY <1>3 DEF Throw
<1>4. CASE Start(c)
  BY <1>1, <1>4 DEF Start, BeginCreate, BeginOn, BeginUpdate, BeginClaim,
     BeginRecover, BeginExpire, BeginCleanup, Scan, Begin
<1>5. ASSUME NEW t \in Tasks, Fetch(c, t) PROVE call'[d] = call[d]
  BY <1>3, <1>5 DEF Fetch, FetchRetry, FetchCancel, FetchRequeue, FetchFields,
     FetchUpdate, FetchClaim, FetchRecover, FetchExpire, FetchCleanup, Hold, Skip
<1>6. CASE Continue(c) /\ \A t \in Tasks : ~Fetch(c, t)
  BY <1>2, <1>3, <1>6
     DEF Continue, Store, Index, SetRecord, Reindex, Enqueue, Dequeue, Count,
         Take, Watch, Exec, Conflict, CountFrom, CountTo, Refetch, Hold, Push,
         Delete, Unindex, Forget
<1>7. CASE Crash(c) BY <1>7 DEF Crash
<1> QED BY <1>4, <1>5, <1>6, <1>7

\* After one command the next is the one the code has there.
LEMMA AdvanceStep ==
  ASSUME TypeInv, NEW c \in Calls, ~Idle(c), Advance(c), NEW s, At(c, s)',
         s # "fetch"
  PROVE  s = After(call[c]) /\ call'[c].op = call[c].op /\ call'[c].task = call[c].task
<1> DEFINE k == call[c]
           n == IF After(k) = "end" THEN LeaveTask(k, k.todo)
                                    ELSE [k EXCEPT !.step = After(k)]
<1>1. k \in CallRecord BY InProgress
<1>2. call'[c] = n BY DEF Advance, TypeInv, TypeOK
<1>3. n # None /\ n.step = s BY <1>2 DEF At, Idle
<1>4. After(k) # "end"
  BY <1>1, <1>3 DEF LeaveTask, CallRecord
<1>5. n = [k EXCEPT !.step = After(k)] BY <1>4
<1> QED BY <1>1, <1>2, <1>3, <1>5 DEF CallRecord

\* A call begins with the SET of a new task, a GET or a WATCH.
LEMMA StartStep ==
  ASSUME NEW c \in Calls, Start(c)
  PROVE  \E n : /\ call' = [call EXCEPT ![c] = n] /\ n.step \in {"store", "fetch", "watch"}
                /\ n.step = "store" => n.rec.status = "pending"
<1>1. ASSUME NEW op, NEW step, NEW ids
      PROVE  NewCall(op, step, ids).step = step
  BY DEF NewCall
<1>2. ASSUME NEW t, NEW limit, BeginCreate(c, t, limit)
      PROVE  \E n : call' = [call EXCEPT ![c] = n] /\ n.step = "store" /\ n.rec.status = "pending"
  <2> DEFINE m == NewCall("create", "store", {})
             rec == [status |-> "pending", retries |-> 0, limit |-> limit]
             n == [m EXCEPT !.task = t, !.rec = rec]
  <2>1. call' = [call EXCEPT ![c] = n] BY <1>2 DEF BeginCreate, Begin
  <2>2. rec.status = "pending" OBVIOUS
  <2> HIDE DEF rec
  <2>3. n.step = "store" /\ n.rec = rec BY DEF NewCall
  <2> HIDE DEF n
  <2> QED BY <2>1, <2>2, <2>3
<1>3. ASSUME NEW t, NEW status, BeginUpdate(c, t, status)
      PROVE  \E n : call' = [call EXCEPT ![c] = n] /\ n.step = "watch"
  <2> DEFINE n == [NewCall("update", "watch", {t}) EXCEPT !.arg = status, !.attempt = 1]
  <2>1. call' = [call EXCEPT ![c] = n] BY <1>3 DEF BeginUpdate, Begin
  <2>2. n.step = "watch" BY DEF NewCall
  <2> HIDE DEF n
  <2> QED BY <2>1, <2>2
<1>4. ASSUME NEW op, NEW ids, Begin(c, NewCall(op, "fetch", ids))
      PROVE  \E n : call' = [call EXCEPT ![c] = n] /\ n.step = "fetch"
  <2> DEFINE n == NewCall(op, "fetch", ids)
  <2>1. call' = [call EXCEPT ![c] = n] BY <1>4, Zenon DEF Begin
  <2>2. n.step = "fetch" BY <1>1
  <2> HIDE DEF n
  <2> QED BY <2>1, <2>2
<1> QED
  BY <1>2, <1>3, <1>4
     DEF Start, BeginOn, BeginClaim, BeginRecover, BeginExpire, BeginCleanup, Scan

\* A refused EXEC starts over with WATCH, or the call ends.
LEMMA ConflictStep ==
  ASSUME TypeInv, NEW c \in Calls, Conflict(c), NEW s, At(c, s)'
  PROVE  s = "watch"
<1> DEFINE k == call[c]
           next == k.attempt + 1
           n == [k EXCEPT !.step = "watch", !.todo = {k.task}, !.task = None,
                          !.rec = None, !.old = None, !.attempt = next]
<1>1. k \in CallRecord BY InProgress DEF Conflict, At
<1>2. Throw(c) \/ call' = [call EXCEPT ![c] = n] BY DEF Conflict
<1> HIDE DEF next
<1>3. n.step = "watch" BY <1>1 DEF CallRecord
<1> HIDE DEF n
<1> QED BY <1>2, <1>3 DEF Throw, At, Idle, TypeInv, TypeOK

\* A call reaches EXEC only from its GET under WATCH.
LEMMA EntersExec ==
  ASSUME TypeInv, NEW c \in Calls, Start(c) \/ Continue(c) \/ Crash(c), At(c, "exec")'
  PROVE  \E t \in Tasks : FetchUpdate(c, t)
<1> USE DEF TypeInv, TypeOK
<1>1. ASSUME ~Idle(c), Advance(c) PROVE FALSE
  BY <1>1, AdvanceStep DEF After, AfterPush
<1>2. ASSUME Throw(c) PROVE FALSE
  BY <1>2 DEF Throw, At, Idle
<1>3. ASSUME NEW t, ~Idle(c), Skip(c, t) PROVE FALSE
  BY <1>3, InProgress DEF Skip, LeaveTask, At, Idle, CallRecord
<1>4. ASSUME NEW t, NEW s, NEW rec, NEW old, s # "exec", ~Idle(c), Hold(c, t, s, rec, old)
      PROVE FALSE
  BY <1>4, InProgress DEF Hold, At, Idle, CallRecord
<1>5. CASE Start(c)
  <2>1. PICK n : call' = [call EXCEPT ![c] = n] /\ n.step \in {"store", "fetch", "watch"}
    BY <1>5, StartStep
  <2> QED BY <2>1 DEF At, Idle
<1>6. ASSUME NEW t \in Tasks, Fetch(c, t), ~FetchUpdate(c, t) PROVE FALSE
  <2>1. ~Idle(c) /\ call[c] \in CallRecord
    BY <1>6, InProgress DEF Fetch, Fetching, At, FetchRetry, FetchCancel, FetchRequeue,
       FetchFields, FetchClaim, FetchRecover, FetchExpire, FetchCleanup
  <2>2. CASE FetchFields(c, t)
    BY <1>2, <2>1, <2>2 DEF FetchFields, At, Idle, CallRecord
  <2> QED
    BY <1>2, <1>3, <1>4, <1>6, <2>1, <2>2 DEF Fetch, FetchRetry, FetchCancel, FetchRequeue,
       FetchClaim, FetchRecover, FetchExpire, FetchCleanup
<1>7. CASE Continue(c) /\ \A t \in Tasks : ~Fetch(c, t)
  <2>1. ~Idle(c) /\ call[c] \in CallRecord
    BY <1>7, InProgress DEF Continue, Store, Index, SetRecord, Reindex, Enqueue,
       Dequeue, Count, Take, Watch, Exec, Conflict, CountFrom, CountTo, Refetch,
       Push, Delete, Unindex, Forget, At
  <2>2. CASE Watch(c) BY <2>1, <2>2 DEF Watch, At, Idle, CallRecord
  <2>3. CASE Conflict(c) BY <1>2, <2>1, <2>3 DEF Conflict, At, Idle, CallRecord
  <2> QED
    BY <1>1, <1>2, <1>4, <1>7, <2>1, <2>2, <2>3
       DEF Continue, Store, Index, SetRecord, Reindex, Enqueue, Dequeue, Count,
           Take, Exec, CountFrom, CountTo, Refetch, BeforeDelete, Push, Delete, Unindex,
           Forget
<1>8. CASE Crash(c) BY <1>8 DEF Crash, At, Idle
<1> QED BY <1>5, <1>6, <1>7, <1>8 DEF Fetch, Continue

\* A call reaches the DEL of a record from cleanupOldTasks, which checked the
\* status, or from the LPUSH to the dead letter queue.
LEMMA EntersDelete ==
  ASSUME TypeInv, NEW c \in Calls, Start(c) \/ Continue(c) \/ Crash(c), At(c, "delete")'
  PROVE  \/ Push(c) /\ call'[c].task = call[c].task
         \/ call'[c].op = "cleanup"
<1> USE DEF TypeInv, TypeOK
<1>1. ASSUME ~Idle(c), Advance(c)
      PROVE  call[c].step = "push" /\ call'[c].task = call[c].task
  BY <1>1, AdvanceStep DEF After, AfterPush
<1>2. ASSUME Throw(c) PROVE FALSE
  BY <1>2 DEF Throw, At, Idle
<1>3. ASSUME NEW t, ~Idle(c), Skip(c, t) PROVE FALSE
  BY <1>3, InProgress DEF Skip, LeaveTask, At, Idle, CallRecord
<1>4. ASSUME NEW t, NEW s, NEW rec, NEW old, s # "delete", ~Idle(c), Hold(c, t, s, rec, old)
      PROVE FALSE
  BY <1>4, InProgress DEF Hold, At, Idle, CallRecord
<1>5. CASE Start(c)
  <2>1. PICK n : call' = [call EXCEPT ![c] = n] /\ n.step \in {"store", "fetch", "watch"}
    BY <1>5, StartStep
  <2> QED BY <2>1 DEF At, Idle
<1>6. ASSUME NEW t \in Tasks, Fetch(c, t) PROVE call'[c].op = "cleanup"
  <2>1. ~Idle(c) /\ call[c] \in CallRecord
    BY <1>6, InProgress DEF Fetch, Fetching, At, FetchRetry, FetchCancel, FetchRequeue,
       FetchFields, FetchUpdate, FetchClaim, FetchRecover, FetchExpire, FetchCleanup
  <2>2. CASE FetchFields(c, t)
    BY <1>2, <2>1, <2>2 DEF FetchFields, At, Idle, CallRecord
  <2>3. CASE FetchCleanup(c, t)
    BY <1>3, <2>1, <2>3 DEF FetchCleanup, Fetching, Hold, At, CallRecord
  <2> QED
    BY <1>2, <1>3, <1>4, <1>6, <2>1, <2>2, <2>3 DEF Fetch, FetchRetry, FetchCancel,
       FetchRequeue, FetchUpdate, FetchClaim, FetchRecover, FetchExpire
<1>7. CASE Continue(c) /\ \A t \in Tasks : ~Fetch(c, t)
  <2>1. ~Idle(c) /\ call[c] \in CallRecord
    BY <1>7, InProgress DEF Continue, Store, Index, SetRecord, Reindex, Enqueue,
       Dequeue, Count, Take, Watch, Exec, Conflict, CountFrom, CountTo, Refetch,
       Push, Delete, Unindex, Forget, At
  <2>2. CASE Watch(c) BY <2>1, <2>2 DEF Watch, At, Idle, CallRecord
  <2>3. ASSUME Conflict(c) PROVE FALSE BY <2>3, ConflictStep
  <2> QED
    BY <1>1, <1>2, <1>4, <1>7, <2>1, <2>2, <2>3
       DEF Continue, Store, Index, SetRecord, Reindex, Enqueue, Dequeue, Count, At,
           Take, Exec, CountFrom, CountTo, Refetch, BeforeDelete, Push, Delete, Unindex,
           Forget
<1>8. CASE Crash(c) BY <1>8 DEF Crash, At, Idle
<1> QED BY <1>5, <1>6, <1>7, <1>8 DEF Continue

-----------------------------------------------------------------------------
(* No task is silently lost.                                               *)

\* NothingVanishes is not inductive: a DEL that retryTask is about to issue
\* must find its LPUSH already made.
PushedFirst ==
  \A c \in Calls :
    At(c, "delete") => call[c].op = "cleanup" \/ dlq[call[c].task] > 0

LossInv == NothingVanishes /\ PushedFirst

LEMMA LossInit == Init => LossInv
BY DEF Init, LossInv, NothingVanishes, PushedFirst, At, Idle

\* Entries are never taken off the dead letter queue, nor names off `cleaned`.
LEMMA DlqGrows ==
  ASSUME TypeInv, NEW c \in Calls, Start(c) \/ Continue(c) \/ Crash(c)
  PROVE  (\A t \in Tasks : dlq[t] > 0 => dlq'[t] > 0) /\ cleaned \subseteq cleaned'
<1>1. CASE Push(c)
  <2>1. call[c].task \in Tasks BY <1>1, InProgress DEF Push, At, Good
  <2> QED BY <1>1, <2>1 DEF Push, history, TypeInv, TypeOK
<1>2. CASE ~Push(c) /\ ~Delete(c)
  <2>1. UNCHANGED <<dlq, cleaned>>
    BY <1>2
       DEF Start, BeginCreate, BeginOn, BeginUpdate, BeginClaim, BeginRecover,
           BeginExpire, BeginCleanup, Scan, Fetch, FetchRetry, FetchCancel,
           FetchRequeue, FetchFields, FetchUpdate, FetchClaim, FetchRecover,
           FetchExpire, FetchCleanup, ReadOnly, Continue, Store, Index, SetRecord,
           Reindex, Enqueue, Dequeue, Count, Take, Watch, Exec, Conflict, CountFrom,
           CountTo, Refetch, Unindex, Forget, Crash, store, history
  <2> QED BY <2>1
<1>3. CASE Delete(c) BY <1>3 DEF Delete
<1> QED BY <1>1, <1>2, <1>3

LEMMA LossNext == TypeInv /\ LossInv /\ [Next]_vars => LossInv'
<1> SUFFICES ASSUME TypeInv, LossInv, [Next]_vars PROVE LossInv'
  OBVIOUS
<1>1. CASE UNCHANGED vars
  BY <1>1 DEF vars, store, history, LossInv, NothingVanishes, PushedFirst, At, Idle
<1>2. ASSUME NEW c \in Calls, Start(c) \/ Continue(c) \/ Crash(c) PROVE LossInv'
  <2>1. (\A t \in Tasks : dlq[t] > 0 => dlq'[t] > 0) /\ cleaned \subseteq cleaned'
    BY <1>2, DlqGrows
  <2>2. PushedFirst'
    <3> SUFFICES ASSUME NEW d \in Calls, At(d, "delete")'
                 PROVE  call'[d].op = "cleanup" \/ dlq'[call'[d].task] > 0
      BY DEF PushedFirst, At, Idle
    <3>1. CASE d # c
      <4>1. call'[d] = call[d] BY <1>2, <3>1, OthersKeep
      <4>2. At(d, "delete") BY <4>1 DEF At, Idle
      <4>3. call[d].task \in Tasks BY <4>2, InProgress DEF At, Good
      <4> QED BY <2>1, <4>1, <4>2, <4>3 DEF LossInv, PushedFirst
    <3>2. CASE d = c
      <4>1. CASE Push(c) /\ call'[c].task = call[c].task
        <5>1. call[c].task \in Tasks BY <4>1, InProgress DEF Push, At, Good
        <5> QED BY <3>2, <4>1, <5>1 DEF Push, TypeInv, TypeOK
      <4> QED BY <1>2, <3>2, <4>1, EntersDelete
    <3> QED BY <3>1, <3>2
  <2>3. NothingVanishes'
    <3> SUFFICES ASSUME NEW t \in stored'
                 PROVE  task'[t] # None \/ dlq'[t] > 0 \/ t \in cleaned'
      BY DEF NothingVanishes
    <3>1. ASSUME ~Idle(c), call[c].step \notin {"watch", "fetch", "unindex"}
          PROVE  call[c].task \in Tasks /\ call[c].rec \in Record /\ call[c].rec # None
      BY <3>1, InProgress, NoneAssumption DEF Good
    <3>2. CASE Store(c)
      BY <2>1, <3>1, <3>2 DEF Store, At, WriteRecord, TypeInv, TypeOK, LossInv, NothingVanishes
    <3>3. CASE SetRecord(c)
      BY <2>1, <3>1, <3>3
         DEF SetRecord, At, WriteRecord, history, TypeInv, TypeOK, LossInv, NothingVanishes
    <3>4. CASE Exec(c)
      BY <2>1, <3>1, <3>4 DEF Exec, At, history, TypeInv, TypeOK, LossInv, NothingVanishes
    <3>5. CASE Delete(c)
      <4>1. call[c].op = "cleanup" \/ dlq[call[c].task] > 0
        BY <3>5 DEF Delete, LossInv, PushedFirst
      <4> QED
        BY <2>1, <3>1, <3>5, <4>1
           DEF Delete, At, WriteRecord, TypeInv, TypeOK, LossInv, NothingVanishes
    <3>6. CASE ~Store(c) /\ ~SetRecord(c) /\ ~Exec(c) /\ ~Delete(c)
      <4>1. UNCHANGED <<task, stored>>
        BY <1>2, <3>6
           DEF Start, BeginCreate, BeginOn, BeginUpdate, BeginClaim, BeginRecover,
               BeginExpire, BeginCleanup, Scan, Fetch, FetchRetry, FetchCancel,
               FetchRequeue, FetchFields, FetchUpdate, FetchClaim, FetchRecover,
               FetchExpire, FetchCleanup, ReadOnly, Continue, Index, Reindex,
               Enqueue, Dequeue, Count, Take, Watch, Conflict, CountFrom,
               CountTo, Refetch, Push, Unindex, Forget, Crash, store, history
      <4>2. t \in Tasks BY <4>1 DEF TypeInv, TypeOK
      <4> QED BY <2>1, <4>1, <4>2 DEF LossInv, NothingVanishes
    <3> QED BY <3>2, <3>3, <3>4, <3>5, <3>6
  <2> QED BY <2>2, <2>3 DEF LossInv
<1> QED BY <1>1, <1>2 DEF Next

\* A stored task is never silently lost: its record exists, or it is in the
\* dead letter queue, or cleanup removed it, for any number of overlapping
\* calls and whatever call is cut short.
THEOREM NoTaskVanishes == Spec => []NothingVanishes
<1>1. LossInv => NothingVanishes BY DEF LossInv
<1> QED BY TypeInit, TypeNext, LossInit, LossNext, <1>1, PTL DEF Spec

-----------------------------------------------------------------------------
(* No entry is handed out twice.                                           *)

LEMMA ClaimsInit == Init => ClaimsBacked
BY DEF Init, ClaimsBacked

LEMMA ClaimsNext == TypeInv /\ ClaimsBacked /\ [Next]_vars => ClaimsBacked'
<1> SUFFICES ASSUME TypeInv, ClaimsBacked, [Next]_vars PROVE ClaimsBacked'
  OBVIOUS
<1> USE DEF TypeInv, TypeOK, ClaimsBacked
<1>1. CASE UNCHANGED vars
  BY <1>1 DEF vars, store, history
<1>2. ASSUME NEW c \in Calls, Start(c) \/ Continue(c) \/ Crash(c) PROVE ClaimsBacked'
  <2>1. ASSUME ~Idle(c), call[c].step \notin {"watch", "fetch"}
        PROVE  call[c].task \in Tasks
    BY <2>1, InProgress DEF Good
  <2>2. CASE Enqueue(c) BY <2>1, <2>2 DEF Enqueue, At
  <2>3. CASE Dequeue(c) BY <2>1, <2>3 DEF Dequeue, At, history
  <2>4. CASE Take(c) BY <2>1, <2>4 DEF Take, Removed, At
  <2>5. CASE ~Enqueue(c) /\ ~Dequeue(c) /\ ~Take(c)
    <3>1. UNCHANGED <<queue, enqueues, claims>>
      BY <1>2, <2>5
         DEF Start, BeginCreate, BeginOn, BeginUpdate, BeginClaim, BeginRecover,
             BeginExpire, BeginCleanup, Scan, Fetch, FetchRetry, FetchCancel,
             FetchRequeue, FetchFields, FetchUpdate, FetchClaim, FetchRecover,
             FetchExpire, FetchCleanup, ReadOnly, Continue, Store, Index, SetRecord,
             Reindex, Count, Watch, Exec, Conflict, CountFrom, CountTo, Refetch,
             Push, Delete, Unindex, Forget, Crash, store, history
    <3> QED BY <3>1
  <2> QED BY <2>2, <2>3, <2>4, <2>5
<1> QED BY <1>1, <1>2 DEF Next

\* A queue entry is handed out at most once, for any number of concurrent
\* getNextTask calls.
THEOREM EntriesHandedOutOnce == Spec => []ClaimsBacked
BY TypeInit, TypeNext, ClaimsInit, ClaimsNext, PTL DEF Spec

-----------------------------------------------------------------------------
(* Status transactions lose no write.                                      *)

LEMMA CommitsInit == Init => CommitsWhatItRead
BY DEF Init, CommitsWhatItRead, At, Idle

\* A step leaves the records alone, or marks every call that watches the
\* record it writes; only the call itself can become clean again.
LEMMA WritesAreSeen ==
  ASSUME TypeInv, NEW c \in Calls, Start(c) \/ Continue(c) \/ Crash(c)
  PROVE  /\ dirty \subseteq dirty' \cup {c}
         /\ \/ UNCHANGED task
            \/ \E t \in Tasks : /\ \E rec : task' = [task EXCEPT ![t] = rec]
                                /\ Watching(t) \subseteq dirty' \cup {c}
<1>1. ASSUME ~Idle(c), call[c].step \notin {"watch", "fetch"}
      PROVE  call[c].task \in Tasks
  BY <1>1, InProgress DEF Good
<1>2. CASE Store(c) BY <1>1, <1>2 DEF Store, At, WriteRecord
<1>3. CASE SetRecord(c) BY <1>1, <1>3 DEF SetRecord, At, WriteRecord
<1>4. CASE Delete(c) BY <1>1, <1>4 DEF Delete, At, WriteRecord
<1>5. CASE Exec(c) BY <1>1, <1>5 DEF Exec, At
<1>6. CASE Watch(c) BY <1>6 DEF Watch, store
<1>7. CASE ~Store(c) /\ ~SetRecord(c) /\ ~Delete(c) /\ ~Exec(c) /\ ~Watch(c)
  <2>1. UNCHANGED <<task, dirty>>
    BY <1>7
       DEF Start, BeginCreate, BeginOn, BeginUpdate, BeginClaim, BeginRecover,
           BeginExpire, BeginCleanup, Scan, Fetch, FetchRetry, FetchCancel,
           FetchRequeue, FetchFields, FetchUpdate, FetchClaim, FetchRecover,
           FetchExpire, FetchCleanup, ReadOnly, Continue, Index, Reindex, Enqueue,
           Dequeue, Take, Count, Conflict, CountFrom, CountTo, Refetch, Push,
           Unindex, Forget, Crash, store, history
  <2> QED BY <2>1
<1> QED BY <1>2, <1>3, <1>4, <1>5, <1>6, <1>7

LEMMA CommitsNext == TypeInv /\ CommitsWhatItRead /\ [Next]_vars => CommitsWhatItRead'
<1> SUFFICES ASSUME TypeInv, CommitsWhatItRead, [Next]_vars PROVE CommitsWhatItRead'
  OBVIOUS
<1>1. CASE UNCHANGED vars
  BY <1>1 DEF vars, store, CommitsWhatItRead, At, Idle
<1>2. ASSUME NEW c \in Calls, Start(c) \/ Continue(c) \/ Crash(c)
      PROVE  CommitsWhatItRead'
  <2> SUFFICES ASSUME NEW d \in Calls, At(d, "exec")', d \notin dirty'
               PROVE  task'[call'[d].task] = [call'[d].rec EXCEPT !.status = call'[d].old]
    BY DEF CommitsWhatItRead, At, Idle
  <2>1. CASE d # c
    <3>1. call'[d] = call[d] BY <1>2, <2>1, OthersKeep
    <3>2. At(d, "exec") BY <3>1 DEF At, Idle
    <3>3. call[d].op = "update" /\ call[d].task \in Tasks
      BY <3>2, InProgress DEF At, Good
    <3>4. d \notin dirty BY <1>2, <2>1, WritesAreSeen
    <3>5. task[call[d].task] = [call[d].rec EXCEPT !.status = call[d].old]
      BY <3>2, <3>4 DEF CommitsWhatItRead
    <3>6. task'[call[d].task] = task[call[d].task]
      <4>1. ASSUME NEW t \in Tasks, NEW rec, task' = [task EXCEPT ![t] = rec],
                   Watching(t) \subseteq dirty' \cup {c}
            PROVE  t # call[d].task
        BY <2>1, <3>2, <3>3, <4>1 DEF Watching, At
      <4> QED BY <1>2, <3>3, <4>1, WritesAreSeen DEF TypeInv, TypeOK
    <3> QED BY <3>1, <3>5, <3>6
  <2>2. CASE d = c
    <3>1. PICK t \in Tasks : FetchUpdate(c, t) BY <1>2, <2>2, EntersExec
    <3> DEFINE r == task[t]
               rec == [r EXCEPT !.status = call[c].arg]
    <3>2. call[c] \in CallRecord
      BY <3>1, InProgress DEF FetchUpdate, Fetching, At
    <3>3. r # None
      BY <2>2, <3>1 DEF FetchUpdate, Throw, At, Idle, TypeInv, TypeOK
    <3>4. r \in Record BY <3>3 DEF TypeInv, TypeOK
    <3>5. call'[c] = [call[c] EXCEPT !.step = "exec", !.todo = call[c].todo \ {t},
                                     !.task = t, !.rec = rec, !.old = r.status]
      BY <3>1, <3>3 DEF FetchUpdate, Hold, TypeInv, TypeOK
    <3>6. call'[c].task = t /\ call'[c].rec = rec /\ call'[c].old = r.status
      <4> HIDE DEF rec, r
      <4> QED BY <3>2, <3>5 DEF CallRecord
    <3>7. task' = task BY <3>1 DEF FetchUpdate, ReadOnly, store
    <3>8. [rec EXCEPT !.status = r.status] = r
      <4> HIDE DEF r
      <4> QED BY <3>4 DEF Record
    <3> QED BY <2>2, <3>6, <3>7, <3>8
  <2> QED BY <2>1, <2>2
<1> QED BY <1>1, <1>2 DEF Next

\* Whenever EXEC commits, the record is the one the transaction read: no
\* write to a task is lost by updateTaskStatus, however many calls overlap.
THEOREM TransactionsLoseNothing == Spec => []CommitsWhatItRead
BY TypeInit, TypeNext, CommitsInit, CommitsNext, PTL DEF Spec

-----------------------------------------------------------------------------
(* One call after another: what a call leaves undone while it is at work.  *)

StatusOf(t) == IF Live(t) THEN task[t].status ELSE None

\* tasks:index has t when it has a record; the status indices have it under s
\* alone (under none when s is None), but for what an expiry left behind; it is
\* dead or alive; it is on the queue when it has still to be handed out.  No
\* caller sets the statuses of a task that waits, or nothing is said of them.
Listed(t) == t \in taskIndex <=> Live(t)
Booked(t, s) ==
  \A x \in Status :
    /\ x = s => t \in statusIndex[x] \/ (x = "cancelled" /\ t \in expired)
    /\ t \in statusIndex[x] => x = s \/ (x \in NotStarted /\ t \in expired)
Buried(t) == dlq[t] =< 1 /\ (dlq[t] = 1 => ~Live(t))
Waiting(t) ==
  /\ Targets \cap {"pending", "retry"} = {}
  /\ StatusOf(t) \in {"pending", "retry"} /\ claims[t] = 0
  => t \in queue
Settled(t) == Listed(t) /\ Booked(t, StatusOf(t)) /\ Buried(t) /\ Waiting(t)

OfTask(k) == k.step \notin {"watch", "fetch"}

\* What a call knows of the task it is working on.
Hand(k) ==
  /\ k.op = "update" => k.arg \in Targets
  /\ ~OfTask(k) => k.task = None
  /\ k.step = "store" => k.task \notin stored
  /\ k.step \in {"store", "index"} => k.op = "create"
  /\ k.step \in {"store", "set", "exec", "push", "delete"} => k.old = StatusOf(k.task)
  /\ k.step \in {"set", "exec", "refetch", "push", "delete"} => Live(k.task)
  /\ k.step \in {"index", "reindex", "dequeue"} => task[k.task] = k.rec
  /\ k.step \in {"unindex", "forget"} => ~Live(k.task)
  /\ k.step = "unindex" /\ k.rec = None => k.old = None
  /\ k.step = "set" =>
       k.op \in {"retry", "requeue", "recover", "cancel", "fields", "expire"}
  /\ k.step = "set" /\ k.op = "fields" => k.rec.status = k.old
  /\ k.step = "set" /\ k.op = "expire" => k.old \in NotStarted
  /\ k.step \in {"set", "dequeue", "reindex"} /\ k.op \in {"cancel", "expire"} =>
       k.rec.status = "cancelled"
  /\ k.step = "dequeue" => k.op \in {"cancel", "expire"}
  /\ k.step = "reindex" => k.op # "expire"
  /\ k.step = "exec" => k.rec.status \in Targets
  /\ k.step \in {"refetch", "push"} => k.op = "retry"
  /\ k.step = "delete" => k.op \in {"retry", "cleanup"}

\* The status indices are still to follow the record: expireStaleTasks never
\* moves them.
Behind(k) == \/ k.step \in {"index", "reindex", "unindex", "forget"}
             \/ k.step = "dequeue" /\ k.op = "cancel"

\* How far the store is from Settled for that task.
Halfway(k) ==
  /\ IF k.step = "index" THEN k.task \notin taskIndex
     ELSE IF k.step = "unindex" /\ k.rec # None THEN k.task \in taskIndex
     ELSE Listed(k.task)
  /\ Booked(k.task, IF Behind(k) THEN k.old ELSE StatusOf(k.task))
  /\ IF k.step = "delete" /\ k.op = "retry" THEN dlq[k.task] = 1 ELSE Buried(k.task)
  /\ k.step \in {"index", "reindex", "enqueue"} \/ Waiting(k.task)

Alone(c) == \A d \in Calls : d # c => Idle(d)
KnownIds == \A t \in Tasks : Live(t) \/ dlq[t] # 0 => t \in stored

Serial ==
  /\ \A c \in Calls : ~Idle(c) =>
       /\ Alone(c) /\ Hand(call[c])
       /\ OfTask(call[c]) => Halfway(call[c])
       /\ \A t \in Tasks : t # call[c].task => Settled(t)
  /\ (\A c \in Calls : Idle(c)) => \A t \in Tasks : Settled(t)
  /\ KnownIds

SerialInv == ~disturbed => Serial

\* A step that has nothing to do with u leaves it as settled as it was.
Same(u) ==
  /\ task'[u] = task[u] /\ dlq'[u] = dlq[u] /\ claims'[u] = claims[u]
  /\ u \in taskIndex' <=> u \in taskIndex
  /\ u \in queue' <=> u \in queue
  /\ u \in expired' <=> u \in expired
  /\ \A x \in Status : u \in statusIndex'[x] <=> u \in statusIndex[x]

LEMMA SettledStays ==
  ASSUME NEW u, Same(u), Settled(u)
  PROVE  Settled(u)'
<1>1. Live(u)' <=> Live(u) BY DEF Same, Live
<1>2. StatusOf(u)' = StatusOf(u) BY <1>1 DEF Same, StatusOf
<1>3. Booked(u, StatusOf(u))' BY <1>2 DEF Same, Settled, Booked
<1> QED BY <1>1, <1>2, <1>3 DEF Same, Settled, Listed, Buried, Waiting

LEMMA BookedMoves ==
  ASSUME NEW t, NEW new \in Status, NEW old, Booked(t, old),
         expired' = expired, MoveIndex(t, new, old)
  PROVE  Booked(t, new)'
<1> SUFFICES ASSUME NEW x \in Status
             PROVE  /\ x = new => t \in statusIndex'[x]
                    /\ t \in statusIndex'[x] =>
                         x = new \/ (x \in NotStarted /\ t \in expired)
  BY DEF Booked
<1>1. statusIndex'[x] = IF x = new THEN statusIndex[x] \cup {t}
                        ELSE IF x = old THEN statusIndex[x] \ {t}
                        ELSE statusIndex[x]
  BY DEF MoveIndex
<1>2. t \in statusIndex[x] => x = old \/ (x \in NotStarted /\ t \in expired) BY DEF Booked
<1> QED BY <1>1, <1>2

\* The call has returned, or goes on.
LEMMA Returned ==
  ASSUME NEW c \in Calls, Alone(c), \A d \in Calls : d # c => call'[d] = call[d],
         call'[c] = None, \A t \in Tasks : Settled(t)', KnownIds'
  PROVE  Serial'
<1>1. \A d \in Calls : Idle(d)' BY DEF Alone, Idle
<1> QED BY <1>1 DEF Serial

LEMMA GoesOn ==
  ASSUME NEW c \in Calls, Alone(c), \A d \in Calls : d # c => call'[d] = call[d],
         NEW n, n # None, call'[c] = n, Hand(n)', OfTask(n) => Halfway(n)',
         \A t \in Tasks : t # n.task => Settled(t)', KnownIds'
  PROVE  Serial'
<1>1. \A d \in Calls : d # c => Idle(d)' BY DEF Alone, Idle
<1>2. Alone(c)' BY <1>1 DEF Alone
<1>3. ~Idle(c)' BY DEF Idle
<1>4. Hand(call[c])' BY DEF Hand, OfTask, StatusOf, Live
<1>5. OfTask(call[c])' => Halfway(call[c])'
  BY DEF Halfway, Behind, OfTask, Listed, Booked, Buried, Waiting, StatusOf, Live
<1>6. \A t \in Tasks : t # call'[c].task => Settled(t)' OBVIOUS
<1> QED BY <1>1, <1>2, <1>3, <1>4, <1>5, <1>6 DEF Serial

LEMMA Leaves ==
  ASSUME NEW c \in Calls, Alone(c), \A d \in Calls : d # c => call'[d] = call[d],
         NEW k \in CallRecord, NEW rest \in SUBSET Tasks,
         k.op = "update" => k.arg \in Targets,
         call'[c] = LeaveTask(k, rest), \A t \in Tasks : Settled(t)', KnownIds'
  PROVE  Serial'
<1>1. CASE rest = {} BY <1>1, Returned DEF LeaveTask
<1>2. CASE rest # {}
  <2> DEFINE n == [k EXCEPT !.step = "fetch", !.todo = rest, !.task = None,
                            !.rec = None, !.old = None]
  <2>1. n \in CallRecord BY DEF CallRecord, Steps
  <2>2. n.step = "fetch" /\ n.task = None /\ n.op = k.op /\ n.arg = k.arg BY DEF CallRecord
  <2>3. call'[c] = n BY <1>2 DEF LeaveTask
  <2> HIDE DEF n
  <2>4. Hand(n)' BY <2>2 DEF Hand, OfTask
  <2>5. ~OfTask(n) /\ n # None BY <2>1, <2>2, CallAssumption DEF OfTask
  <2> QED BY <2>3, <2>4, <2>5, GoesOn
<1> QED BY <1>1, <1>2

\* After the step, n is a call in progress as Serial has it.
Ready(n) == Hand(n)' /\ Halfway(n)'

\* The command after k's is issued next, or the call leaves the task.
LEMMA Moves ==
  ASSUME TypeInv, NEW c \in Calls, ~Idle(c), Alone(c),
         \A d \in Calls : d # c => call'[d] = call[d],
         NEW k, k = call[c], Hand(k), Advance(c), KnownIds',
         \A t \in Tasks : t # k.task => Settled(t)',
         After(k) = "end" => Settled(k.task)',
         \A n : /\ After(k) # "end" /\ n.step = After(k) /\ n.op = k.op /\ n.task = k.task
                /\ n.rec = k.rec /\ n.old = k.old /\ n.arg = k.arg
                => Ready(n)
  PROVE  Serial'
<1>1. k \in CallRecord BY InProgress
<1>2. call'[c] = IF After(k) = "end" THEN LeaveTask(k, k.todo)
                                     ELSE [k EXCEPT !.step = After(k)]
  BY DEF Advance, TypeInv, TypeOK
<1>3. CASE After(k) = "end"
  <2>1. k.op = "update" => k.arg \in Targets BY DEF Hand
  <2>2. k.todo \in SUBSET Tasks BY <1>1 DEF CallRecord
  <2>3. \A t \in Tasks : Settled(t)' BY <1>3
  <2> QED BY <1>1, <1>2, <1>3, <2>1, <2>2, <2>3, Leaves
<1>4. CASE After(k) # "end"
  <2> DEFINE n == [k EXCEPT !.step = After(k)]
  <2>1. n \in CallRecord BY <1>1, <1>4, AfterStep DEF CallRecord
  <2>2. /\ n.step = After(k) /\ n.op = k.op /\ n.task = k.task /\ n.rec = k.rec
        /\ n.old = k.old /\ n.arg = k.arg
    BY <1>1 DEF CallRecord
  <2>3. call'[c] = n BY <1>2, <1>4
  <2> HIDE DEF n
  <2>4. Hand(n)' /\ Halfway(n)' BY <1>4, <2>2 DEF Ready
  <2> QED BY <2>1, <2>2, <2>3, <2>4, CallAssumption, GoesOn
<1> QED BY <1>3, <1>4

\* A read-only step takes task t in hand.
LEMMA TakesUp ==
  ASSUME TypeInv, NEW c \in Calls, ~Idle(c), Alone(c),
         \A d \in Calls : d # c => call'[d] = call[d],
         NEW k, k = call[c], NEW t \in Tasks, NEW step \in Steps \ {"watch", "fetch"},
         NEW rec \in Record \cup {None}, NEW old \in Status \cup {None},
         Hold(c, t, step, rec, old), KnownIds', \A u \in Tasks : u # t => Settled(u)',
         \A n : /\ n.step = step /\ n.op = k.op /\ n.task = t /\ n.rec = rec /\ n.old = old
                /\ n.arg = k.arg
                => Ready(n)
  PROVE  Serial'
<1> DEFINE n == [k EXCEPT !.step = step, !.todo = k.todo \ {t}, !.task = t,
                          !.rec = rec, !.old = old]
<1>1. k \in CallRecord BY InProgress
<1>2. n \in CallRecord BY <1>1 DEF CallRecord
<1>3. /\ n.step = step /\ n.op = k.op /\ n.task = t /\ n.rec = rec /\ n.old = old
      /\ n.arg = k.arg
  BY <1>1 DEF CallRecord
<1>4. call'[c] = n BY DEF Hold, TypeInv, TypeOK
<1> HIDE DEF n
<1>5. Hand(n)' /\ Halfway(n)' BY <1>3 DEF Ready
<1> QED BY <1>2, <1>3, <1>4, <1>5, CallAssumption, GoesOn

LEMMA SerialInit == Init => SerialInv
<1> SUFFICES ASSUME Init PROVE Serial
  BY DEF SerialInv
<1>1. \A c \in Calls : Idle(c) BY DEF Init, Idle
<1>2. ASSUME NEW t \in Tasks PROVE Settled(t) /\ ~Live(t) /\ dlq[t] = 0
  <2>1. ~Live(t) /\ StatusOf(t) = None /\ dlq[t] = 0 BY <1>2 DEF Init, Live, StatusOf
  <2>2. Listed(t) /\ Booked(t, None) BY <2>1, NoneAssumption DEF Init, Listed, Booked
  <2>3. Buried(t) BY <2>1 DEF Buried
  <2>4. Waiting(t) BY <2>1, NoneAssumption DEF Waiting, Status
  <2> QED BY <2>1, <2>2, <2>3, <2>4 DEF Settled
<1> QED BY <1>1, <1>2 DEF Serial, KnownIds

\* A call that begins finds every task settled.
LEMMA SerialStart ==
  ASSUME TypeInv, Serial, NEW c \in Calls, Start(c), ~disturbed'
  PROVE  Serial'
<1>1. UNCHANGED <<store, stored, expired, claims>>
  BY DEF Start, BeginCreate, BeginOn, BeginUpdate, BeginClaim, BeginRecover, BeginExpire,
         BeginCleanup, Scan, history
<1>2. PICK k : Begin(c, k)
  BY DEF Start, BeginCreate, BeginOn, BeginUpdate, BeginClaim, BeginRecover, BeginExpire,
         BeginCleanup, Scan
<1>3. \A d \in Calls : Idle(d) BY <1>2 DEF Begin
<1>4. \A t \in Tasks : Settled(t)'
  <2>1. \A t \in Tasks : Settled(t) BY <1>3 DEF Serial
  <2>2. \A t \in Tasks : Same(t) BY <1>1 DEF Same, store
  <2> QED BY <2>1, <2>2, SettledStays
<1>5. KnownIds' BY <1>1 DEF Serial, KnownIds, store, Live
<1>6. Alone(c) BY <1>3 DEF Alone
<1>7. \A d \in Calls : d # c => call'[d] = call[d] BY OthersKeep
<1>8. ASSUME NEW n \in CallRecord, n.step \in {"watch", "fetch"}, n.task = None,
             n.op = "update" => n.arg \in Targets, call'[c] = n
      PROVE  Serial'
  <2>1. Hand(n)' BY <1>8 DEF Hand, OfTask
  <2>2. ~OfTask(n) BY <1>8 DEF OfTask
  <2> QED BY <1>4, <1>5, <1>6, <1>7, <1>8, <2>1, <2>2, CallAssumption, GoesOn
<1>9. ASSUME NEW op \in OpNames \ {"update"}, NEW ids \in SUBSET Tasks,
             Begin(c, NewCall(op, "fetch", ids))
      PROVE  Serial'
  <2> DEFINE n == NewCall(op, "fetch", ids)
  <2>1. /\ n \in CallRecord /\ n.step = "fetch" /\ n.task = None /\ n.op = op
    BY BoundsAssumption DEF NewCall, CallRecord, Steps
  <2>2. call'[c] = n BY <1>9 DEF Begin, TypeInv, TypeOK
  <2> HIDE DEF n
  <2> QED BY <1>8, <2>1, <2>2
<1>10. ASSUME NEW t \in Tasks, NEW limit \in Limits, BeginCreate(c, t, limit)
       PROVE  Serial'
  <2> DEFINE m == NewCall("create", "store", {})
             rec == [status |-> "pending", retries |-> 0, limit |-> limit]
             n == [m EXCEPT !.task = t, !.rec = rec]
  <2>1. /\ m \in CallRecord /\ m.op = "create" /\ m.step = "store" /\ m.old = None
    BY BoundsAssumption DEF NewCall, CallRecord, OpNames, Steps
  <2>2. call'[c] = n BY <1>10 DEF BeginCreate, Begin, TypeInv, TypeOK
  <2>3. rec \in Record BY LimitsAssumption DEF Record, Status
  <2> HIDE DEF m, rec
  <2>4. /\ n \in CallRecord /\ n.op = "create" /\ n.step = "store" /\ n.old = None
        /\ n.task = t
    BY <2>1, <2>3 DEF CallRecord
  <2> HIDE DEF n
  <2>5. t \notin stored' /\ ~Live(t)'
    <3>1. t \notin stored BY <1>10 DEF BeginCreate
    <3> QED BY <1>1, <3>1 DEF Serial, KnownIds, store, Live
  <2>6. StatusOf(t)' = None BY <2>5 DEF StatusOf
  <2>7. Hand(n)' BY <2>4, <2>5, <2>6 DEF Hand, OfTask
  <2>8. Halfway(n)' BY <1>4, <2>4 DEF Halfway, Behind, Settled
  <2> QED BY <1>4, <1>5, <1>6, <1>7, <2>2, <2>4, <2>7, <2>8, CallAssumption, GoesOn
<1>11. ASSUME NEW t \in Tasks, NEW op \in {"retry", "cancel", "requeue", "fields"},
              BeginOn(c, op, t)
       PROVE  Serial'
  BY <1>9, <1>11 DEF BeginOn, OpNames
<1>12. ASSUME NEW t \in Tasks, NEW status \in Targets, BeginUpdate(c, t, status)
       PROVE  Serial'
  <2> DEFINE m == NewCall("update", "watch", {t})
             n == [m EXCEPT !.arg = status, !.attempt = 1]
  <2>1. m \in CallRecord /\ m.op = "update" /\ m.step = "watch" /\ m.task = None
    BY BoundsAssumption DEF NewCall, CallRecord, OpNames, Steps
  <2>2. call'[c] = n BY <1>12 DEF BeginUpdate, Begin, TypeInv, TypeOK
  <2>3. status \in Status /\ 1 \in 0 .. MaxAttempts BY TargetsAssumption, BoundsAssumption
  <2> HIDE DEF m
  <2>4. /\ n \in CallRecord /\ n.op = "update" /\ n.step = "watch" /\ n.task = None
        /\ n.arg = status
    BY <2>1, <2>3 DEF CallRecord
  <2> HIDE DEF n
  <2> QED BY <1>8, <2>2, <2>4
<1>13. CASE BeginClaim(c)
  BY <1>9, <1>13 DEF BeginClaim, Scan, TypeInv, TypeOK, OpNames
<1>14. CASE BeginRecover(c)
  <2>1. statusIndex["processing"] \in SUBSET Tasks BY DEF TypeInv, TypeOK, Status
  <2> QED BY <1>9, <1>14, <2>1 DEF BeginRecover, Scan, OpNames
<1>15. CASE BeginExpire(c)
  <2>1. taskIndex \in SUBSET Tasks BY DEF TypeInv, TypeOK
  <2> QED BY <1>9, <1>15, <2>1 DEF BeginExpire, Scan, OpNames
<1>16. CASE BeginCleanup(c)
  <2>1. PICK old \in SUBSET taskIndex : Scan(c, "cleanup", old) BY <1>16 DEF BeginCleanup
  <2>2. old \in SUBSET Tasks BY DEF TypeInv, TypeOK
  <2> QED BY <1>9, <2>1, <2>2 DEF Scan, OpNames
<1> QED BY <1>10, <1>11, <1>12, <1>13, <1>14, <1>15, <1>16 DEF Start

\* A call that looks at a task takes it in hand as it is, or lets it be.
LEMMA SerialFetch ==
  ASSUME TypeInv, Serial, NEW c \in Calls, NEW t \in Tasks, Fetch(c, t)
  PROVE  Serial'
<1>1. ~Idle(c) /\ call[c].step = "fetch" /\ ReadOnly
  BY DEF Fetch, Fetching, At, FetchRetry, FetchCancel, FetchRequeue, FetchFields, FetchUpdate,
         FetchClaim, FetchRecover, FetchExpire, FetchCleanup
<1>2. PICK k : k = call[c] OBVIOUS
<1>3. PICK r : r = task[t] OBVIOUS
<1>4. k \in CallRecord /\ Good(k) BY <1>1, <1>2, InProgress
<1>5. Hand(k) /\ k.task = None /\ Alone(c) BY <1>1, <1>2 DEF Serial, Hand, OfTask
<1>6. \A u \in Tasks : Settled(u) BY <1>1, <1>2, <1>5, NoneAssumption DEF Serial
<1>7. \A u \in Tasks : Settled(u)'
  <2>1. \A u \in Tasks : Same(u) BY <1>1 DEF Same, ReadOnly, store, history
  <2> QED BY <1>6, <2>1, SettledStays
<1>8. KnownIds' BY <1>1 DEF Serial, KnownIds, ReadOnly, store, history, Live
<1>9. \A d \in Calls : d # c => call'[d] = call[d] BY OthersKeep DEF Continue
<1>10. /\ Live(t)' <=> r # None
       /\ r # None => r \in Record /\ StatusOf(t)' = r.status
       /\ r = None => StatusOf(t)' = None
  BY <1>1, <1>3 DEF Live, StatusOf, ReadOnly, store, TypeInv, TypeOK
<1>11. Settled(t)' BY <1>7
<1>12. ASSUME Throw(c) PROVE Serial'
  <2>1. call'[c] = None BY <1>12 DEF Throw, TypeInv, TypeOK
  <2> QED BY <1>5, <1>7, <1>8, <1>9, <2>1, Returned
<1>13. ASSUME Skip(c, t) PROVE Serial'
  <2>1. call'[c] = LeaveTask(k, k.todo \ {t}) BY <1>2, <1>13 DEF Skip, TypeInv, TypeOK
  <2>2. k.todo \ {t} \in SUBSET Tasks BY <1>4 DEF CallRecord
  <2>3. k.op = "update" => k.arg \in Targets BY <1>5 DEF Hand
  <2> QED BY <1>4, <1>5, <1>7, <1>8, <1>9, <2>1, <2>2, <2>3, Leaves
<1>14. ASSUME NEW step \in {"refetch", "set", "exec", "take", "delete"}, NEW rec \in Record,
              r # None, Hold(c, t, step, rec, r.status),
              step = "set" => k.op \in {"retry", "requeue", "recover", "cancel", "expire"},
              step = "set" /\ k.op \in {"cancel", "expire"} => rec.status = "cancelled",
              step = "set" /\ k.op = "expire" => r.status \in NotStarted,
              step = "exec" => rec.status \in Targets,
              step = "refetch" => k.op = "retry",
              step = "delete" => k.op = "cleanup"
       PROVE  Serial'
  <2>1. step \in Steps \ {"watch", "fetch"} BY DEF Steps
  <2>2. rec \in Record \cup {None} /\ r.status \in Status \cup {None}
    BY <1>10, <1>14 DEF Record
  <2>3. ASSUME NEW n, n.step = step, n.op = k.op, n.task = t, n.rec = rec, n.old = r.status,
               n.arg = k.arg
        PROVE  Ready(n)
    <3>1. Hand(n)' BY <1>5, <1>10, <1>14, <2>3 DEF Hand, OfTask
    <3>2. Halfway(n)' BY <1>11, <1>14, <2>3 DEF Halfway, Behind, Settled
    <3> QED BY <3>1, <3>2 DEF Ready
  <2> QED BY <1>1, <1>2, <1>5, <1>7, <1>8, <1>9, <1>14, <2>1, <2>2, <2>3, TakesUp
<1>15. {"retry", "cancelled", "queued"} \subseteq Status BY DEF Status
<1>16. CASE FetchRetry(c, t)
  <2>1. k.op = "retry" BY <1>2, <1>16 DEF FetchRetry, Fetching
  <2> QED BY <1>3, <1>10, <1>12, <1>14, <1>15, <1>16, <2>1, EditOK DEF FetchRetry, Before
<1>17. CASE FetchCancel(c, t)
  <2>1. k.op = "cancel" BY <1>2, <1>17 DEF FetchCancel, Fetching
  <2>2. r # None => [r EXCEPT !.status = "cancelled"] \in Record
                    /\ [r EXCEPT !.status = "cancelled"].status = "cancelled"
    BY <1>10, <1>15 DEF Record
  <2>3. CASE r = None \/ (r # None /\ r.status \in Finished)
    BY <1>3, <1>12, <1>17, <2>3 DEF FetchCancel
  <2>4. CASE ~(r = None \/ (r # None /\ r.status \in Finished))
    <3>1. Hold(c, t, "set", [r EXCEPT !.status = "cancelled"], r.status) /\ r # None
      BY <1>3, <1>17, <2>4 DEF FetchCancel
    <3> QED BY <1>14, <2>1, <2>2, <3>1
  <2> QED BY <2>3, <2>4
<1>18. CASE FetchRequeue(c, t)
  <2>1. k.op = "requeue" BY <1>2, <1>18 DEF FetchRequeue, Fetching
  <2> QED BY <1>3, <1>10, <1>12, <1>14, <1>15, <1>18, <2>1, EditOK DEF FetchRequeue
<1>19. CASE FetchFields(c, t)
  <2>1. k.op = "fields" BY <1>2, <1>19 DEF FetchFields, Fetching
  <2>2. ASSUME NEW kind \in {"priority", "other"}, r # None,
               NEW limit \in Limits \cup {r.limit},
               call' = [call EXCEPT ![c] =
                 [call[c] EXCEPT !.step = "set", !.todo = call[c].todo \ {t},
                                 !.task = t, !.rec = [r EXCEPT !.limit = limit],
                                 !.old = r.status, !.arg = kind]]
        PROVE  Serial'
    <3> DEFINE rec == [r EXCEPT !.limit = limit]
               n == [k EXCEPT !.step = "set", !.todo = k.todo \ {t}, !.task = t,
                              !.rec = rec, !.old = r.status, !.arg = kind]
    <3>1. rec \in Record /\ rec.status = r.status /\ r.status \in Status
      BY <1>10, <2>2, LimitsAssumption DEF Record
    <3>2. call'[c] = n BY <1>2, <2>2 DEF TypeInv, TypeOK
    <3> HIDE DEF rec
    <3>3. n \in CallRecord BY <1>4, <3>1 DEF CallRecord, Steps
    <3>4. /\ n.step = "set" /\ n.op = "fields" /\ n.task = t /\ n.rec = rec
          /\ n.old = r.status
      BY <1>4, <2>1 DEF CallRecord
    <3> HIDE DEF n
    <3>5. Hand(n)' BY <1>10, <2>2, <3>1, <3>4 DEF Hand, OfTask
    <3>6. Halfway(n)' BY <1>11, <3>4 DEF Halfway, Behind, Settled
    <3> QED BY <1>5, <1>7, <1>8, <1>9, <3>2, <3>3, <3>4, <3>5, <3>6, CallAssumption, GoesOn
  <2> QED BY <1>3, <1>12, <1>19, <2>2 DEF FetchFields
<1>20. CASE FetchUpdate(c, t)
  <2>1. k.op = "update" /\ k.arg \in Targets
    BY <1>2, <1>5, <1>20 DEF FetchUpdate, Fetching, Hand
  <2>2. k.arg \in Status BY <2>1, TargetsAssumption
  <2>3. r # None => [r EXCEPT !.status = k.arg] \in Record
                    /\ [r EXCEPT !.status = k.arg].status = k.arg
    BY <1>10, <2>2 DEF Record
  <2>4. CASE r = None BY <1>3, <1>12, <1>20, <2>4 DEF FetchUpdate
  <2>5. CASE r # None
    <3>1. Hold(c, t, "exec", [r EXCEPT !.status = k.arg], r.status)
      BY <1>2, <1>3, <1>20, <2>5 DEF FetchUpdate
    <3> QED BY <1>14, <2>1, <2>3, <2>5, <3>1
  <2> QED BY <2>4, <2>5
<1>21. CASE FetchClaim(c, t)
  <2>1. k.op = "claim" BY <1>2, <1>21 DEF FetchClaim, Fetching
  <2> QED BY <1>3, <1>10, <1>13, <1>14, <1>21, <2>1 DEF FetchClaim
<1>22. CASE FetchRecover(c, t)
  <2>1. k.op = "recover" BY <1>2, <1>22 DEF FetchRecover, Fetching
  <2> QED BY <1>3, <1>10, <1>13, <1>14, <1>15, <1>22, <2>1, EditOK DEF FetchRecover
<1>23. CASE FetchExpire(c, t)
  <2>1. k.op = "expire" BY <1>2, <1>23 DEF FetchExpire, Fetching
  <2>2. r # None => [r EXCEPT !.status = "cancelled"] \in Record
                    /\ [r EXCEPT !.status = "cancelled"].status = "cancelled"
    BY <1>10, <1>15 DEF Record
  <2>3. CASE r # None /\ r.status \in NotStarted
             /\ Hold(c, t, "set", [r EXCEPT !.status = "cancelled"], r.status)
    BY <1>14, <2>1, <2>2, <2>3
  <2> QED BY <1>3, <1>13, <1>23, <2>3 DEF FetchExpire
<1>24. CASE FetchCleanup(c, t)
  <2>1. k.op = "cleanup" BY <1>2, <1>24 DEF FetchCleanup, Fetching
  <2>2. CASE r = None
    <3>1. Hold(c, t, "unindex", None, None) BY <1>3, <1>24, <2>2 DEF FetchCleanup
    <3>2. ASSUME NEW n, n.step = "unindex", n.op = k.op, n.task = t, n.rec = None,
                 n.old = None, n.arg = k.arg
          PROVE  Ready(n)
      <4>1. Hand(n)' BY <1>5, <1>10, <2>1, <2>2, <3>2 DEF Hand, OfTask
      <4>2. Halfway(n)' BY <1>10, <1>11, <2>2, <3>2 DEF Halfway, Behind, Settled
      <4> QED BY <4>1, <4>2 DEF Ready
    <3>3. "unindex" \in Steps \ {"watch", "fetch"} BY DEF Steps
    <3> QED BY <1>1, <1>2, <1>5, <1>7, <1>8, <1>9, <3>1, <3>2, <3>3, TakesUp
  <2>3. CASE r # None
    BY <1>3, <1>10, <1>13, <1>14, <1>24, <2>1, <2>3 DEF FetchCleanup
  <2> QED BY <2>2, <2>3
<1> QED
  BY <1>16, <1>17, <1>18, <1>19, <1>20, <1>21, <1>22, <1>23, <1>24 DEF Fetch

\* The commands that write, each with what it leaves of the task in hand.
LEMMA SerialWrite ==
  ASSUME TypeInv, Serial, NEW c \in Calls, Continue(c), \A u \in Tasks : ~Fetch(c, u)
  PROVE  Serial'
<1>1. ~Idle(c)
  BY DEF Continue, Store, Index, SetRecord, Reindex, Enqueue, Dequeue, Count, Take, Watch, Exec,
         Conflict, CountFrom, CountTo, Refetch, Push, Delete, Unindex, Forget, At
<1>2. PICK k : k = call[c] OBVIOUS
<1>3. k \in CallRecord /\ Good(k) BY <1>1, <1>2, InProgress
<1>4. Hand(k) /\ Alone(c) BY <1>1, <1>2 DEF Serial
<1>5. \A d \in Calls : d # c => call'[d] = call[d] BY OthersKeep
<1>6. KnownIds /\ \A u \in Tasks : u # k.task => Settled(u) BY <1>1, <1>2 DEF Serial
<1>7. CASE Watch(c)
  <2> DEFINE n == [k EXCEPT !.step = "fetch"]
  <2>1. k.step = "watch" BY <1>2, <1>7 DEF Watch, At
  <2>2. k.task = None BY <1>4, <2>1 DEF Hand, OfTask
  <2>3. \A u \in Tasks : Settled(u)'
    <3>1. \A u \in Tasks : Settled(u) BY <1>6, <2>2, NoneAssumption
    <3>2. \A u \in Tasks : Same(u) BY <1>7 DEF Watch, Same, store, history
    <3> QED BY <3>1, <3>2, SettledStays
  <2>4. KnownIds' BY <1>6, <1>7 DEF Watch, KnownIds, store, history, Live
  <2>5. call'[c] = n BY <1>2, <1>7 DEF Watch, TypeInv, TypeOK
  <2>6. n \in CallRecord /\ n.step = "fetch" /\ n.op = k.op /\ n.arg = k.arg /\ n.task = None
    BY <1>3, <2>2 DEF CallRecord, Steps
  <2> HIDE DEF n
  <2>7. Hand(n)' BY <1>4, <2>6 DEF Hand, OfTask
  <2>8. ~OfTask(n) BY <2>6 DEF OfTask
  <2> QED BY <1>4, <1>5, <2>3, <2>4, <2>5, <2>6, <2>7, <2>8, CallAssumption, GoesOn
<1>8. CASE ~Watch(c)
  <2>1. k.step \notin {"watch", "fetch"}
    BY <1>2, <1>8 DEF Continue, Store, Index, SetRecord, Reindex, Enqueue, Dequeue, Count, Take,
       Exec, Conflict, CountFrom, CountTo, Refetch, Push, Delete, Unindex, Forget, At
  <2>2. PICK t \in Tasks : t = k.task BY <1>3, <2>1 DEF Good
  <2>3. Halfway(k) BY <1>1, <1>2, <2>1 DEF Serial, OfTask
  <2>4. ASSUME \A u \in Tasks : u # t => Same(u)
        PROVE  \A u \in Tasks : u # t => Settled(u)'
    BY <1>6, <2>2, <2>4, SettledStays
  <2>5. ASSUME \A u \in Tasks : u # t => Same(u), stored \subseteq stored',
               task'[t] # None \/ dlq'[t] # 0 => t \in stored'
        PROVE  KnownIds'
    <3> SUFFICES ASSUME NEW u \in Tasks, task'[u] # None \/ dlq'[u] # 0 PROVE u \in stored'
      BY DEF KnownIds, Live
    <3>1. CASE u # t BY <1>6, <2>5, <3>1 DEF Same, KnownIds, Live
    <3>2. CASE u = t BY <2>5, <3>2
    <3> QED BY <3>1, <3>2
  <2>6. ASSUME \A u \in Tasks : u # t => Same(u), stored \subseteq stored',
               task'[t] # None \/ dlq'[t] # 0 => t \in stored',
               Advance(c), After(k) = "end" => Settled(t)',
               \A n : /\ After(k) # "end" /\ n.step = After(k) /\ n.op = k.op /\ n.task = k.task
                      /\ n.rec = k.rec /\ n.old = k.old /\ n.arg = k.arg
                      => Ready(n)
        PROVE  Serial'
    BY <1>1, <1>2, <1>4, <1>5, <2>2, <2>4, <2>5, <2>6, Moves
  <2>7. /\ Live(t) <=> task[t] # None
        /\ task[t] # None => StatusOf(t) = task[t].status
        /\ task[t] = None => StatusOf(t) = None
        /\ Live(t)' <=> task'[t] # None
        /\ task'[t] # None => StatusOf(t)' = task'[t].status
        /\ task'[t] = None => StatusOf(t)' = None
    BY DEF Live, StatusOf
  <2>8. task[t] # None \/ dlq[t] # 0 => t \in stored BY <1>6 DEF KnownIds, Live
  <2>9. k.step # "unindex" => k.rec \in Record /\ k.rec # None /\ k.rec.status \in Status
    BY <1>3, <2>1, NoneAssumption DEF Good, Record
  <2>10. dlq[t] \in Nat /\ claims[t] \in Nat /\ (task[t] # None => task[t] \in Record)
    BY DEF TypeInv, TypeOK
  <2>11. CASE Store(c)
    <3>1. /\ k.step = "store" /\ Advance(c) /\ stored' = stored \cup {t}
          /\ task' = [task EXCEPT ![t] = k.rec]
          /\ UNCHANGED <<queue, taskIndex, statusIndex, dlq, claims, expired>>
      BY <1>2, <2>2, <2>11 DEF Store, At, WriteRecord
    <3>2. After(k) = "index" BY <3>1 DEF After
    <3>3. \A u \in Tasks : u # t => Same(u) BY <3>1 DEF Same, TypeInv, TypeOK
    <3>4. task'[t] = k.rec BY <3>1 DEF TypeInv, TypeOK
    <3>5. task[t] = None /\ dlq[t] = 0 /\ k.old = None /\ k.op = "create"
      BY <1>4, <2>2, <2>7, <2>8, <3>1 DEF Hand
    <3>6. t \notin taskIndex' /\ Booked(t, k.old)' /\ Buried(t)'
      BY <2>2, <2>3, <2>7, <3>1, <3>5 DEF Halfway, Behind, Listed, Booked, Buried
    <3>7. ASSUME NEW n, n.step = "index", n.op = k.op, n.task = k.task, n.rec = k.rec,
                 n.old = k.old, n.arg = k.arg
          PROVE  Ready(n)
      <4>1. Hand(n)' BY <1>4, <2>2, <3>4, <3>5, <3>7 DEF Hand, OfTask
      <4>2. Halfway(n)' BY <2>2, <3>6, <3>7 DEF Halfway, Behind
      <4> QED BY <4>1, <4>2 DEF Ready
    <3> QED BY <2>6, <3>1, <3>2, <3>3, <3>7
  <2>12. CASE Index(c)
    <3>1. /\ k.step = "index" /\ Advance(c) /\ taskIndex' = taskIndex \cup {t}
          /\ UNCHANGED <<task, queue, statusIndex, dlq, claims, stored, expired>>
      BY <1>2, <2>2, <2>12 DEF Index, At, history
    <3>2. After(k) = "reindex" BY <3>1 DEF After
    <3>3. \A u \in Tasks : u # t => Same(u) BY <3>1 DEF Same
    <3>4. task'[t] = k.rec /\ task[t] = k.rec /\ k.op = "create"
      BY <1>4, <2>2, <3>1 DEF Hand
    <3>5. Listed(t)' /\ Booked(t, k.old)' /\ Buried(t)'
      BY <2>2, <2>3, <2>7, <2>9, <3>1, <3>4 DEF Halfway, Behind, Listed, Booked, Buried
    <3>6. ASSUME NEW n, n.step = "reindex", n.op = k.op, n.task = k.task, n.rec = k.rec,
                 n.old = k.old, n.arg = k.arg
          PROVE  Ready(n)
      <4>1. Hand(n)' BY <1>4, <2>2, <3>4, <3>6 DEF Hand, OfTask
      <4>2. Halfway(n)' BY <2>2, <3>5, <3>6 DEF Halfway, Behind
      <4> QED BY <4>1, <4>2 DEF Ready
    <3> QED BY <2>6, <2>8, <3>1, <3>2, <3>3, <3>6
  <2>13. CASE SetRecord(c)
    <3>1. /\ k.step = "set" /\ Advance(c) /\ task' = [task EXCEPT ![t] = k.rec]
          /\ expired' = IF k.op = "expire" THEN expired \cup {t} ELSE expired
          /\ UNCHANGED <<queue, taskIndex, statusIndex, dlq, claims, stored>>
      BY <1>2, <2>2, <2>13 DEF SetRecord, At, WriteRecord
    <3>2. /\ After(k) \in {"reindex", "dequeue", "enqueue", "end"}
          /\ After(k) = "dequeue" => k.op \in {"cancel", "expire"}
          /\ After(k) = "reindex" => k.op \notin {"cancel", "expire"}
          /\ After(k) = "end" => k.op = "fields"
          /\ After(k) = "enqueue" => k.op = "fields"
      BY <1>4, <3>1 DEF After, Hand
    <3>3. \A u \in Tasks : u # t => Same(u) BY <3>1 DEF Same, TypeInv, TypeOK
    <3>4. task'[t] = k.rec BY <3>1 DEF TypeInv, TypeOK
    <3>5. /\ task[t] # None /\ k.old = StatusOf(t) /\ (k.op = "fields" => k.rec.status = k.old)
          /\ k.op \in {"cancel", "expire"} => k.rec.status = "cancelled"
          /\ k.op = "expire" => k.old \in NotStarted
      BY <1>4, <2>2, <2>7, <3>1 DEF Hand
    <3>6. Booked(t, k.old) BY <2>2, <2>3, <3>1, <3>5 DEF Halfway, Behind
    <3>7. Listed(t)' /\ Booked(t, k.old)' /\ Buried(t)' /\ StatusOf(t)' = k.rec.status
      <4>1. StatusOf(t)' = k.rec.status BY <2>7, <2>9, <3>1, <3>4
      <4>2. Listed(t)' /\ Buried(t)'
        BY <2>2, <2>3, <2>7, <2>9, <3>1, <3>4, <3>5 DEF Halfway, Listed, Buried
      <4>3. expired \subseteq expired' BY <3>1
      <4>4. Booked(t, k.old)' BY <3>1, <3>6, <4>3 DEF Booked
      <4> QED BY <4>1, <4>2, <4>4
    <3>8. k.op = "fields" => Booked(t, StatusOf(t))' /\ Waiting(t)'
      BY <2>2, <2>3, <3>1, <3>5, <3>7 DEF Halfway, Behind, Booked, Waiting
    <3>9. k.op = "expire" => Booked(t, StatusOf(t))'
      BY <3>1, <3>5, <3>6, <3>7 DEF Booked
    <3>10. k.op \in {"cancel", "expire"} => Waiting(t)' BY <3>5, <3>7 DEF Waiting
    <3>11. ASSUME NEW n, After(k) # "end", n.step = After(k), n.op = k.op, n.task = k.task,
                  n.rec = k.rec, n.old = k.old, n.arg = k.arg
           PROVE  Ready(n)
      <4>1. Hand(n)' BY <1>4, <2>2, <3>1, <3>2, <3>4, <3>11 DEF Hand, OfTask
      <4>2. Booked(t, IF Behind(n) THEN k.old ELSE StatusOf(t))'
        BY <3>2, <3>7, <3>8, <3>9, <3>11 DEF Behind
      <4>3. Halfway(n)' BY <2>2, <3>2, <3>7, <3>8, <3>10, <3>11, <4>2 DEF Halfway, Behind
      <4> QED BY <4>1, <4>3 DEF Ready
    <3>12. After(k) = "end" => Settled(t)' BY <3>2, <3>7, <3>8 DEF Settled
    <3> QED BY <2>6, <2>8, <3>1, <3>3, <3>5, <3>11, <3>12
  <2>14. CASE Reindex(c)
    <3>1. /\ k.step = "reindex" /\ Advance(c) /\ MoveIndex(t, k.rec.status, k.old)
          /\ UNCHANGED <<task, queue, taskIndex, dlq, claims, stored, expired>>
      BY <1>2, <2>2, <2>14 DEF Reindex, At, history
    <3>2. After(k) = IF k.op = "cancel" THEN "end" ELSE "enqueue" BY <3>1 DEF After
    <3>3. \A u \in Tasks : u # t => Same(u) BY <3>1 DEF Same, MoveIndex, TypeInv, TypeOK
    <3>4. /\ task'[t] = k.rec /\ task[t] = k.rec
          /\ k.op = "cancel" => k.rec.status = "cancelled"
      BY <1>4, <2>2, <3>1 DEF Hand
    <3>5. Listed(t)' /\ Buried(t)' /\ StatusOf(t)' = k.rec.status
      BY <2>2, <2>3, <2>7, <2>9, <3>1, <3>4 DEF Halfway, Behind, Listed, Buried
    <3>6. Booked(t, k.rec.status)'
      <4>1. Booked(t, k.old) BY <2>2, <2>3, <3>1 DEF Halfway, Behind
      <4> QED BY <2>9, <3>1, <4>1, BookedMoves
    <3>7. Booked(t, StatusOf(t))' BY <3>5, <3>6 DEF Booked
    <3>8. k.op = "cancel" => Waiting(t)' BY <3>4, <3>5 DEF Waiting
    <3>9. ASSUME NEW n, n.step = "enqueue", n.op = k.op, n.task = k.task, n.rec = k.rec,
                 n.old = k.old, n.arg = k.arg
          PROVE  Ready(n)
      <4>1. Hand(n)' BY <1>4, <3>9 DEF Hand, OfTask
      <4>2. Halfway(n)' BY <2>2, <3>5, <3>7, <3>9 DEF Halfway, Behind
      <4> QED BY <4>1, <4>2 DEF Ready
    <3>10. k.op = "cancel" => Settled(t)' BY <3>5, <3>7, <3>8 DEF Settled
    <3> QED BY <2>6, <2>8, <3>1, <3>2, <3>3, <3>9, <3>10
  <2>15. CASE Enqueue(c)
    <3>1. /\ k.step = "enqueue" /\ Advance(c) /\ queue' = queue \cup {t}
          /\ UNCHANGED <<task, taskIndex, statusIndex, dlq, claims, stored, expired>>
      BY <1>2, <2>2, <2>15 DEF Enqueue, At
    <3>2. After(k) \in {"count", "end"} BY <3>1 DEF After
    <3>3. \A u \in Tasks : u # t => Same(u) BY <3>1 DEF Same
    <3>4. StatusOf(t)' = StatusOf(t) BY <2>7, <3>1
    <3>5. Listed(t)' /\ Booked(t, StatusOf(t))' /\ Buried(t)'
      BY <2>2, <2>3, <2>7, <3>1, <3>4 DEF Halfway, Behind, Listed, Booked, Buried
    <3>6. Waiting(t)' BY <3>1 DEF Waiting
    <3>7. Settled(t)' BY <3>5, <3>6 DEF Settled
    <3>8. ASSUME NEW n, n.step = "count", n.op = k.op, n.task = k.task, n.rec = k.rec,
                 n.old = k.old, n.arg = k.arg
          PROVE  Ready(n)
      <4>1. Hand(n)' BY <1>4, <3>8 DEF Hand, OfTask
      <4>2. Halfway(n)' BY <2>2, <3>7, <3>8 DEF Halfway, Behind, Settled
      <4> QED BY <4>1, <4>2 DEF Ready
    <3> QED BY <2>6, <2>8, <3>1, <3>2, <3>3, <3>7, <3>8
  <2>16. CASE Dequeue(c)
    <3>1. /\ k.step = "dequeue" /\ Advance(c) /\ queue' = queue \ {t}
          /\ UNCHANGED <<task, taskIndex, statusIndex, dlq, claims, stored, expired>>
      BY <1>2, <2>2, <2>16 DEF Dequeue, At, history
    <3>2. k.op \in {"cancel", "expire"} /\ k.rec.status = "cancelled" /\ task[t] = k.rec
      BY <1>4, <2>2, <3>1 DEF Hand
    <3>3. After(k) = IF k.op = "cancel" THEN "reindex" ELSE "end"
      BY <3>1, <3>2 DEF After
    <3>4. \A u \in Tasks : u # t => Same(u) BY <3>1 DEF Same
    <3>5. StatusOf(t)' = StatusOf(t) /\ StatusOf(t) = "cancelled"
      BY <2>7, <2>9, <3>1, <3>2
    <3>6. Booked(t, IF k.op = "cancel" THEN k.old ELSE StatusOf(t))
      BY <2>2, <2>3, <3>1 DEF Halfway, Behind
    <3>7. Booked(t, IF k.op = "cancel" THEN k.old ELSE StatusOf(t))'
      BY <3>1, <3>5, <3>6 DEF Booked
    <3>8. Listed(t)' /\ Buried(t)' /\ Waiting(t)'
      BY <2>2, <2>3, <2>7, <3>1, <3>5 DEF Halfway, Behind, Listed, Buried, Waiting
    <3>9. ASSUME NEW n, k.op = "cancel", n.step = "reindex", n.op = k.op, n.task = k.task,
                 n.rec = k.rec, n.old = k.old, n.arg = k.arg
          PROVE  Ready(n)
      <4>1. Hand(n)' BY <1>4, <2>2, <3>1, <3>2, <3>9 DEF Hand, OfTask
      <4>2. Halfway(n)' BY <2>2, <3>7, <3>8, <3>9 DEF Halfway, Behind
      <4> QED BY <4>1, <4>2 DEF Ready
    <3>10. k.op = "expire" => Settled(t)' BY <3>7, <3>8 DEF Settled
    <3> QED BY <2>6, <2>8, <3>1, <3>2, <3>3, <3>4, <3>9, <3>10
  <2>17. ASSUME UNCHANGED <<task, queue, taskIndex, statusIndex, dlq, claims, stored, expired>>
         PROVE  /\ \A u \in Tasks : Same(u)
                /\ Settled(t) => Settled(t)'
    BY <2>17, SettledStays DEF Same
  <2>18. k.step \in {"count", "take", "exec", "countFrom", "countTo", "refetch", "push"} =>
         Settled(t)
    BY <2>2, <2>3 DEF Halfway, Behind, Settled
  <2>19. CASE Count(c) \/ CountFrom(c) \/ CountTo(c)
    <3>1. /\ k.step \in {"count", "countFrom", "countTo"} /\ Advance(c)
          /\ UNCHANGED <<task, queue, taskIndex, statusIndex, dlq, claims, stored, expired>>
      BY <1>2, <2>19 DEF Count, CountFrom, CountTo, At, history
    <3>2. After(k) \in {"countTo", "end"} BY <3>1 DEF After
    <3>3. (\A u \in Tasks : Same(u)) /\ Settled(t)' BY <2>17, <2>18, <3>1
    <3>4. ASSUME NEW n, n.step = "countTo", n.op = k.op, n.task = k.task, n.rec = k.rec,
                 n.old = k.old, n.arg = k.arg
          PROVE  Ready(n)
      <4>1. Hand(n)' BY <1>4, <3>4 DEF Hand, OfTask
      <4>2. Halfway(n)' BY <2>2, <3>3, <3>4 DEF Halfway, Behind, Settled
      <4> QED BY <4>1, <4>2 DEF Ready
    <3> QED BY <2>6, <2>8, <3>1, <3>2, <3>3, <3>4
  <2>20. CASE Take(c)
    <3>1. /\ k.step = "take" /\ queue' = queue \ {t}
          /\ UNCHANGED <<task, taskIndex, statusIndex, dlq, stored, expired>>
      BY <1>2, <2>2, <2>20 DEF Take, At
    <3>2. CASE t \in queue
      <4>1. claims' = [claims EXCEPT ![t] = @ + 1] /\ call'[c] = None
        BY <1>2, <2>2, <2>20, <3>2 DEF Take, Removed, Throw, TypeInv, TypeOK
      <4>2. \A u \in Tasks : u # t => Same(u) BY <3>1, <4>1 DEF Same, TypeInv, TypeOK
      <4>3. Settled(t)'
        <5>1. claims'[t] # 0 BY <2>10, <4>1 DEF TypeInv, TypeOK
        <5>2. Waiting(t)' BY <5>1 DEF Waiting
        <5>3. StatusOf(t)' = StatusOf(t) BY <2>7, <3>1
        <5>4. Listed(t)' /\ Booked(t, StatusOf(t))' /\ Buried(t)'
          BY <2>7, <2>18, <3>1, <5>3 DEF Settled, Listed, Booked, Buried
        <5> QED BY <5>2, <5>4 DEF Settled
      <4>4. \A u \in Tasks : Settled(u)' BY <2>4, <4>2, <4>3
      <4>5. KnownIds' BY <2>5, <2>8, <3>1, <4>2
      <4> QED BY <1>4, <1>5, <4>1, <4>4, <4>5, Returned
    <3>3. CASE t \notin queue
      <4>1. queue' = queue /\ Advance(c) /\ claims' = claims
        BY <1>2, <2>2, <2>20, <3>1, <3>3 DEF Take, Removed
      <4>2. After(k) = "end" BY <3>1 DEF After
      <4>3. (\A u \in Tasks : Same(u)) /\ Settled(t)' BY <2>17, <2>18, <3>1, <4>1
      <4> QED BY <2>6, <2>8, <3>1, <4>1, <4>2, <4>3
    <3> QED BY <3>2, <3>3
  <2>21. CASE Exec(c)
    <3>1. /\ k.step = "exec" /\ Advance(c) /\ task' = [task EXCEPT ![t] = k.rec]
          /\ IF k.rec.status # k.old THEN MoveIndex(t, k.rec.status, k.old)
                                     ELSE UNCHANGED statusIndex
          /\ UNCHANGED <<queue, taskIndex, dlq, claims, stored, expired>>
      BY <1>2, <2>2, <2>21 DEF Exec, At, history
    <3>2. After(k) \in {"countFrom", "end"} BY <3>1 DEF After
    <3>3. \A u \in Tasks : u # t => Same(u) BY <3>1 DEF Same, MoveIndex, TypeInv, TypeOK
    <3>4. task'[t] = k.rec BY <3>1 DEF TypeInv, TypeOK
    <3>5. task[t] # None /\ k.old = StatusOf(t) /\ k.rec.status \in Targets
      BY <1>4, <2>2, <2>7, <3>1 DEF Hand
    <3>6. Listed(t)' /\ Buried(t)' /\ StatusOf(t)' = k.rec.status
      BY <2>7, <2>9, <2>18, <3>1, <3>4, <3>5 DEF Settled, Listed, Buried
    <3>7. Booked(t, k.rec.status)'
      <4>1. Booked(t, k.old) BY <2>18, <3>1, <3>5 DEF Settled
      <4>2. CASE k.rec.status # k.old BY <2>9, <3>1, <4>1, <4>2, BookedMoves
      <4>3. CASE k.rec.status = k.old BY <3>1, <4>1, <4>3 DEF Booked
      <4> QED BY <4>2, <4>3
    <3>8. Booked(t, StatusOf(t))' BY <3>6, <3>7 DEF Booked
    <3>9. Waiting(t)' BY <3>5, <3>6 DEF Waiting
    <3>10. Settled(t)' BY <3>6, <3>8, <3>9 DEF Settled
    <3>11. ASSUME NEW n, n.step = "countFrom", n.op = k.op, n.task = k.task, n.rec = k.rec,
                  n.old = k.old, n.arg = k.arg
           PROVE  Ready(n)
      <4>1. Hand(n)' BY <1>4, <3>11 DEF Hand, OfTask
      <4>2. Halfway(n)' BY <2>2, <3>10, <3>11 DEF Halfway, Behind, Settled
      <4> QED BY <4>1, <4>2 DEF Ready
    <3> QED BY <2>6, <2>7, <2>8, <3>1, <3>2, <3>3, <3>5, <3>10, <3>11
  <2>22. CASE Conflict(c)
    <3>1. /\ k.step = "exec"
          /\ UNCHANGED <<task, queue, taskIndex, statusIndex, dlq, claims, stored, expired>>
      BY <1>2, <2>22 DEF Conflict, At, store, history
    <3>2. (\A u \in Tasks : Same(u)) /\ Settled(t)' BY <2>17, <2>18, <3>1
    <3>3. (\A u \in Tasks : Settled(u)') /\ KnownIds' BY <2>4, <2>5, <2>8, <3>1, <3>2
    <3>4. CASE k.attempt < MaxAttempts
      <4> DEFINE n == [k EXCEPT !.step = "watch", !.todo = {k.task}, !.task = None,
                                !.rec = None, !.old = None, !.attempt = k.attempt + 1]
      <4>1. call'[c] = n BY <1>2, <2>22, <3>4 DEF Conflict, TypeInv, TypeOK
      <4>2. k.attempt + 1 \in 0 .. MaxAttempts
        BY <1>3, <3>4, BoundsAssumption DEF CallRecord
      <4>3. /\ n \in CallRecord /\ n.step = "watch" /\ n.task = None /\ n.op = k.op
            /\ n.arg = k.arg
        <5> DEFINE a == k.attempt + 1
        <5> HIDE DEF a
        <5>1. a \in 0 .. MaxAttempts BY <4>2 DEF a
        <5>2. LET m == [k EXCEPT !.step = "watch", !.todo = {k.task}, !.task = None,
                                 !.rec = None, !.old = None, !.attempt = a]
              IN  /\ m \in CallRecord /\ m.step = "watch" /\ m.task = None /\ m.op = k.op
                  /\ m.arg = k.arg
          BY <1>3, <2>2, <5>1 DEF CallRecord, Steps
        <5> QED BY <5>2 DEF a
      <4> HIDE DEF n
      <4>4. Hand(n)' BY <1>4, <4>3 DEF Hand, OfTask
      <4>5. ~OfTask(n) BY <4>3 DEF OfTask
      <4> QED BY <1>4, <1>5, <3>3, <4>1, <4>3, <4>4, <4>5, CallAssumption, GoesOn
    <3>5. CASE ~(k.attempt < MaxAttempts)
      <4>1. call'[c] = None BY <1>2, <2>22, <3>5 DEF Conflict, Throw, TypeInv, TypeOK
      <4> QED BY <1>4, <1>5, <3>3, <4>1, Returned
    <3> QED BY <3>4, <3>5
  <2>23. CASE Refetch(c)
    <3>1. /\ k.step = "refetch"
          /\ UNCHANGED <<task, queue, taskIndex, statusIndex, dlq, claims, stored, expired>>
      BY <1>2, <2>23 DEF Refetch, ReadOnly, At, store, history
    <3>2. (\A u \in Tasks : Same(u)) /\ Settled(t)' BY <2>17, <2>18, <3>1
    <3>3. (\A u \in Tasks : Settled(u)') /\ KnownIds' BY <2>4, <2>5, <2>8, <3>1, <3>2
    <3>4. k.op = "retry" /\ task[t] # None BY <1>4, <2>2, <2>7, <3>1 DEF Hand
    <3>5. PICK r : r = task[t] OBVIOUS
    <3>6. /\ [r EXCEPT !.status = "failed"] \in Record \cup {None}
          /\ r.status \in Status \cup {None}
      BY <2>10, <3>4, <3>5 DEF Record, Status
    <3>7. Hold(c, t, "push", [r EXCEPT !.status = "failed"], r.status)
      BY <1>2, <2>2, <2>23, <3>4, <3>5 DEF Refetch, BeforeDelete
    <3>8. ASSUME NEW n, n.step = "push", n.op = k.op, n.task = t, n.old = r.status,
                 n.arg = k.arg
          PROVE  Ready(n)
      <4>1. Hand(n)' BY <1>4, <2>7, <3>1, <3>4, <3>5, <3>8 DEF Hand, OfTask
      <4>2. Halfway(n)' BY <3>2, <3>8 DEF Halfway, Behind, Settled
      <4> QED BY <4>1, <4>2 DEF Ready
    <3>9. "push" \in Steps \ {"watch", "fetch"} BY DEF Steps
    <3> QED BY <1>1, <1>2, <1>4, <1>5, <3>3, <3>6, <3>7, <3>8, <3>9, TakesUp
  <2>24. CASE Push(c)
    <3>1. /\ k.step = "push" /\ Advance(c) /\ dlq' = [dlq EXCEPT ![t] = @ + 1]
          /\ UNCHANGED <<task, queue, taskIndex, statusIndex, claims, stored, expired>>
      BY <1>2, <2>2, <2>24 DEF Push, At, history
    <3>2. After(k) = "delete" BY <3>1 DEF After, AfterPush
    <3>3. \A u \in Tasks : u # t => Same(u) BY <3>1 DEF Same, TypeInv, TypeOK
    <3>4. k.op = "retry" /\ task[t] # None /\ k.old = StatusOf(t)
      BY <1>4, <2>2, <2>7, <3>1 DEF Hand
    <3>5. dlq'[t] = 1
      <4>1. dlq[t] = 0 BY <2>7, <2>10, <2>18, <3>1, <3>4 DEF Settled, Buried
      <4> QED BY <3>1, <4>1 DEF TypeInv, TypeOK
    <3>6. StatusOf(t)' = StatusOf(t) BY <2>7, <3>1
    <3>7. Listed(t)' /\ Booked(t, StatusOf(t))' /\ Waiting(t)'
      BY <2>7, <2>18, <3>1, <3>6 DEF Settled, Listed, Booked, Waiting
    <3>8. ASSUME NEW n, n.step = "delete", n.op = k.op, n.task = k.task, n.rec = k.rec,
                 n.old = k.old, n.arg = k.arg
          PROVE  Ready(n)
      <4>1. Hand(n)' BY <1>4, <2>2, <2>7, <3>1, <3>4, <3>6, <3>8 DEF Hand, OfTask
      <4>2. Halfway(n)' BY <2>2, <3>4, <3>5, <3>7, <3>8 DEF Halfway, Behind
      <4> QED BY <4>1, <4>2 DEF Ready
    <3> QED BY <2>6, <2>8, <3>1, <3>2, <3>3, <3>4, <3>8
  <2>25. CASE Delete(c)
    <3>1. /\ k.step = "delete" /\ Advance(c) /\ task' = [task EXCEPT ![t] = None]
          /\ UNCHANGED <<queue, taskIndex, statusIndex, dlq, claims, stored, expired>>
      BY <1>2, <2>2, <2>25 DEF Delete, At, WriteRecord
    <3>2. After(k) = "unindex" BY <3>1 DEF After
    <3>3. \A u \in Tasks : u # t => Same(u) BY <3>1 DEF Same, TypeInv, TypeOK
    <3>4. task'[t] = None BY <3>1 DEF TypeInv, TypeOK
    <3>5. task[t] # None /\ k.old = StatusOf(t) /\ k.rec # None
      BY <1>4, <2>2, <2>7, <2>9, <3>1 DEF Hand
    <3>6. t \in taskIndex' /\ Booked(t, k.old)' /\ Waiting(t)'
      BY <2>2, <2>3, <2>7, <3>1, <3>4, <3>5, NoneAssumption
         DEF Halfway, Behind, Listed, Booked, Waiting, Status
    <3>7. Buried(t)' BY <2>2, <2>3, <2>7, <3>1, <3>4 DEF Halfway, Behind, Buried
    <3>8. ASSUME NEW n, n.step = "unindex", n.op = k.op, n.task = k.task, n.rec = k.rec,
                 n.old = k.old, n.arg = k.arg
          PROVE  Ready(n)
      <4>1. Hand(n)' BY <1>4, <2>2, <2>7, <3>4, <3>5, <3>8 DEF Hand, OfTask
      <4>2. Halfway(n)' BY <2>2, <3>5, <3>6, <3>7, <3>8 DEF Halfway, Behind
      <4> QED BY <4>1, <4>2 DEF Ready
    <3> QED BY <2>6, <2>8, <3>1, <3>2, <3>3, <3>5, <3>8
  <2>26. CASE Unindex(c)
    <3>1. /\ k.step = "unindex" /\ Advance(c) /\ taskIndex' = taskIndex \ {t}
          /\ UNCHANGED <<task, queue, statusIndex, dlq, claims, stored, expired>>
      BY <1>2, <2>2, <2>26 DEF Unindex, At, history
    <3>2. After(k) = IF k.rec # None THEN "forget" ELSE "end" BY <3>1 DEF After
    <3>3. \A u \in Tasks : u # t => Same(u) BY <3>1 DEF Same
    <3>4. task'[t] = None /\ task[t] = None /\ (k.rec = None => k.old = None)
      BY <1>4, <2>2, <2>7, <3>1 DEF Hand
    <3>5. Listed(t)' /\ Booked(t, k.old)' /\ Buried(t)' /\ Waiting(t)'
      BY <2>2, <2>3, <2>7, <3>1, <3>4 DEF Halfway, Behind, Listed, Booked, Buried, Waiting
    <3>6. k.rec = None => Settled(t)'
      BY <2>7, <3>4, <3>5 DEF Settled, Booked
    <3>7. ASSUME NEW n, n.step = "forget", n.op = k.op, n.task = k.task, n.rec = k.rec,
                 n.old = k.old, n.arg = k.arg
          PROVE  Ready(n)
      <4>1. Hand(n)' BY <1>4, <2>2, <2>7, <3>4, <3>7 DEF Hand, OfTask
      <4>2. Halfway(n)' BY <2>2, <3>5, <3>7 DEF Halfway, Behind
      <4> QED BY <4>1, <4>2 DEF Ready
    <3> QED BY <2>6, <2>8, <3>1, <3>2, <3>3, <3>6, <3>7
  <2>27. CASE Forget(c)
    <3>1. /\ k.step = "forget" /\ Advance(c)
          /\ statusIndex' = [statusIndex EXCEPT ![k.old] = @ \ {t}]
          /\ UNCHANGED <<task, queue, taskIndex, dlq, claims, stored, expired>>
      BY <1>2, <2>2, <2>27 DEF Forget, At, history
    <3>2. After(k) = "end" /\ k.old \in Status BY <1>3, <3>1 DEF After, Good
    <3>3. \A u \in Tasks : u # t => Same(u) BY <3>1 DEF Same, TypeInv, TypeOK
    <3>4. task'[t] = None /\ task[t] = None BY <1>4, <2>2, <2>7, <3>1 DEF Hand
    <3>5. Listed(t)' /\ Buried(t)' /\ Waiting(t)' /\ StatusOf(t)' = None
      BY <2>2, <2>3, <2>7, <3>1, <3>4 DEF Halfway, Behind, Listed, Buried, Waiting
    <3>6. Booked(t, None)'
      BY <2>2, <2>3, <3>1, <3>2, NoneAssumption DEF Halfway, Behind, Booked, TypeInv, TypeOK
    <3>7. Settled(t)' BY <3>5, <3>6 DEF Settled, Booked
    <3> QED BY <2>6, <2>8, <3>1, <3>2, <3>3, <3>4, <3>7
  <2> QED
    BY <1>8, <2>11, <2>12, <2>13, <2>14, <2>15, <2>16, <2>19, <2>20, <2>21, <2>22, <2>23, <2>24,
       <2>25, <2>26, <2>27 DEF Continue
<1> QED BY <1>7, <1>8

LEMMA SerialNext == TypeInv /\ SerialInv /\ [Next]_vars => SerialInv'
<1> SUFFICES ASSUME TypeInv, SerialInv, [Next]_vars, ~disturbed' PROVE Serial'
  BY DEF SerialInv
<1>1. ASSUME NEW c \in Calls, Start(c) PROVE Serial'
  <2>1. ~disturbed
    BY <1>1 DEF Start, BeginCreate, BeginOn, BeginUpdate, BeginClaim, BeginRecover, BeginExpire,
       BeginCleanup, Scan, Begin
  <2> QED BY <1>1, <2>1, SerialStart DEF SerialInv
<1>2. ASSUME NEW c \in Calls, Continue(c) PROVE Serial'
  <2>1. disturbed' = disturbed
    BY <1>2 DEF Continue, Fetch, FetchRetry, FetchCancel, FetchRequeue, FetchFields, FetchUpdate,
       FetchClaim, FetchRecover, FetchExpire, FetchCleanup, ReadOnly, Store, Index, SetRecord,
       Reindex, Enqueue, Dequeue, Count, Take, Watch, Exec, Conflict, CountFrom, CountTo, Refetch,
       Push, Delete, Unindex, Forget, opened
  <2>2. Serial BY <2>1 DEF SerialInv
  <2> QED BY <1>2, <2>2, SerialFetch, SerialWrite
<1>3. ASSUME NEW c \in Calls, Crash(c) PROVE FALSE
  BY <1>3 DEF Crash
<1>4. CASE UNCHANGED vars
  <2>1. Serial BY <1>4 DEF SerialInv, vars, opened
  <2> QED
    BY <1>4, <2>1 DEF vars, store, history, opened, Serial, Alone, Idle, Hand, OfTask, Halfway, Behind,
       Settled, Listed, Booked, Buried, Waiting, StatusOf, Live, KnownIds
<1> QED BY <1>1, <1>2, <1>3, <1>4 DEF Next

LEMMA SerialAlways == Spec => [](TypeInv /\ SerialInv)
BY TypeInit, TypeNext, SerialInit, SerialNext, PTL DEF Spec

LEMMA QuietSettled ==
  ASSUME TypeInv, SerialInv, Quiet
  PROVE  \A t \in Tasks : Settled(t)
BY DEF SerialInv, Serial, Quiet

\* As long as calls come one after the other, tasks:index lists exactly the
\* stored tasks and each status index exactly the tasks with that status,
\* whatever is called and in whatever order, but for the entries of tasks that
\* expireStaleTasks has cancelled: these may be missing from the index of the
\* cancelled, and linger in those of tasks that have not started.
THEOREM IndicesAreExact == Spec => []IndexExact
<1>1. TypeInv /\ SerialInv => IndexExact
  <2> SUFFICES
        ASSUME TypeInv, SerialInv, Quiet
        PROVE  /\ taskIndex = {t \in Tasks : Live(t)}
               /\ \A s \in Status :
                    /\ InStatus(s) \ statusIndex[s]
                         \subseteq IF s = "cancelled" THEN expired ELSE {}
                    /\ statusIndex[s] \ InStatus(s)
                         \subseteq IF s \in NotStarted THEN expired ELSE {}
    BY DEF IndexExact
  <2>1. \A t \in Tasks : Settled(t) BY QuietSettled
  <2>2. taskIndex = {t \in Tasks : Live(t)} BY <2>1 DEF Settled, Listed, TypeInv, TypeOK
  <2>3. ASSUME NEW s \in Status, NEW t \in Tasks
        PROVE  /\ t \in InStatus(s) <=> s = StatusOf(t)
               /\ s = StatusOf(t) => t \in statusIndex[s] \/ (s = "cancelled" /\ t \in expired)
               /\ t \in statusIndex[s] => s = StatusOf(t) \/ (s \in NotStarted /\ t \in expired)
    <3>1. t \in InStatus(s) <=> s = StatusOf(t) BY NoneAssumption DEF InStatus, StatusOf
    <3> QED BY <2>1, <3>1 DEF Settled, Booked
  <2>4. \A s \in Status : statusIndex[s] \subseteq Tasks /\ InStatus(s) \subseteq Tasks
    BY DEF TypeInv, TypeOK, InStatus
  <2> QED BY <2>2, <2>3, <2>4
<1> QED BY <1>1, SerialAlways, PTL

\* As long as calls come one after the other, a dead-lettered task is in the
\* dead letter queue once and its record is gone.
THEOREM DeadLettersAreGone == Spec => []DeadIsGone
<1>1. TypeInv /\ SerialInv => DeadIsGone BY QuietSettled DEF DeadIsGone, Settled, Buried
<1> QED BY <1>1, SerialAlways, PTL

\* As long as calls come one after the other and no caller sets the status
\* pending or retry (none does), a task that waits for its first run or for a
\* retry and was never handed out is on the queue.
THEOREM NobodyIsStranded ==
  ASSUME Targets \cap {"pending", "retry"} = {}
  PROVE  Spec => []NoneStranded
<1>1. TypeInv /\ SerialInv => NoneStranded
  <2> SUFFICES ASSUME TypeInv, SerialInv, Quiet,
                      NEW t \in InStatus("pending") \cup InStatus("retry"), claims[t] = 0
               PROVE  t \in queue
    BY DEF NoneStranded
  <2>1. t \in Tasks /\ Live(t) /\ task[t].status \in {"pending", "retry"} BY DEF InStatus
  <2>2. StatusOf(t) \in {"pending", "retry"} BY <2>1 DEF StatusOf
  <2>3. Waiting(t) BY <2>1, QuietSettled DEF Settled
  <2> QED BY <2>2, <2>3 DEF Waiting
<1> QED BY <1>1, SerialAlways, PTL

-----------------------------------------------------------------------------
(* The counters.                                                           *)

Working == Buckets \ {"pending"}

\* createTask, and the calls that SET a record without a transaction, write
\* none of the statuses that are counted.
Harmless ==
  \A c \in Calls : At(c, "store") \/ At(c, "set") => call[c].rec.status \notin Working

CountInv == Harmless /\ CountersHideNothing

\* The calls that still have to add to, and to take from, a counter.
Gains(s) == {c \in Calls : /\ At(c, "countFrom") \/ At(c, "countTo")
                           /\ call[c].rec.status = s}
Losses(s) == {c \in Calls : At(c, "countFrom") /\ call[c].old = s}

LEMMA EntersSet ==
  ASSUME TypeInv, NEW c \in Calls, Start(c) \/ Continue(c) \/ Crash(c),
         At(c, "store")' \/ At(c, "set")'
  PROVE  call'[c].rec.status \notin Working
<1> USE DEF TypeInv, TypeOK
<1>1. ASSUME ~Idle(c), Advance(c) PROVE FALSE
  BY <1>1, AdvanceStep DEF After, AfterPush
<1>2. ASSUME Throw(c) PROVE FALSE
  BY <1>2 DEF Throw, At, Idle
<1>3. ASSUME NEW t, ~Idle(c), Skip(c, t) PROVE FALSE
  BY <1>3, InProgress DEF Skip, LeaveTask, At, Idle, CallRecord
<1>4. ASSUME NEW t, NEW s, NEW rec, NEW old, ~Idle(c), Hold(c, t, s, rec, old)
      PROVE s \in {"store", "set"} /\ call'[c].rec = rec
  BY <1>4, InProgress DEF Hold, At, Idle, CallRecord
<1>5. {"pending", "retry", "cancelled", "queued", "blocked"} \cap Working = {}
  BY DEF Working, Buckets
<1>6. CASE Start(c)
  <2>1. PICK n : /\ call' = [call EXCEPT ![c] = n] /\ n.step \in {"store", "fetch", "watch"}
                 /\ n.step = "store" => n.rec.status = "pending"
    BY <1>6, StartStep
  <2> QED BY <1>5, <2>1 DEF At, Idle
<1>7. ASSUME NEW t \in Tasks, Fetch(c, t) PROVE call'[c].rec.status \notin Working
  <2>1. ~Idle(c) /\ call[c] \in CallRecord
    BY <1>7, InProgress DEF Fetch, Fetching, At, FetchRetry, FetchCancel, FetchRequeue,
       FetchFields, FetchUpdate, FetchClaim, FetchRecover, FetchExpire, FetchCleanup
  <2>2. PICK r : r = task[t] OBVIOUS
  <2>3. r # None => r \in Record BY <2>2
  <2>4. r # None => /\ Retried(r).status = "retry"
                    /\ [r EXCEPT !.status = "cancelled"].status = "cancelled"
                    /\ [r EXCEPT !.status = "queued"].status = "queued"
    BY <2>3 DEF Record, Retried
  <2>5. CASE FetchRetry(c, t)
    BY <1>2, <1>4, <1>5, <2>1, <2>2, <2>4, <2>5 DEF FetchRetry
  <2>6. CASE FetchCancel(c, t)
    <3>1. r # None /\ Hold(c, t, "set", [r EXCEPT !.status = "cancelled"], r.status)
      BY <1>2, <2>2, <2>6 DEF FetchCancel
    <3> QED BY <1>4, <1>5, <2>1, <2>4, <3>1
  <2>7. CASE FetchRequeue(c, t)
    BY <1>2, <1>4, <1>5, <2>1, <2>2, <2>4, <2>7 DEF FetchRequeue
  <2>8. CASE FetchFields(c, t)
    <3>1. PICK kind, limit :
            /\ r # None /\ r.status \in Modifiable
            /\ call' = [call EXCEPT ![c] =
                 [call[c] EXCEPT !.step = "set", !.todo = call[c].todo \ {t},
                                 !.task = t, !.rec = [r EXCEPT !.limit = limit],
                                 !.old = r.status, !.arg = kind]]
      BY <1>2, <2>2, <2>8 DEF FetchFields
    <3> DEFINE rec == [r EXCEPT !.limit = limit]
    <3>2. rec.status = r.status BY <2>3, <3>1 DEF Record
    <3> HIDE DEF rec
    <3>3. call'[c].rec = rec BY <2>1, <3>1 DEF CallRecord, rec
    <3> QED BY <1>5, <3>1, <3>2, <3>3 DEF Modifiable
  <2>9. CASE FetchUpdate(c, t) BY <1>2, <1>4, <2>1, <2>9 DEF FetchUpdate
  <2>10. CASE FetchClaim(c, t) BY <1>3, <1>4, <2>1, <2>10 DEF FetchClaim
  <2>11. CASE FetchRecover(c, t)
    BY <1>3, <1>4, <1>5, <2>1, <2>2, <2>4, <2>11 DEF FetchRecover
  <2>12. CASE FetchExpire(c, t)
    BY <1>3, <1>4, <1>5, <2>1, <2>2, <2>4, <2>12 DEF FetchExpire
  <2>13. CASE FetchCleanup(c, t) BY <1>3, <1>4, <2>1, <2>13 DEF FetchCleanup
  <2> QED
    BY <1>7, <2>5, <2>6, <2>7, <2>8, <2>9, <2>10, <2>11, <2>12, <2>13 DEF Fetch
<1>8. CASE Continue(c) /\ \A t \in Tasks : ~Fetch(c, t)
  <2>1. ~Idle(c) /\ call[c] \in CallRecord
    BY <1>8, InProgress DEF Continue, Store, Index, SetRecord, Reindex, Enqueue,
       Dequeue, Count, Take, Watch, Exec, Conflict, CountFrom, CountTo, Refetch,
       Push, Delete, Unindex, Forget, At
  <2>2. ASSUME Watch(c) PROVE FALSE BY <2>1, <2>2 DEF Watch, At, Idle, CallRecord
  <2>3. ASSUME Conflict(c) PROVE FALSE BY <2>3, ConflictStep
  <2> QED
    BY <1>1, <1>2, <1>4, <1>8, <2>1, <2>2, <2>3
       DEF Continue, Store, Index, SetRecord, Reindex, Enqueue, Dequeue, Count,
           Take, Exec, CountFrom, CountTo, Refetch, BeforeDelete, Push, Delete, Unindex,
           Forget
<1>9. ASSUME Crash(c) PROVE FALSE BY <1>9 DEF Crash, At, Idle
<1> QED BY <1>6, <1>7, <1>8, <1>9 DEF Continue

\* Only a transaction that has committed goes on to the counters.
LEMMA EntersCount ==
  ASSUME TypeInv, NEW c \in Calls, Start(c) \/ Continue(c) \/ Crash(c),
         At(c, "countFrom")' \/ At(c, "countTo")'
  PROVE  \/ Exec(c) /\ At(c, "countFrom")' /\ call'[c].rec = call[c].rec
            /\ call'[c].old = call[c].old /\ call[c].rec.status # call[c].old
         \/ CountFrom(c) /\ At(c, "countTo")' /\ call'[c].rec = call[c].rec
<1> USE DEF TypeInv, TypeOK
<1>1. ASSUME ~Idle(c), Advance(c)
      PROVE  \/ call[c].step = "exec" /\ At(c, "countFrom")' /\ call[c].rec.status # call[c].old
             \/ call[c].step = "countFrom" /\ At(c, "countTo")'
  BY <1>1, AdvanceStep DEF After, AfterPush
<1>2. ASSUME Throw(c) PROVE FALSE
  BY <1>2 DEF Throw, At, Idle
<1>3. ASSUME NEW t, ~Idle(c), Skip(c, t) PROVE FALSE
  BY <1>3, InProgress DEF Skip, LeaveTask, At, Idle, CallRecord
<1>4. ASSUME NEW t, NEW s, NEW rec, NEW old, s \notin {"countFrom", "countTo"}, ~Idle(c),
             Hold(c, t, s, rec, old)
      PROVE FALSE
  BY <1>4, InProgress DEF Hold, At, Idle, CallRecord
<1>5. CASE Start(c)
  <2>1. PICK n : call' = [call EXCEPT ![c] = n] /\ n.step \in {"store", "fetch", "watch"}
    BY <1>5, StartStep
  <2> QED BY <2>1 DEF At, Idle
<1>6. ASSUME NEW t \in Tasks, Fetch(c, t) PROVE FALSE
  <2>1. ~Idle(c) /\ call[c] \in CallRecord
    BY <1>6, InProgress DEF Fetch, Fetching, At, FetchRetry, FetchCancel, FetchRequeue,
       FetchFields, FetchUpdate, FetchClaim, FetchRecover, FetchExpire, FetchCleanup
  <2>2. CASE FetchFields(c, t)
    BY <1>2, <2>1, <2>2 DEF FetchFields, At, Idle, CallRecord
  <2> QED
    BY <1>2, <1>3, <1>4, <1>6, <2>1, <2>2 DEF Fetch, FetchRetry, FetchCancel, FetchRequeue,
       FetchUpdate, FetchClaim, FetchRecover, FetchExpire, FetchCleanup
<1>7. CASE Continue(c) /\ \A t \in Tasks : ~Fetch(c, t)
  <2>1. ~Idle(c) /\ call[c] \in CallRecord
    BY <1>7, InProgress DEF Continue, Store, Index, SetRecord, Reindex, Enqueue,
       Dequeue, Count, Take, Watch, Exec, Conflict, CountFrom, CountTo, Refetch,
       Push, Delete, Unindex, Forget, At
  <2>2. ASSUME Watch(c) PROVE FALSE BY <2>1, <2>2 DEF Watch, At, Idle, CallRecord
  <2>3. ASSUME Conflict(c) PROVE FALSE BY <2>3, ConflictStep
  <2>4. ASSUME Advance(c), At(c, "countFrom")' \/ At(c, "countTo")'
        PROVE  call'[c].rec = call[c].rec /\ call'[c].old = call[c].old
    <3> DEFINE k == call[c]
    <3>1. call'[c] = IF After(k) = "end" THEN LeaveTask(k, k.todo)
                                         ELSE [k EXCEPT !.step = After(k)]
      BY <2>4 DEF Advance
    <3>2. After(k) # "end"
      BY <2>1, <2>4, <3>1 DEF LeaveTask, At, Idle, CallRecord
    <3> QED BY <2>1, <3>1, <3>2 DEF CallRecord
  <2> QED
    BY <1>1, <1>2, <1>4, <1>7, <2>1, <2>2, <2>3, <2>4
       DEF Continue, Store, Index, SetRecord, Reindex, Enqueue, Dequeue, Count, At,
           Take, Exec, CountFrom, CountTo, Refetch, BeforeDelete, Push, Delete, Unindex,
           Forget
<1>8. ASSUME Crash(c) PROVE FALSE BY <1>8 DEF Crash, At, Idle
<1> QED BY <1>5, <1>6, <1>7, <1>8 DEF Continue

\* What a counter owes and what it has to count, as numbers.
LEMMA CountSizes ==
  ASSUME NEW s
  PROVE  /\ IsFiniteSet(Gains(s)) /\ IsFiniteSet(Losses(s)) /\ IsFiniteSet(InStatus(s))
         /\ Cardinality(Gains(s)) \in Nat /\ Cardinality(Losses(s)) \in Nat
         /\ Cardinality(InStatus(s)) \in Nat
         /\ Owed(s) = Cardinality(Gains(s)) - Cardinality(Losses(s))
<1>1. /\ Gains(s) \subseteq Calls /\ Losses(s) \subseteq Calls /\ InStatus(s) \subseteq Tasks
  BY DEF Gains, Losses, InStatus
<1>2. IsFiniteSet(Gains(s)) /\ IsFiniteSet(Losses(s)) /\ IsFiniteSet(InStatus(s))
  BY <1>1, FiniteAssumption, FS_Subset
<1> QED BY <1>2, FS_CardinalityType DEF Owed, Gains, Losses

LEMMA CountInit == Init => CountInv
<1> SUFFICES ASSUME Init PROVE CountInv
  OBVIOUS
<1>1. Harmless BY DEF Init, Harmless, At, Idle
<1>2. ASSUME NEW s \in Working PROVE stats[s] + Owed(s) >= Cardinality(InStatus(s))
  <2>1. Gains(s) = {} /\ Losses(s) = {} /\ InStatus(s) = {}
    BY DEF Init, Gains, Losses, InStatus, Live, At, Idle
  <2>2. Owed(s) = Cardinality(Gains(s)) - Cardinality(Losses(s)) BY CountSizes
  <2>3. Cardinality({}) = 0 BY FS_EmptySet
  <2>4. stats[s] = 0 BY <1>2 DEF Init, Working
  <2>5. Owed(s) = 0 BY <2>1, <2>2, <2>3
  <2> QED BY <2>1, <2>3, <2>4, <2>5
<1> QED BY <1>1, <1>2 DEF CountInv, CountersHideNothing, Working

\* One counter and one status, before and after a step.
LEMMA Balance ==
  ASSUME NEW s, stats[s] \in Int, stats[s] + Owed(s) >= Cardinality(InStatus(s)),
         NEW x \in Int, NEW g \in Int, NEW l \in Int, NEW i \in Int,
         stats'[s] = stats[s] + x,
         Cardinality(Gains(s)') = Cardinality(Gains(s)) + g,
         Cardinality(Losses(s)') = Cardinality(Losses(s)) + l,
         Cardinality(InStatus(s)') =< Cardinality(InStatus(s)) + i,
         x + g - l >= i
  PROVE  (stats[s] + Owed(s) >= Cardinality(InStatus(s)))'
<1>1. Owed(s)' = Cardinality(Gains(s)') - Cardinality(Losses(s)')
  BY DEF Owed, Gains, Losses
<1>2. PICK a, b, e, e1 :
        a = Cardinality(Gains(s)) /\ b = Cardinality(Losses(s)) /\ e = Cardinality(InStatus(s))
        /\ e1 = Cardinality(InStatus(s)')
  OBVIOUS
<1>3. a \in Nat /\ b \in Nat /\ e \in Nat /\ Owed(s) = a - b BY <1>2, CountSizes
<1>4. InStatus(s)' \subseteq Tasks BY DEF InStatus
<1>5. e1 \in Nat BY <1>2, <1>4, FiniteAssumption, FS_Subset, FS_CardinalityType
<1>6. Owed(s)' = (a + g) - (b + l) BY <1>1, <1>2
<1>7. PICK y : y = stats[s] OBVIOUS
<1>8. y \in Int /\ y + (a - b) >= e /\ e1 =< e + i BY <1>2, <1>3, <1>7
<1>9. (y + x) + ((a + g) - (b + l)) >= e1 BY <1>3, <1>5, <1>8
<1>10. stats'[s] = y + x BY <1>7
<1> QED BY <1>2, <1>6, <1>9, <1>10

LEMMA CountNext == TypeInv /\ CommitsWhatItRead /\ CountInv /\ [Next]_vars => CountInv'
<1> SUFFICES ASSUME TypeInv, CommitsWhatItRead, CountInv, [Next]_vars PROVE CountInv'
  OBVIOUS
<1>1. CASE UNCHANGED vars
  BY <1>1 DEF vars, store, CountInv, Harmless, CountersHideNothing, Owed, InStatus, Live, At, Idle
<1>2. ASSUME NEW c \in Calls, Start(c) \/ Continue(c) \/ Crash(c) PROVE CountInv'
  <2>1. Harmless'
    <3> SUFFICES ASSUME NEW d \in Calls, At(d, "store")' \/ At(d, "set")'
                 PROVE  call'[d].rec.status \notin Working
      BY DEF Harmless, At, Idle
    <3>1. CASE d = c BY <1>2, <3>1, EntersSet
    <3>2. CASE d # c
      <4>1. call'[d] = call[d] BY <1>2, <3>2, OthersKeep
      <4> QED BY <4>1 DEF CountInv, Harmless, At, Idle
    <3> QED BY <3>1, <3>2
  <2>2. ASSUME crashes' = 0, NEW s \in Working
        PROVE  (stats[s] + Owed(s) >= Cardinality(InStatus(s)))'
    <3>1. crashes = 0 /\ ~Crash(c)
      <4>1. crashes' = crashes \/ crashes' = crashes + 1
        BY <1>2 DEF Start, BeginCreate, BeginOn, BeginUpdate, BeginClaim, BeginRecover,
           BeginExpire, BeginCleanup, Scan, Fetch, FetchRetry, FetchCancel, FetchRequeue,
           FetchFields, FetchUpdate, FetchClaim, FetchRecover, FetchExpire, FetchCleanup,
           ReadOnly, Continue, Store, Index, SetRecord, Reindex, Enqueue, Dequeue, Count, Take,
           Watch, Exec, Conflict, CountFrom, CountTo, Refetch, Push, Delete, Unindex, Forget, Crash
      <4>2. crashes \in Nat BY DEF TypeInv, TypeOK
      <4> QED BY <2>2, <4>1, <4>2 DEF Crash
    <3>2. stats[s] \in Int /\ stats[s] + Owed(s) >= Cardinality(InStatus(s))
      BY <3>1 DEF CountInv, CountersHideNothing, Working, TypeInv, TypeOK
    <3>3. \A d \in Calls : d # c => call'[d] = call[d] BY <1>2, OthersKeep
    <3>4. /\ IsFiniteSet(Gains(s)) /\ IsFiniteSet(Losses(s)) /\ IsFiniteSet(InStatus(s))
          /\ Cardinality(Gains(s)) \in Nat /\ Cardinality(Losses(s)) \in Nat
          /\ Cardinality(InStatus(s)) \in Nat
      BY CountSizes
    <3>5. PICK k : k = call[c] OBVIOUS
    <3>6. \A d \in Calls : d # c => /\ d \in Gains(s)' <=> d \in Gains(s)
                                    /\ d \in Losses(s)' <=> d \in Losses(s)
      BY <3>3 DEF Gains, Losses, At, Idle
    <3>7. Gains(s) \subseteq Calls /\ Gains(s)' \subseteq Calls
          /\ Losses(s) \subseteq Calls /\ Losses(s)' \subseteq Calls
      BY DEF Gains, Losses
    <3>8. CASE Exec(c)
      <4>1. /\ ~Idle(c) /\ k.step = "exec" /\ c \notin dirty
            /\ task' = [task EXCEPT ![k.task] = k.rec] /\ stats' = stats /\ Advance(c)
        BY <3>5, <3>8 DEF Exec, At
      <4>2. k \in CallRecord /\ k.task \in Tasks /\ k.rec \in Record /\ k.old \in Status
        BY <3>5, <4>1, InProgress DEF Good
      <4>3. task[k.task] = [k.rec EXCEPT !.status = k.old]
        BY <3>5, <3>8, <4>1 DEF Exec, CommitsWhatItRead
      <4>4. task[k.task] # None /\ task[k.task].status = k.old /\ k.rec # None
        <5>1. [k.rec EXCEPT !.status = k.old] \in Record
              /\ [k.rec EXCEPT !.status = k.old].status = k.old
          BY <4>2 DEF Record
        <5> QED BY <4>2, <4>3, <5>1, NoneAssumption
      <4>5. /\ k.task \in InStatus(s) <=> k.old = s
            /\ k.task \in InStatus(s)' <=> k.rec.status = s
            /\ \A t \in Tasks : t # k.task => (t \in InStatus(s)' <=> t \in InStatus(s))
            /\ InStatus(s) \subseteq Tasks /\ InStatus(s)' \subseteq Tasks
        BY <4>1, <4>2, <4>4 DEF InStatus, Live, TypeInv, TypeOK
      <4>6. c \notin Gains(s) /\ c \notin Losses(s) BY <3>5, <4>1 DEF Gains, Losses, At
      <4>7. CASE k.rec.status = k.old
        <5>1. ~At(c, "countFrom")' /\ ~At(c, "countTo")'
          BY <1>2, <3>5, <4>1, <4>7, EntersCount DEF CountFrom, At
        <5>2. c \notin Gains(s)' /\ c \notin Losses(s)' BY <5>1 DEF Gains, Losses, At, Idle
        <5>3. Gains(s)' = Gains(s) /\ Losses(s)' = Losses(s) BY <3>6, <3>7, <4>6, <5>2
        <5>4. InStatus(s)' = InStatus(s) BY <4>5, <4>7
        <5>5. /\ stats'[s] = stats[s] + 0 /\ Cardinality(Gains(s)') = Cardinality(Gains(s)) + 0
              /\ Cardinality(Losses(s)') = Cardinality(Losses(s)) + 0
              /\ Cardinality(InStatus(s)') =< Cardinality(InStatus(s)) + 0
          BY <3>2, <3>4, <4>1, <5>3, <5>4
        <5> QED BY <3>2, <5>5, Balance
      <4>8. CASE k.rec.status # k.old
        <5>1. call'[c] = [k EXCEPT !.step = "countFrom"]
          BY <3>5, <4>1, <4>8 DEF Advance, After, TypeInv, TypeOK
        <5>2. [k EXCEPT !.step = "countFrom"] # None
              /\ [k EXCEPT !.step = "countFrom"].step = "countFrom"
              /\ [k EXCEPT !.step = "countFrom"].rec = k.rec
              /\ [k EXCEPT !.step = "countFrom"].old = k.old
          <6>1. [k EXCEPT !.step = "countFrom"] \in CallRecord BY <4>2 DEF CallRecord, Steps
          <6> QED BY <4>2, <6>1, CallAssumption DEF CallRecord
        <5>3. /\ c \in Gains(s)' <=> k.rec.status = s
              /\ c \in Losses(s)' <=> k.old = s
          BY <5>1, <5>2 DEF Gains, Losses, At, Idle
        <5>4. CASE s = k.rec.status
          <6>1. Gains(s)' = Gains(s) \cup {c} /\ Losses(s)' = Losses(s)
                /\ InStatus(s)' = InStatus(s) \cup {k.task} /\ k.task \notin InStatus(s)
            BY <3>6, <3>7, <4>2, <4>5, <4>6, <4>8, <5>3, <5>4
          <6>2. /\ Cardinality(Gains(s) \cup {c}) = Cardinality(Gains(s)) + 1
                /\ Cardinality(InStatus(s) \cup {k.task}) = Cardinality(InStatus(s)) + 1
            BY <3>4, <4>6, <6>1, FS_AddElement
          <6>3. /\ stats'[s] = stats[s] + 0 /\ Cardinality(Gains(s)') = Cardinality(Gains(s)) + 1
                /\ Cardinality(Losses(s)') = Cardinality(Losses(s)) + 0
                /\ Cardinality(InStatus(s)') =< Cardinality(InStatus(s)) + 1
            BY <3>2, <3>4, <4>1, <6>1, <6>2
          <6> QED BY <3>2, <6>3, Balance
        <5>5. CASE s = k.old
          <6>1. Gains(s)' = Gains(s) /\ Losses(s)' = Losses(s) \cup {c}
                /\ InStatus(s)' = InStatus(s) \ {k.task} /\ k.task \in InStatus(s)
            BY <3>6, <3>7, <4>2, <4>5, <4>6, <4>8, <5>3, <5>5
          <6>2. /\ Cardinality(Losses(s) \cup {c}) = Cardinality(Losses(s)) + 1
                /\ Cardinality(InStatus(s) \ {k.task}) = Cardinality(InStatus(s)) - 1
            BY <3>4, <4>6, <6>1, FS_AddElement, FS_RemoveElement
          <6>3. /\ stats'[s] = stats[s] + 0 /\ Cardinality(Gains(s)') = Cardinality(Gains(s)) + 0
                /\ Cardinality(Losses(s)') = Cardinality(Losses(s)) + 1
                /\ Cardinality(InStatus(s)') =< Cardinality(InStatus(s)) + (-1)
            BY <3>2, <3>4, <4>1, <6>1, <6>2
          <6> QED BY <3>2, <6>3, Balance
        <5>6. CASE s # k.rec.status /\ s # k.old
          <6>1. Gains(s)' = Gains(s) /\ Losses(s)' = Losses(s) /\ InStatus(s)' = InStatus(s)
            BY <3>6, <3>7, <4>2, <4>5, <4>6, <5>3, <5>6
          <6>2. /\ stats'[s] = stats[s] + 0 /\ Cardinality(Gains(s)') = Cardinality(Gains(s)) + 0
                /\ Cardinality(Losses(s)') = Cardinality(Losses(s)) + 0
                /\ Cardinality(InStatus(s)') =< Cardinality(InStatus(s)) + 0
            BY <3>2, <3>4, <4>1, <6>1
          <6> QED BY <3>2, <6>2, Balance
        <5> QED BY <5>4, <5>5, <5>6
      <4> QED BY <4>7, <4>8
    <3>9. CASE CountFrom(c)
      <4>1. /\ ~Idle(c) /\ k.step = "countFrom" /\ task' = task /\ Advance(c)
            /\ stats' = [b \in Buckets |-> IF b = k.old THEN stats[b] - 1 ELSE stats[b]]
        BY <3>5, <3>9 DEF CountFrom, Left, At
      <4>2. k \in CallRecord BY <3>5, <4>1, InProgress
      <4>3. call'[c] = [k EXCEPT !.step = "countTo"]
        BY <3>5, <4>1 DEF Advance, After, TypeInv, TypeOK
      <4>4. [k EXCEPT !.step = "countTo"] # None
            /\ [k EXCEPT !.step = "countTo"].step = "countTo"
            /\ [k EXCEPT !.step = "countTo"].rec = k.rec
        <5>1. [k EXCEPT !.step = "countTo"] \in CallRecord BY <4>2 DEF CallRecord, Steps
        <5> QED BY <4>2, <5>1, CallAssumption DEF CallRecord
      <4>5. /\ c \in Gains(s)' <=> c \in Gains(s)
            /\ c \notin Losses(s)' /\ (c \in Losses(s) <=> k.old = s)
        BY <3>5, <4>1, <4>3, <4>4 DEF Gains, Losses, At, Idle
      <4>6. Gains(s)' = Gains(s) /\ InStatus(s)' = InStatus(s)
        BY <3>6, <3>7, <4>1, <4>5 DEF InStatus, Live
      <4>7. CASE k.old = s
        <5>1. Losses(s)' = Losses(s) \ {c} /\ c \in Losses(s) BY <3>6, <3>7, <4>5, <4>7
        <5>2. Cardinality(Losses(s) \ {c}) = Cardinality(Losses(s)) - 1
          BY <3>4, <5>1, FS_RemoveElement
        <5>3. stats'[s] = stats[s] + (-1) BY <2>2, <3>2, <4>1, <4>7 DEF Working
        <5>4. /\ Cardinality(Gains(s)') = Cardinality(Gains(s)) + 0
              /\ Cardinality(Losses(s)') = Cardinality(Losses(s)) + (-1)
              /\ Cardinality(InStatus(s)') =< Cardinality(InStatus(s)) + 0
          BY <3>4, <4>6, <5>1, <5>2
        <5> QED BY <3>2, <5>3, <5>4, Balance
      <4>8. CASE k.old # s
        <5>1. Losses(s)' = Losses(s) BY <3>6, <3>7, <4>5, <4>8
        <5>2. stats'[s] = stats[s] + 0 BY <2>2, <3>2, <4>1, <4>8 DEF Working
        <5>3. /\ Cardinality(Gains(s)') = Cardinality(Gains(s)) + 0
              /\ Cardinality(Losses(s)') = Cardinality(Losses(s)) + 0
              /\ Cardinality(InStatus(s)') =< Cardinality(InStatus(s)) + 0
          BY <3>4, <4>6, <5>1
        <5> QED BY <3>2, <5>2, <5>3, Balance
      <4> QED BY <4>7, <4>8
    <3>10. CASE CountTo(c)
      <4>1. /\ ~Idle(c) /\ k.step = "countTo" /\ task' = task
            /\ stats' = [b \in Buckets |-> IF b = k.rec.status THEN stats[b] + 1 ELSE stats[b]]
        BY <3>5, <3>10 DEF CountTo, At
      <4>2. ~At(c, "countFrom")' /\ ~At(c, "countTo")'
        BY <1>2, <3>5, <4>1, EntersCount DEF Exec, CountFrom, At
      <4>3. /\ c \notin Gains(s)' /\ c \notin Losses(s)' /\ c \notin Losses(s)
            /\ c \in Gains(s) <=> k.rec.status = s
        BY <3>5, <4>1, <4>2 DEF Gains, Losses, At, Idle
      <4>4. Losses(s)' = Losses(s) /\ InStatus(s)' = InStatus(s)
        BY <3>6, <3>7, <4>1, <4>3 DEF InStatus, Live
      <4>5. CASE k.rec.status = s
        <5>1. Gains(s)' = Gains(s) \ {c} /\ c \in Gains(s) BY <3>6, <3>7, <4>3, <4>5
        <5>2. Cardinality(Gains(s) \ {c}) = Cardinality(Gains(s)) - 1
          BY <3>4, <5>1, FS_RemoveElement
        <5>3. stats'[s] = stats[s] + 1 BY <2>2, <3>2, <4>1, <4>5 DEF Working
        <5>4. /\ Cardinality(Gains(s)') = Cardinality(Gains(s)) + (-1)
              /\ Cardinality(Losses(s)') = Cardinality(Losses(s)) + 0
              /\ Cardinality(InStatus(s)') =< Cardinality(InStatus(s)) + 0
          BY <3>4, <4>4, <5>1, <5>2
        <5>5. 1 \in Int /\ -1 \in Int /\ 0 \in Int /\ 1 + (-1) - 0 >= 0 OBVIOUS
        <5> QED BY <3>2, <5>3, <5>4, <5>5, Balance
      <4>6. CASE k.rec.status # s
        <5>1. Gains(s)' = Gains(s) BY <3>6, <3>7, <4>3, <4>6
        <5>2. stats'[s] = stats[s] + 0 BY <2>2, <3>2, <4>1, <4>6 DEF Working
        <5>3. /\ Cardinality(Gains(s)') = Cardinality(Gains(s)) + 0
              /\ Cardinality(Losses(s)') = Cardinality(Losses(s)) + 0
              /\ Cardinality(InStatus(s)') =< Cardinality(InStatus(s)) + 0
          BY <3>4, <4>4, <5>1
        <5> QED BY <3>2, <5>2, <5>3, Balance
      <4> QED BY <4>5, <4>6
    <3>11. CASE ~Exec(c) /\ ~CountFrom(c) /\ ~CountTo(c)
      <4>1. ~At(c, "countFrom") /\ ~At(c, "countTo")
        BY <1>2, <3>1, <3>11
           DEF Start, BeginCreate, BeginOn, BeginUpdate, BeginClaim, BeginRecover, BeginExpire,
               BeginCleanup, Scan, Begin, Fetch, Fetching, FetchRetry, FetchCancel, FetchRequeue,
               FetchFields, FetchUpdate, FetchClaim, FetchRecover, FetchExpire, FetchCleanup,
               Continue, Store, Index, SetRecord, Reindex, Enqueue, Dequeue, Count, Take, Watch,
               Conflict, Refetch, Push, Delete, Unindex, Forget, At
      <4>2. ~At(c, "countFrom")' /\ ~At(c, "countTo")' BY <1>2, <3>11, EntersCount
      <4>3. Gains(s)' = Gains(s) /\ Losses(s)' = Losses(s)
        <5>1. c \notin Gains(s) /\ c \notin Losses(s) BY <4>1 DEF Gains, Losses
        <5>2. c \notin Gains(s)' /\ c \notin Losses(s)' BY <4>2 DEF Gains, Losses, At, Idle
        <5> QED BY <3>6, <3>7, <5>1, <5>2
      <4>4. stats'[s] = stats[s]
        <5>1. CASE Count(c) BY <5>1 DEF Count, Working, TypeInv, TypeOK
        <5>2. CASE ~Count(c)
          BY <1>2, <3>11, <5>2
             DEF Start, BeginCreate, BeginOn, BeginUpdate, BeginClaim, BeginRecover, BeginExpire,
                 BeginCleanup, Scan, Fetch, FetchRetry, FetchCancel, FetchRequeue, FetchFields,
                 FetchUpdate, FetchClaim, FetchRecover, FetchExpire, FetchCleanup, ReadOnly,
                 Continue, Store, Index, SetRecord, Reindex, Enqueue, Dequeue, Take, Watch,
                 Conflict, Refetch, Push, Delete, Unindex, Forget, Crash, store
        <5> QED BY <5>1, <5>2
      <4>5. InStatus(s)' \subseteq InStatus(s)
        <5>1. CASE Store(c) \/ SetRecord(c)
          <6>1. k.task \in Tasks /\ k.rec.status \notin Working
                /\ task' = [task EXCEPT ![k.task] = k.rec]
            BY <3>5, <5>1, InProgress
               DEF Store, SetRecord, WriteRecord, At, Good, CountInv, Harmless
          <6> QED BY <2>2, <6>1 DEF InStatus, Live, TypeInv, TypeOK
        <5>2. CASE Delete(c)
          <6>1. task' = [task EXCEPT ![k.task] = None] BY <3>5, <5>2 DEF Delete, WriteRecord
          <6> QED BY <6>1 DEF InStatus, Live, TypeInv, TypeOK
        <5>3. CASE ~Store(c) /\ ~SetRecord(c) /\ ~Delete(c)
          <6>1. UNCHANGED task
            BY <1>2, <3>11, <5>3
               DEF Start, BeginCreate, BeginOn, BeginUpdate, BeginClaim, BeginRecover,
                   BeginExpire, BeginCleanup, Scan, Fetch, FetchRetry, FetchCancel, FetchRequeue,
                   FetchFields, FetchUpdate, FetchClaim, FetchRecover, FetchExpire, FetchCleanup,
                   ReadOnly, Continue, Index, Reindex, Enqueue, Dequeue, Count, Take, Watch,
                   Conflict, Refetch, Push, Unindex, Forget, Crash, store
          <6> QED BY <6>1 DEF InStatus, Live
        <5> QED BY <5>1, <5>2, <5>3
      <4>6. Cardinality(InStatus(s)') =< Cardinality(InStatus(s))
        BY <3>4, <4>5, FS_Subset
      <4>7. /\ stats'[s] = stats[s] + 0 /\ Cardinality(Gains(s)') = Cardinality(Gains(s)) + 0
            /\ Cardinality(Losses(s)') = Cardinality(Losses(s)) + 0
            /\ Cardinality(InStatus(s)') =< Cardinality(InStatus(s)) + 0
        BY <3>2, <3>4, <4>3, <4>4, <4>6
      <4> QED BY <3>2, <4>7, Balance
    <3> QED BY <3>8, <3>9, <3>10, <3>11
  <2> QED BY <2>1, <2>2 DEF CountInv, CountersHideNothing, Working
<1> QED BY <1>1, <1>2 DEF Next

\* Without failures the counters of getQueueStats, with what status changes
\* in progress still owe them, never hide a task that is processing, completed
\* or failed, for any number of overlapping calls.
THEOREM CountersAreNotShort == Spec => []CountersHideNothing
<1>1. CountInv => CountersHideNothing BY DEF CountInv
<1> QED
  BY TypeInit, TypeNext, CommitsInit, CommitsNext, CountInit, CountNext, <1>1, PTL DEF Spec
=============================================================================

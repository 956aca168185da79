-------------------------- MODULE TaskExecutorProofs --------------------------
(***************************************************************************)
(* For every number of tasks, workers and runs, every maxRetries and every *)
(* combination of faults: a task is dead-lettered only when it earned it,  *)
(* one run at a time has a task in hand, a completed task stays completed  *)
(* when nothing contests it, and a worker's currentTasks is the number of  *)
(* runs it has in hand.                                                    *)
(***************************************************************************)
EXTENDS TaskExecutor, FiniteSetTheorems, TLAPS

-----------------------------------------------------------------------------
(* Where a step takes its run: what every invariant is proved from.        *)

RunType == run \in [Runs -> Run \cup {None}]
StoreType == /\ retries \in [Tasks -> Nat] /\ worker \in [Workers -> Record]
             /\ errand \in [Errands -> [Tasks -> Errand \cup {None}]]

\* r goes from one pc to another with its task and its worker, not reporting to
\* retryTask; the others stay.
Moved(r, from, to) ==
  /\ RunType'
  /\ \A s \in Runs \ {r} : run'[s] = run[s]
  /\ run[r] \in Run /\ run[r] # None /\ run[r].pc = from
  /\ run'[r] \in Run /\ run'[r] # None /\ run'[r].pc \in to
  /\ run'[r].task = run[r].task /\ run'[r].worker = run[r].worker
  /\ run'[r].told => run[r].told
  /\ run[r].told => run'[r].told \/ from = "finally"
  /\ run'[r].fresh => run[r].fresh

\* r is over.
Over(r) ==
  /\ RunType'
  /\ \A s \in Runs \ {r} : run'[s] = run[s]
  /\ run[r] \in Run /\ run[r] # None
  /\ run'[r] = None

LEMMA UpdateMoves ==
  ASSUME RunType, NEW r \in Runs, NEW from, NEW to, At(r, from),
         NEW next \in Run, next.pc \in to,
         next.task = run[r].task, next.worker = run[r].worker,
         next.told => run[r].told, run[r].told => next.told \/ from = "finally",
         next.fresh => run[r].fresh,
         run' = [run EXCEPT ![r] = next]
  PROVE  Moved(r, from, to) /\ run'[r] = next
<1>1. next # None BY NoneAssumption
<1>2. run[r] \in Run BY DEF RunType, At
<1> QED BY <1>1, <1>2 DEF RunType, Moved, At

LEMMA GotoMoves ==
  ASSUME RunType, NEW r \in Runs, NEW from, At(r, from), NEW pc \in InHand \cup Leaving,
         Goto(r, pc)
  PROVE  Moved(r, from, {pc})
<1> DEFINE next == [run[r] EXCEPT !.pc = pc]
<1>1. run[r] \in Run BY DEF RunType, At
<1>2. /\ next \in Run /\ next.pc = pc
      /\ next.task = run[r].task /\ next.worker = run[r].worker
      /\ next.told = run[r].told /\ next.fresh = run[r].fresh
  BY <1>1 DEF Run
<1>3. run' = [run EXCEPT ![r] = next] BY DEF Goto
<1> HIDE DEF next
<1> QED BY <1>2, <1>3, UpdateMoves

LEMMA ThrowMoves ==
  ASSUME RunType, NEW r \in Runs, NEW from, At(r, from), Throw(r)
  PROVE  Moved(r, from, {"retry", "release"})
<1> DEFINE next == Thrown(run[r])
<1>1. run[r] \in Run BY DEF RunType, At
<1>2. /\ next \in Run /\ next.pc \in {"retry", "release"}
      /\ next.task = run[r].task /\ next.worker = run[r].worker
      /\ next.told = run[r].told /\ next.fresh = run[r].fresh
  BY <1>1 DEF Thrown, Run, InHand, Leaving
<1>3. run' = [run EXCEPT ![r] = next] BY <1>1 DEF Throw, RunType
<1> HIDE DEF next
<1> QED BY <1>2, <1>3, UpdateMoves

LEMMA MovedWider ==
  ASSUME NEW r, NEW from, NEW few, NEW many, few \subseteq many, Moved(r, from, few)
  PROVE  Moved(r, from, many)
BY DEF Moved

\* updateTaskStatus: on to pc, or thrown.
LEMMA SetStatusMoves ==
  ASSUME RunType, NEW r \in Runs, NEW from, At(r, from),
         NEW s, NEW pc \in InHand \cup Leaving, SetStatus(r, s, pc)
  PROVE  Moved(r, from, {pc, "retry", "release"})
<1>1. CASE Goto(r, pc) BY <1>1, GotoMoves, MovedWider
<1>2. CASE Throw(r) BY <1>2, ThrowMoves, MovedWider
<1> QED BY <1>1, <1>2 DEF SetStatus

LEMMA JudgeMoves ==
  ASSUME RunType, NEW r \in Runs, NEW ok \in BOOLEAN, At(r, "handler"), Judge(r, ok)
  PROVE  Moved(r, "handler", {"abort", "latest"})
<1> DEFINE next == [run[r] EXCEPT !.ok = ok,
                      !.pc = IF run[r].task \in cancelled THEN "abort" ELSE "latest"]
<1>1. run[r] \in Run BY DEF RunType, At
<1>2. /\ next \in Run /\ next.pc \in {"abort", "latest"}
      /\ next.task = run[r].task /\ next.worker = run[r].worker
      /\ next.told = run[r].told /\ next.fresh = run[r].fresh
  BY <1>1 DEF Run, InHand
<1>3. run' = [run EXCEPT ![r] = next] BY <1>1 DEF Judge, RunType
<1> HIDE DEF next
<1> QED BY <1>2, <1>3, UpdateMoves

\* getWorker: the run has the record it is going to write.
LEMMA GetWorkerMoves ==
  ASSUME RunType, NEW r \in Runs, NEW from, NEW record \in Record,
         NEW to \in InHand \cup Leaving, GetWorker(r, from, record, to)
  PROVE  /\ Moved(r, from, {to})
         /\ run'[r].edited = record
<1> DEFINE next == [run[r] EXCEPT !.pc = to, !.edited = record]
<1>1. At(r, from) /\ run[r] \in Run BY DEF GetWorker, RunType, At
<1>2. /\ next \in Run /\ next.pc = to /\ next.edited = record
      /\ next.task = run[r].task /\ next.worker = run[r].worker
      /\ next.told = run[r].told /\ next.fresh = run[r].fresh
  BY <1>1 DEF Run
<1>3. run' = [run EXCEPT ![r] = next] BY <1>1 DEF GetWorker, RunType
<1> HIDE DEF next
<1>4. Moved(r, from, {to}) BY <1>1, <1>2, <1>3, UpdateMoves
<1>5. run'[r] = next BY <1>3 DEF RunType
<1> QED BY <1>2, <1>4, <1>5

\* The SET of a worker's record.
LEMMA SetWorkerMoves ==
  ASSUME RunType, NEW r \in Runs, NEW from, NEW to \in InHand \cup Leaving,
         SetWorker(r, from, to)
  PROVE  Moved(r, from, {to})
<1> DEFINE next == [run[r] EXCEPT !.pc = to, !.edited = Blank]
<1>1. At(r, from) /\ run[r] \in Run BY DEF SetWorker, RunType, At
<1>2. /\ next \in Run /\ next.pc = to
      /\ next.task = run[r].task /\ next.worker = run[r].worker
      /\ next.told = run[r].told /\ next.fresh = run[r].fresh
  BY <1>1 DEF Run, Blank, Record
<1>3. run' = [run EXCEPT ![r] = next] BY <1>1 DEF SetWorker, RunType
<1> HIDE DEF next
<1> QED BY <1>1, <1>2, <1>3, UpdateMoves

\* What a run is going to write back is a worker record.
LEMMA EditsAreRecords ==
  ASSUME RunType, StoreType, NEW r \in Runs, run[r] # None
  PROVE  /\ RecordOf(r) \in Record
         /\ [RecordOf(r) EXCEPT !.load = @ + 1] \in Record
         /\ [RecordOf(r) EXCEPT !.load = Less(@)] \in Record
         /\ [RecordOf(r) EXCEPT !.online = FALSE] \in Record
<1>1. run[r].worker \in Workers BY DEF RunType, Run
<1>2. RecordOf(r) \in Record BY <1>1 DEF StoreType, RecordOf
<1>3. Less(RecordOf(r).load) \in Nat BY <1>2 DEF Record, Less
<1> DEFINE old == RecordOf(r)
<1>4. old \in Record /\ Less(old.load) \in Nat BY <1>2, <1>3
<1> HIDE DEF old
<1>5. ASSUME NEW n \in Nat PROVE [old EXCEPT !.load = n] \in Record
  BY <1>4 DEF Record
<1>6. [old EXCEPT !.online = FALSE] \in Record BY <1>4 DEF Record
<1>7. old.load + 1 \in Nat BY <1>4 DEF Record
<1> QED BY <1>4, <1>5, <1>6, <1>7 DEF old

\* retryTask has read the record: where the run goes, and with which retries.
LEMMA RetryMoves ==
  ASSUME RunType, StoreType, NEW r \in Runs, Retry(r)
  PROVE  /\ RunType'
         /\ \A s \in Runs \ {r} : run'[s] = run[s]
         /\ run[r] \in Run /\ run[r] # None /\ run[r].pc = "retry"
         /\ run'[r] \in Run /\ run'[r] # None /\ run'[r].told
         /\ run'[r].task = run[r].task /\ run'[r].worker = run[r].worker
         /\ run'[r].fresh = run[r].fresh
         /\ LET n == retries[run[r].task] IN
            \/ run'[r].pc \in {"retry", "release"}
            \/ run'[r].pc = "bury" /\ n >= Limit /\ status[run[r].task] # None
            \/ /\ run'[r].pc = "rewrite" /\ ~(n >= Limit) /\ run'[r].tries = n
               /\ status[run[r].task] # None
<1> DEFINE t == run[r].task
           thrown == [Thrown(run[r]) EXCEPT !.told = TRUE]
           retried == Retried(run[r], retries[t])
<1>1. /\ run[r] # None /\ run[r].pc = "retry"
      /\ run[r] \in Run /\ t \in Tasks /\ retries[t] \in Nat
  BY DEF Retry, RunType, StoreType, At, Run
<1>2. /\ thrown \in Run /\ thrown.pc \in {"retry", "release"} /\ thrown.told
      /\ thrown.task = run[r].task /\ thrown.worker = run[r].worker
      /\ thrown.fresh = run[r].fresh
  BY <1>1 DEF Thrown, Run, InHand, Leaving
<1>3. /\ retried \in Run /\ retried.told
      /\ retried.task = run[r].task /\ retried.worker = run[r].worker
      /\ retried.fresh = run[r].fresh
      /\ \/ retried.pc = "bury" /\ retries[t] >= Limit
         \/ retried.pc = "rewrite" /\ ~(retries[t] >= Limit) /\ retried.tries = retries[t]
  <2> HIDE DEF t
  <2> QED BY <1>1 DEF Retried, Exhausted, Run, InHand, t
<1>4. thrown # None /\ retried # None BY <1>2, <1>3, NoneAssumption
<1>5. run' = [run EXCEPT ![r] = IF status[t] = None THEN thrown ELSE retried]
  BY <1>1 DEF Retry, RunType
<1> HIDE DEF thrown, retried
<1>6. /\ RunType' /\ \A s \in Runs \ {r} : run'[s] = run[s]
      /\ run'[r] = IF status[t] = None THEN thrown ELSE retried
  BY <1>2, <1>3, <1>5 DEF RunType
<1> QED BY <1>1, <1>2, <1>3, <1>4, <1>6

\* Every other step of a run, by action.
LEMMA StepMoves ==
  ASSUME RunType, StoreType, NEW r \in Runs
  PROVE  /\ Assign(r)   => \/ Moved(r, "assign", {"assignSet"})
                           \/ Moved(r, "assignSet", {"assignPush"})
                           \/ Moved(r, "assignPush", {"begin"})
         /\ Begin(r)    => Moved(r, "begin", {"drop", "check"})
         /\ Drop(r)     => Moved(r, "drop", {"finally", "retry", "release"})
         /\ Check(r)    => Moved(r, "check", {"release", "start", "retry"})
         /\ Start(r)    => Moved(r, "start", {"busy", "retry", "release"})
         /\ Busy(r)     => \/ Moved(r, "busy", {"busySet"})
                           \/ Moved(r, "busySet", {"handler"})
         /\ Handled(r)  => Moved(r, "handler", {"abort", "latest"})
         /\ TimesOut(r) => Moved(r, "handler", {"abort", "latest"})
         /\ Abort(r)    => Moved(r, "abort", {"release", "retry"})
         /\ Latest(r)   => Moved(r, "latest", {"release", "complete", "retry"})
         /\ Complete(r) => Moved(r, "complete", {"release", "retry"})
         /\ Rewrite(r)  => Moved(r, "rewrite", {"requeue"})
         /\ Requeue(r)  => Moved(r, "requeue", {"release"})
         /\ Bury(r)     => Moved(r, "bury", {"fail", "push"})
         /\ Push(r)     => Moved(r, "push", {"delete"})
         /\ Delete(r)   => Moved(r, "delete", {"fail"})
         /\ Fail(r)     => Moved(r, "fail", {"release", "retry"})
         /\ Release(r)  => \/ Moved(r, "release", {"releaseSet"})
                           \/ Moved(r, "releaseSet", {"unlist"})
                           \/ Moved(r, "unlist", {"finally", "retry", "release"})
         /\ Finally(r)  => Moved(r, "finally", {"leave"})
         /\ Leave(r)    => Moved(r, "leave", {"leaveSet"}) \/ Over(r)
         /\ Crash(r)    => Over(r)
<1> DEFINE pcs == InHand \cup Leaving
<1>pcs. /\ {"assignSet", "assignPush", "begin", "drop", "check", "start", "busy",
            "busySet", "handler", "abort", "latest", "complete", "retry", "rewrite",
            "requeue", "bury", "push", "delete", "fail", "release", "releaseSet",
            "unlist", "finally", "leave", "leaveSet"} \subseteq pcs
  BY DEF InHand, Leaving
<1> HIDE DEF pcs
<1>r. ASSUME NEW pc, At(r, pc)
      PROVE  /\ run[r] # None /\ run[r] \in Run
             /\ [RecordOf(r) EXCEPT !.load = @ + 1] \in Record
             /\ [RecordOf(r) EXCEPT !.load = Less(@)] \in Record
             /\ [RecordOf(r) EXCEPT !.online = FALSE] \in Record
  BY <1>r, EditsAreRecords DEF At, RunType
<1>g. ASSUME NEW from, At(r, from), NEW pc \in pcs, Goto(r, pc)
      PROVE  Moved(r, from, {pc})
  BY <1>g, GotoMoves DEF pcs
<1>s. ASSUME NEW from, At(r, from), NEW s, NEW pc \in pcs, SetStatus(r, s, pc)
      PROVE  Moved(r, from, {pc, "retry", "release"})
  BY <1>s, SetStatusMoves DEF pcs
<1>get. ASSUME NEW from, NEW record \in Record, NEW to \in pcs,
               GetWorker(r, from, record, to)
        PROVE  Moved(r, from, {to})
  BY <1>get, GetWorkerMoves DEF pcs
<1>set. ASSUME NEW from, NEW to \in pcs, SetWorker(r, from, to)
        PROVE  Moved(r, from, {to})
  BY <1>set, SetWorkerMoves DEF pcs
<1>1. ASSUME Assign(r)
      PROVE  \/ Moved(r, "assign", {"assignSet"})
             \/ Moved(r, "assignSet", {"assignPush"})
             \/ Moved(r, "assignPush", {"begin"})
  <2>1. CASE GetWorker(r, "assign", [RecordOf(r) EXCEPT !.load = @ + 1], "assignSet")
    <3>1. [RecordOf(r) EXCEPT !.load = @ + 1] \in Record BY <1>r, <2>1 DEF GetWorker
    <3> QED BY <1>pcs, <1>get, <2>1, <3>1
  <2>2. CASE SetWorker(r, "assignSet", "assignPush") BY <1>pcs, <1>set, <2>2
  <2>3. CASE At(r, "assignPush") /\ Goto(r, "begin") BY <1>pcs, <1>g, <2>3
  <2> QED BY <1>1, <2>1, <2>2, <2>3 DEF Assign
<1>2. ASSUME Begin(r) PROVE Moved(r, "begin", {"drop", "check"})
  <2>1. At(r, "begin") /\ run[r] \in Run BY <1>2 DEF Begin, At, RunType
  <2>2. CASE Goto(r, "drop")
    <3>1. Moved(r, "begin", {"drop"}) BY <1>pcs, <1>g, <2>1, <2>2
    <3> QED BY <3>1, MovedWider
  <2>3. CASE run' = [run EXCEPT ![r].fresh = FALSE,
                                ![r].pc = IF run[r].task \in cancelled THEN "drop"
                                                                       ELSE "check"]
    <3> DEFINE next == [run[r] EXCEPT !.fresh = FALSE,
                          !.pc = IF run[r].task \in cancelled THEN "drop" ELSE "check"]
    <3>1. /\ next \in Run /\ next.pc \in {"drop", "check"}
          /\ next.task = run[r].task /\ next.worker = run[r].worker
          /\ next.told = run[r].told /\ ~next.fresh
      BY <2>1 DEF Run, InHand
    <3>2. run' = [run EXCEPT ![r] = next] BY <2>1, <2>3 DEF RunType
    <3> HIDE DEF next
    <3> QED BY <2>1, <3>1, <3>2, UpdateMoves
  <2> QED BY <1>2, <2>2, <2>3 DEF Begin
<1>3. Drop(r) => Moved(r, "drop", {"finally", "retry", "release"})
  BY <1>pcs, <1>s DEF Drop
<1>4. ASSUME Check(r) PROVE Moved(r, "check", {"release", "start", "retry"})
  <2>1. CASE Throw(r) BY <1>4, <2>1, ThrowMoves, MovedWider DEF Check
  <2>2. ASSUME NEW pc \in {"release", "start"}, Goto(r, pc)
        PROVE  Moved(r, "check", {"release", "start", "retry"})
    <3>1. Moved(r, "check", {pc}) BY <1>pcs, <1>g, <1>4, <2>2 DEF Check
    <3> QED BY <3>1, MovedWider
  <2> QED BY <1>4, <2>1, <2>2 DEF Check, WhenFinished
<1>5. Start(r) => Moved(r, "start", {"busy", "retry", "release"})
  BY <1>pcs, <1>s DEF Start
<1>6. ASSUME Busy(r)
      PROVE  Moved(r, "busy", {"busySet"}) \/ Moved(r, "busySet", {"handler"})
  <2>1. CASE GetWorker(r, "busy", [RecordOf(r) EXCEPT !.online = FALSE], "busySet")
    <3>1. [RecordOf(r) EXCEPT !.online = FALSE] \in Record BY <1>r, <2>1 DEF GetWorker
    <3> QED BY <1>pcs, <1>get, <2>1, <3>1
  <2>2. CASE SetWorker(r, "busySet", "handler") BY <1>pcs, <1>set, <2>2
  <2> QED BY <1>6, <2>1, <2>2 DEF Busy
<1>7. Handled(r) => Moved(r, "handler", {"abort", "latest"}) BY JudgeMoves DEF Handled
<1>8. TimesOut(r) => Moved(r, "handler", {"abort", "latest"}) BY JudgeMoves DEF TimesOut
<1>9. ASSUME Abort(r) PROVE Moved(r, "abort", {"release", "retry"})
  <2>1. Moved(r, "abort", {"release", "retry", "release"}) BY <1>pcs, <1>s, <1>9 DEF Abort
  <2> QED BY <2>1, MovedWider
<1>10. ASSUME Latest(r) PROVE Moved(r, "latest", {"release", "complete", "retry"})
  <2>1. PICK pc \in {"release", "complete", "retry"} :
          run' = [run EXCEPT ![r].ok = FALSE, ![r].pc = pc]
    BY <1>10 DEF Latest
  <2> DEFINE next == [run[r] EXCEPT !.ok = FALSE, !.pc = pc]
  <2>2. At(r, "latest") /\ run[r] \in Run BY <1>10 DEF Latest, At, RunType
  <2>3. /\ next \in Run /\ next.pc \in {"release", "complete", "retry"}
        /\ next.task = run[r].task /\ next.worker = run[r].worker
        /\ next.told = run[r].told /\ next.fresh = run[r].fresh
    BY <2>2 DEF Run, InHand, Leaving
  <2>4. run' = [run EXCEPT ![r] = next] BY <2>1, <2>2 DEF RunType
  <2> HIDE DEF next
  <2> QED BY <2>2, <2>3, <2>4, UpdateMoves
<1>11. ASSUME Complete(r) PROVE Moved(r, "complete", {"release", "retry"})
  <2>1. Moved(r, "complete", {"release", "retry", "release"})
    BY <1>pcs, <1>s, <1>11 DEF Complete
  <2> QED BY <2>1, MovedWider
<1>12. ASSUME Rewrite(r) PROVE Moved(r, "rewrite", {"requeue"})
  <2> DEFINE next == [run[r] EXCEPT !.pc = "requeue", !.tries = 0]
  <2>1. At(r, "rewrite") /\ run[r] \in Run BY <1>12 DEF Rewrite, At, RunType
  <2>2. /\ next \in Run /\ next.pc \in {"requeue"}
        /\ next.task = run[r].task /\ next.worker = run[r].worker
        /\ next.told = run[r].told /\ next.fresh = run[r].fresh
    BY <2>1 DEF Run, InHand
  <2>3. run' = [run EXCEPT ![r] = next] BY <1>12, <2>1 DEF Rewrite, RunType
  <2> HIDE DEF next
  <2> QED BY <2>1, <2>2, <2>3, UpdateMoves
<1>13. Requeue(r) => Moved(r, "requeue", {"release"}) BY <1>pcs, <1>g DEF Requeue
<1>14. ASSUME Bury(r) PROVE Moved(r, "bury", {"fail", "push"})
  <2>1. PICK pc \in {"fail", "push"} : Goto(r, pc) BY <1>14 DEF Bury
  <2>2. Moved(r, "bury", {pc}) BY <1>pcs, <1>g, <1>14, <2>1 DEF Bury
  <2> QED BY <2>2, MovedWider
<1>15. Push(r) => Moved(r, "push", {"delete"}) BY <1>pcs, <1>g DEF Push
<1>16. Delete(r) => Moved(r, "delete", {"fail"}) BY <1>pcs, <1>g DEF Delete
<1>17. ASSUME Fail(r) PROVE Moved(r, "fail", {"release", "retry"})
  <2>1. Moved(r, "fail", {"release", "retry", "release"}) BY <1>pcs, <1>s, <1>17 DEF Fail
  <2> QED BY <2>1, MovedWider
<1>18. ASSUME Release(r)
       PROVE  \/ Moved(r, "release", {"releaseSet"})
              \/ Moved(r, "releaseSet", {"unlist"})
              \/ Moved(r, "unlist", {"finally", "retry", "release"})
  <2>1. CASE GetWorker(r, "release", [RecordOf(r) EXCEPT !.load = Less(@)], "releaseSet")
    <3>1. [RecordOf(r) EXCEPT !.load = Less(@)] \in Record BY <1>r, <2>1 DEF GetWorker
    <3> QED BY <1>pcs, <1>get, <2>1, <3>1
  <2>2. CASE SetWorker(r, "releaseSet", "unlist") BY <1>pcs, <1>set, <2>2
  <2>3. CASE At(r, "unlist") /\ Goto(r, "finally")
    <3>1. Moved(r, "unlist", {"finally"}) BY <1>pcs, <1>g, <2>3
    <3> QED BY <3>1, MovedWider
  <2>4. CASE At(r, "unlist") /\ Throw(r)
    <3>1. Moved(r, "unlist", {"retry", "release"}) BY <2>4, ThrowMoves
    <3> QED BY <3>1, MovedWider
  <2> QED BY <1>18, <2>1, <2>2, <2>3, <2>4 DEF Release
<1>19. ASSUME Finally(r) PROVE Moved(r, "finally", {"leave"})
  <2> DEFINE next == [run[r] EXCEPT !.pc = "leave", !.fresh = FALSE, !.late = FALSE,
                                    !.told = FALSE]
  <2>1. At(r, "finally") /\ run[r] \in Run BY <1>19 DEF Finally, At, RunType
  <2>2. /\ next \in Run /\ next.pc \in {"leave"}
        /\ next.task = run[r].task /\ next.worker = run[r].worker
        /\ ~next.told /\ ~next.fresh
    BY <2>1 DEF Run, Leaving
  <2>3. run' = [run EXCEPT ![r] = next] BY <1>19, <2>1 DEF Finally, RunType
  <2> HIDE DEF next
  <2> QED BY <2>1, <2>2, <2>3, UpdateMoves
<1>20. ASSUME Leave(r) PROVE Moved(r, "leave", {"leaveSet"}) \/ Over(r)
  <2>1. CASE GetWorker(r, "leave", [RecordOf(r) EXCEPT !.online = FALSE], "leaveSet")
    <3>1. [RecordOf(r) EXCEPT !.online = FALSE] \in Record BY <1>r, <2>1 DEF GetWorker
    <3> QED BY <1>pcs, <1>get, <2>1, <3>1
  <2>2. CASE At(r, "leaveSet") /\ run' = [run EXCEPT ![r] = None]
    BY <2>2 DEF Over, RunType, At
  <2> QED BY <1>20, <2>1, <2>2 DEF Leave
<1>21. Crash(r) => Over(r) BY DEF Crash, Over, RunType
<1> QED
  BY <1>1, <1>2, <1>3, <1>4, <1>5, <1>6, <1>7, <1>8, <1>9, <1>10, <1>11, <1>12, <1>13,
     <1>14, <1>15, <1>16, <1>17, <1>18, <1>19, <1>20, <1>21

-----------------------------------------------------------------------------
(* Types.  Whoever is about to write a task's record has read a number of  *)
(* retries that keeps `retries` within maxRetries.                         *)

RewriteBelowLimit == \A r \in Runs : At(r, "rewrite") => run[r].tries < Limit
ErrandsWithinLimit ==
  \A k \in Errands, t \in Tasks : errand[k][t] # None => errand[k][t].tries =< Limit

TypeInv == TypeOK /\ RewriteBelowLimit /\ ErrandsWithinLimit

LEMMA TypeInit == Init => TypeInv
BY LimitAssumption, ScenariosAssumption
DEF Init, TypeInv, TypeOK, Statuses, Record, RewriteBelowLimit, ErrandsWithinLimit, At

\* The world's steps leave the runs alone, but for a worker's death.
World(t) ==
  \/ HandlerEnds(t) \/ CancelTask(t) \/ Recover(t) \/ GoesOn(t)
  \/ \E k \in Errands : ErrandDies(k, t)
Disconnects == (\E w \in Workers : Disconnect(w)) \/ Unlist \/ GoOffline \/ DisconnectDies

LEMMA WorldLeavesRuns ==
  /\ \A t \in Tasks : World(t) => UNCHANGED <<dispatcher, run>>
  /\ Disconnects => UNCHANGED <<dispatcher, store, run, lingering, cancelled>>
<1> USE DEF store, pool, errands, history
<1>1. ASSUME NEW t \in Tasks, World(t) PROVE UNCHANGED <<dispatcher, run>>
  BY <1>1
  DEF World, HandlerEnds, CancelTask, Recover, GoesOn, ErrandDies, Store, Enqueue, Unqueue,
      Signal, RequeueTask
<1>2. ASSUME Disconnects PROVE UNCHANGED <<dispatcher, store, run, lingering, cancelled>>
  BY <1>2 DEF Disconnects, Disconnect, Unlist, GoOffline, DisconnectDies
<1> QED BY <1>1, <1>2

\* The disjuncts of the next-state relation, as the proofs go through them.
LEMMA NextCases ==
  ASSUME [Next]_vars
  PROVE  \/ \E r \in Runs, t \in Tasks, w \in Workers : Claim(r, t, w)
         \/ \E r \in Runs : Step(r) \/ Crash(r)
         \/ \E t \in Tasks : World(t)
         \/ Disconnects
         \/ UNCHANGED vars
BY DEF Next, Claims, World, Disconnects

LEMMA TypeNext == TypeInv /\ [Next]_vars => TypeInv'
<1> SUFFICES ASSUME TypeInv, [Next]_vars PROVE TypeInv'
  OBVIOUS
<1> USE DEF vars, store, pool, errands, history
<1>a. /\ dispatcher \in {"loop", "select"}
      /\ status \in [Tasks -> Statuses \cup {None}]
      /\ retries \in [Tasks -> 0 .. Limit]
      /\ queue \subseteq Tasks /\ cancelled \subseteq Tasks
      /\ dlq \in [Tasks -> Nat]
      /\ worker \in [Workers -> Record]
      /\ list \in [Workers -> [Tasks -> Nat]]
      /\ run \in [Runs -> Run \cup {None}]
      /\ lingering \in [Tasks -> Nat]
      /\ errand \in [Errands -> [Tasks -> Errand \cup {None}]]
      /\ down \in Disconnecting \cup {None}
      /\ faults \subseteq Kinds
      /\ failures \in [Tasks -> Nat]
      /\ contested \subseteq Tasks /\ stranded \subseteq Tasks
  BY DEF TypeInv, TypeOK
<1>b. RunType /\ StoreType BY <1>a, LimitAssumption DEF RunType, StoreType
<1>c. RewriteBelowLimit /\ ErrandsWithinLimit BY DEF TypeInv
\* A run that moves, but not to "rewrite", needs no care; nor does one that ends.
<1>d. ASSUME NEW r \in Runs, NEW from, NEW to, "rewrite" \notin to, Moved(r, from, to)
      PROVE  /\ run' \in [Runs -> Run \cup {None}] /\ RewriteBelowLimit'
             /\ run[r].task \in Tasks /\ run[r].worker \in Workers
             /\ run[r].edited \in Record /\ run[r].tries \in Nat
  BY <1>c, <1>d DEF Moved, RunType, Run, RewriteBelowLimit, At
<1>e. ASSUME NEW r \in Runs, Over(r)
      PROVE  /\ run' \in [Runs -> Run \cup {None}] /\ RewriteBelowLimit'
             /\ run[r].task \in Tasks /\ run[r].worker \in Workers
             /\ run[r].edited \in Record
  BY <1>c, <1>e DEF Over, RunType, Run, RewriteBelowLimit, At
<1>f. ASSUME NEW r \in Runs, NEW pc, NEW s \in Statuses, run[r].task \in Tasks,
             run' \in [Runs -> Run \cup {None}], RewriteBelowLimit', SetStatus(r, s, pc),
             UNCHANGED <<failures, stranded>>, contested' \subseteq Tasks
      PROVE  TypeInv'
  <2>1. status' \in [Tasks -> Statuses \cup {None}] BY <1>a, <1>f DEF SetStatus
  <2>2. ErrandsWithinLimit' BY <1>c, <1>f DEF SetStatus, ErrandsWithinLimit
  <2> QED BY <1>a, <1>f, <2>1, <2>2 DEF SetStatus, TypeInv, TypeOK
\* The steps of a run leave the errands alone.
<1>g. ASSUME NEW r \in Runs, NEW t \in Tasks, NEW w \in Workers, Claim(r, t, w)
      PROVE  TypeInv'
  <2>1. NewRun(t, w) \in Run BY DEF NewRun, Run, InHand, Blank, Record
  <2>2. run' = [run EXCEPT ![r] = NewRun(t, w)] BY <1>g DEF Claim
  <2>3. RewriteBelowLimit' BY <1>a, <1>c, <2>1, <2>2 DEF RewriteBelowLimit, At, NewRun
  <2>4. ErrandsWithinLimit' BY <1>c, <1>g DEF Claim, ErrandsWithinLimit
  <2> QED BY <1>a, <1>g, <2>1, <2>2, <2>3, <2>4 DEF Claim, Left, TypeInv, TypeOK
<1>1. ASSUME NEW r \in Runs,
             Begin(r) \/ Check(r) \/ Handled(r) \/ Latest(r) \/ Bury(r) \/ Finally(r)
      PROVE  TypeInv'
  <2>1. run' \in [Runs -> Run \cup {None}] /\ RewriteBelowLimit'
    BY <1>b, <1>d, <1>1, StepMoves
  <2>2. ErrandsWithinLimit'
    BY <1>c, <1>1 DEF Begin, Check, Handled, Latest, Bury, Finally, ErrandsWithinLimit
  <2>3. /\ faults' \subseteq Kinds /\ cancelled' \subseteq Tasks
        /\ UNCHANGED <<dispatcher, store, pool, lingering, errands, history>>
    BY <1>a, <1>1, ScenariosAssumption
    DEF Begin, Check, Handled, Latest, Bury, Finally, Fault
  <2> QED BY <1>a, <2>1, <2>2, <2>3 DEF TypeInv, TypeOK
\* Steps that only write a worker's record or its list.
<1>p. ASSUME NEW w \in Workers, NEW t \in Tasks, NEW new \in Record, NEW n \in Nat,
             run' \in [Runs -> Run \cup {None}], RewriteBelowLimit',
             UNCHANGED <<dispatcher, store, lingering, cancelled, errands>>,
             UNCHANGED <<failures, stranded>>,
             worker' \in {worker, [worker EXCEPT ![w] = new]},
             list' \in {list, [list EXCEPT ![w][t] = n]},
             faults' \subseteq Kinds, contested' \subseteq Tasks
      PROVE  TypeInv'
  <2>1. worker' \in [Workers -> Record] BY <1>a, <1>p
  <2>2. list' \in [Workers -> [Tasks -> Nat]] BY <1>a, <1>p
  <2>3. ErrandsWithinLimit' BY <1>c, <1>p DEF ErrandsWithinLimit
  <2> QED BY <1>a, <1>p, <2>1, <2>2, <2>3 DEF TypeInv, TypeOK
<1>2. ASSUME NEW r \in Runs, Assign(r) \/ Busy(r) \/ Release(r) \/ Leave(r) PROVE TypeInv'
  <2>1. /\ run' \in [Runs -> Run \cup {None}] /\ RewriteBelowLimit'
        /\ run[r].task \in Tasks /\ run[r].worker \in Workers /\ run[r].edited \in Record
    BY <1>b, <1>d, <1>e, <1>2, StepMoves
  <2>2. /\ UNCHANGED <<dispatcher, store, lingering, cancelled, errands>>
        /\ UNCHANGED <<failures, stranded>>
        /\ worker' \in {worker, [worker EXCEPT ![run[r].worker] = run[r].edited]}
    BY <1>2 DEF Assign, Busy, Release, Leave, GetWorker, SetWorker, PutWorker
  <2>3. faults' \subseteq Kinds /\ contested' \subseteq Tasks
    BY <1>a, <1>2, <2>1, ScenariosAssumption
    DEF Assign, Busy, Release, Leave, GetWorker, SetWorker, Fault
  <2>4. \E n \in Nat : list' \in {list, [list EXCEPT ![run[r].worker][run[r].task] = n]}
    <3>1. list[run[r].worker][run[r].task] \in Nat BY <1>a, <2>1
    <3>2. CASE list' = [list EXCEPT ![run[r].worker][run[r].task] = @ + 1]
      <4>1. list[run[r].worker][run[r].task] + 1 \in Nat BY <3>1
      <4> QED BY <3>2, <4>1
    <3>3. CASE list' = [list EXCEPT ![run[r].worker][run[r].task] = Less(@)]
      <4>1. Less(list[run[r].worker][run[r].task]) \in Nat BY <3>1 DEF Less
      <4> QED BY <3>3, <4>1
    <3>4. CASE list' = list BY <3>4
    <3> QED
      BY <1>2, <3>2, <3>3, <3>4 DEF Assign, Busy, Release, Leave, GetWorker, SetWorker
  <2> QED BY <1>p, <2>1, <2>2, <2>3, <2>4
<1>3. ASSUME NEW r \in Runs, Drop(r) \/ Start(r) \/ Abort(r) \/ Complete(r) \/ Fail(r)
      PROVE  TypeInv'
  <2>1. /\ run' \in [Runs -> Run \cup {None}] /\ RewriteBelowLimit'
        /\ run[r].task \in Tasks
    BY <1>b, <1>d, <1>3, StepMoves
  <2>2. \E s \in Statuses, pc \in InHand \cup Leaving : SetStatus(r, s, pc)
    BY <1>3 DEF Drop, Start, Abort, Complete, Fail, Statuses, InHand, Leaving
  <2>3. UNCHANGED <<failures, stranded>> /\ contested' \subseteq Tasks
    BY <1>a, <1>3, <2>1 DEF Drop, Start, Abort, Complete, Fail
  <2> QED BY <1>f, <2>1, <2>2, <2>3
<1>4. ASSUME NEW r \in Runs, TimesOut(r) PROVE TypeInv'
  <2>1. /\ run' \in [Runs -> Run \cup {None}] /\ RewriteBelowLimit'
        /\ run[r].task \in Tasks
    BY <1>b, <1>d, <1>4, StepMoves
  <2>2. lingering' \in [Tasks -> Nat] BY <1>a, <1>4, <2>1 DEF TimesOut
  <2>3. ErrandsWithinLimit' BY <1>c, <1>4 DEF TimesOut, ErrandsWithinLimit
  <2> QED BY <1>a, <1>4, <2>1, <2>2, <2>3, ScenariosAssumption
          DEF TimesOut, Fault, TypeInv, TypeOK
<1>5. ASSUME NEW r \in Runs, Retry(r) PROVE TypeInv'
  <2>1. run[r].task \in Tasks BY <1>a, <1>5 DEF Retry, At, Run
  <2>2. RunType' BY <1>b, <1>5, RetryMoves
  <2>3. At(r, "rewrite")' => run'[r].tries < Limit
    <3>1. retries[run[r].task] \in Nat BY <1>b, <2>1 DEF StoreType
    <3> QED BY <1>b, <1>5, <3>1, RetryMoves, LimitAssumption DEF At
  <2>4. RewriteBelowLimit'
    <3>1. \A s \in Runs \ {r} : run'[s] = run[s] BY <1>b, <1>5, RetryMoves
    <3> QED BY <1>c, <2>3, <3>1 DEF RewriteBelowLimit, At
  <2>5. failures' \in [Tasks -> Nat] BY <1>a, <1>5, <2>1 DEF Retry
  <2>6. ErrandsWithinLimit' BY <1>c, <1>5 DEF Retry, ErrandsWithinLimit
  <2> QED BY <1>a, <1>5, <2>2, <2>4, <2>5, <2>6 DEF Retry, TypeInv, TypeOK, RunType
<1>6. ASSUME NEW r \in Runs, Rewrite(r) PROVE TypeInv'
  <2>1. Moved(r, "rewrite", {"requeue"}) BY <1>b, <1>6, StepMoves
  <2>2. /\ run' \in [Runs -> Run \cup {None}] /\ RewriteBelowLimit'
        /\ run[r].task \in Tasks /\ run[r].tries \in Nat
    BY <1>d, <2>1
  <2>3. run[r].tries + 1 \in 0 .. Limit
    BY <1>c, <1>6, <2>2, LimitAssumption DEF Rewrite, RewriteBelowLimit
  <2>4. /\ retries' \in [Tasks -> 0 .. Limit]
        /\ status' \in [Tasks -> Statuses \cup {None}]
    BY <1>a, <1>6, <2>2, <2>3 DEF Rewrite, Statuses
  <2>5. ErrandsWithinLimit' BY <1>c, <1>6 DEF Rewrite, ErrandsWithinLimit
  <2> QED BY <1>a, <1>6, <2>2, <2>4, <2>5 DEF Rewrite, TypeInv, TypeOK
<1>7. ASSUME NEW r \in Runs, Requeue(r) \/ Push(r) \/ Delete(r) PROVE TypeInv'
  <2>1. /\ run' \in [Runs -> Run \cup {None}] /\ RewriteBelowLimit'
        /\ run[r].task \in Tasks
    BY <1>b, <1>d, <1>7, StepMoves
  <2>2. /\ status' \in [Tasks -> Statuses \cup {None}] /\ dlq' \in [Tasks -> Nat]
        /\ queue' \subseteq Tasks
    <3>1. CASE Requeue(r) BY <1>a, <2>1, <3>1 DEF Requeue, BackOnQueue
    <3>2. CASE Push(r)
      <4>1. dlq[run[r].task] + 1 \in Nat BY <1>a, <2>1
      <4> QED BY <1>a, <3>2, <4>1 DEF Push
    <3>3. CASE Delete(r) BY <1>a, <2>1, <3>3 DEF Delete
    <3> QED BY <1>7, <3>1, <3>2, <3>3
  <2>3. ErrandsWithinLimit' BY <1>c, <1>7 DEF Requeue, Push, Delete, ErrandsWithinLimit
  <2> QED BY <1>a, <1>7, <2>1, <2>2, <2>3 DEF Requeue, Push, Delete, TypeInv, TypeOK
<1>8. ASSUME NEW r \in Runs, Crash(r) PROVE TypeInv'
  <2>1. ErrandsWithinLimit' BY <1>c, <1>8 DEF Crash, ErrandsWithinLimit
  <2> QED BY <1>a, <1>b, <1>e, <1>8, <2>1, StepMoves, ScenariosAssumption
          DEF Crash, Fault, TypeInv, TypeOK
\* The errands: what one has read is within the limit.
<1>9. ASSUME NEW k \in Errands, NEW t \in Tasks, NEW new \in Errand \cup {None},
             new # None => new.tries =< Limit,
             errand' \in {errand, [errand EXCEPT ![k][t] = new]}
      PROVE  errand' \in [Errands -> [Tasks -> Errand \cup {None}]] /\ ErrandsWithinLimit'
  <2>1. CASE errand' = errand BY <1>a, <1>c, <2>1 DEF ErrandsWithinLimit
  <2>2. CASE errand' = [errand EXCEPT ![k][t] = new]
    <3>1. errand' \in [Errands -> [Tasks -> Errand \cup {None}]] BY <1>a, <2>2
    <3>2. ASSUME NEW l \in Errands, NEW u \in Tasks
          PROVE  errand'[l][u] = IF l = k /\ u = t THEN new ELSE errand[l][u]
      BY <1>a, <2>2
    <3> QED BY <1>9, <1>c, <3>1, <3>2 DEF ErrandsWithinLimit
  <2> QED BY <1>9, <2>1, <2>2
<1>10. ASSUME NEW t \in Tasks, World(t) PROVE TypeInv'
  <2>1. UNCHANGED run /\ RewriteBelowLimit'
    BY <1>c, <1>10, WorldLeavesRuns DEF RewriteBelowLimit, At
  <2>2. /\ retries[t] \in Nat /\ retries[t] =< Limit
        /\ \A step \in {"set", "queue", "signal"}, n \in 0 .. Limit :
             /\ [step |-> step, tries |-> n] \in Errand
             /\ [step |-> step, tries |-> n] # None
             /\ [step |-> step, tries |-> n].tries =< Limit
        /\ 0 \in 0 .. Limit /\ retries[t] \in 0 .. Limit
    <3>1. 0 .. Limit \subseteq Nat BY LimitAssumption
    <3>2. \A step \in {"set", "queue", "signal"}, n \in 0 .. Limit :
            [step |-> step, tries |-> n] \in Errand
      BY <3>1 DEF Errand
    <3> QED BY <1>a, <3>1, <3>2, NoneAssumption, LimitAssumption
  <2>3. CASE CancelTask(t)
    <3>1. \E new \in Errand \cup {None} :
            /\ new # None => new.tries =< Limit
            /\ errand' \in {errand, [errand EXCEPT !["cancel"][t] = new]}
      BY <2>2, <2>3 DEF CancelTask, Sent
    <3>2. errand' \in [Errands -> [Tasks -> Errand \cup {None}]] /\ ErrandsWithinLimit'
      BY <1>9, <3>1 DEF Errands
    <3> QED BY <1>a, <2>1, <2>3, <3>2, ScenariosAssumption
            DEF CancelTask, Fault, TypeInv, TypeOK
  <2>4. CASE Recover(t)
    <3>1. \E new \in Errand \cup {None} :
            /\ new # None => new.tries =< Limit
            /\ errand' \in {errand, [errand EXCEPT !["recover"][t] = new]}
      BY <2>2, <2>4 DEF Recover, Sent
    <3>2. errand' \in [Errands -> [Tasks -> Errand \cup {None}]] /\ ErrandsWithinLimit'
      BY <1>9, <3>1 DEF Errands
    <3> QED BY <1>a, <2>1, <2>4, <3>2, ScenariosAssumption
            DEF Recover, Fault, TypeInv, TypeOK
  <2>5. CASE RequeueTask(t)
    <3>1. \E new \in Errand \cup {None} :
            /\ new # None => new.tries =< Limit
            /\ errand' \in {errand, [errand EXCEPT !["requeue"][t] = new]}
      BY <2>2, <2>5, NoneAssumption DEF RequeueTask, Sent
    <3>2. errand' \in [Errands -> [Tasks -> Errand \cup {None}]] /\ ErrandsWithinLimit'
      BY <1>9, <3>1 DEF Errands
    <3>3. down' \in Disconnecting \cup {None}
      <4>1. down \in Disconnecting /\ down.todo \in [Tasks -> Nat] /\ down.todo[t] - 1 \in Nat
        BY <1>a, <2>5 DEF RequeueTask, Disconnecting
      <4>2. [down.todo EXCEPT ![t] = @ - 1] \in [Tasks -> Nat] BY <4>1
      <4>3. down' = [down EXCEPT !.todo = [down.todo EXCEPT ![t] = @ - 1]]
        BY <2>5, <4>1 DEF RequeueTask, Disconnecting
      <4> QED BY <4>1, <4>2, <4>3 DEF Disconnecting
    <3> QED BY <1>a, <2>1, <2>5, <3>2, <3>3 DEF RequeueTask, TypeInv, TypeOK
  <2>6. ASSUME NEW k \in Errands, Store(k, t) PROVE TypeInv'
    <3>1. \E new \in Errand \cup {None} :
            /\ new # None => new.tries =< Limit
            /\ errand' \in {errand, [errand EXCEPT ![k][t] = new]}
      BY <2>2, <2>6 DEF Store, Sent
    <3>2. errand' \in [Errands -> [Tasks -> Errand \cup {None}]] /\ ErrandsWithinLimit'
      BY <1>9, <3>1
    <3>3. errand[k][t] \in Errand /\ errand[k][t].tries =< Limit
      BY <1>a, <1>c, <2>6 DEF Store, OnErrand, ErrandsWithinLimit
    <3>4. errand[k][t].tries \in 0 .. Limit BY <3>3, LimitAssumption DEF Errand
    <3>5. /\ status' \in [Tasks -> Statuses \cup {None}]
          /\ retries' \in [Tasks -> 0 .. Limit]
      BY <1>a, <2>6, <3>4 DEF Store, Statuses
    <3> QED BY <1>a, <2>1, <2>6, <3>2, <3>5 DEF Store, TypeInv, TypeOK
  <2>7. ASSUME NEW k \in Errands, Enqueue(k, t) PROVE TypeInv'
    <3>1. errand' \in [Errands -> [Tasks -> Errand \cup {None}]] /\ ErrandsWithinLimit'
      BY <1>9, <2>7 DEF Enqueue, Back
    <3> QED BY <1>a, <2>1, <2>7, <3>1 DEF Enqueue, TypeInv, TypeOK
  <2>8. CASE Unqueue(t)
    <3>1. \E new \in Errand \cup {None} :
            /\ new # None => new.tries =< Limit
            /\ errand' \in {errand, [errand EXCEPT !["cancel"][t] = new]}
      BY <2>2, <2>8 DEF Unqueue, Sent
    <3>2. errand' \in [Errands -> [Tasks -> Errand \cup {None}]] /\ ErrandsWithinLimit'
      BY <1>9, <3>1 DEF Errands
    <3> QED BY <1>a, <2>1, <2>8, <3>2 DEF Unqueue, TypeInv, TypeOK
  <2>9. CASE Signal(t)
    <3>1. errand' \in [Errands -> [Tasks -> Errand \cup {None}]] /\ ErrandsWithinLimit'
      BY <1>9, <2>9 DEF Signal, Back, Errands
    <3> QED BY <1>a, <2>1, <2>9, <3>1 DEF Signal, TypeInv, TypeOK
  <2>10. ASSUME NEW k \in Errands, ErrandDies(k, t) PROVE TypeInv'
    <3>1. errand' \in [Errands -> [Tasks -> Errand \cup {None}]] /\ ErrandsWithinLimit'
      BY <1>9, <2>10 DEF ErrandDies, Back
    <3> QED BY <1>a, <2>1, <2>10, <3>1, ScenariosAssumption
            DEF ErrandDies, Fault, TypeInv, TypeOK
  <2>11. CASE HandlerEnds(t)
    <3>1. ErrandsWithinLimit' BY <1>c, <2>11 DEF HandlerEnds, ErrandsWithinLimit
    <3>2. lingering' \in [Tasks -> Nat] BY <1>a, <2>11 DEF HandlerEnds
    <3> QED BY <1>a, <2>1, <2>11, <3>1, <3>2 DEF HandlerEnds, TypeInv, TypeOK
  <2> QED BY <1>10, <2>3, <2>4, <2>5, <2>6, <2>7, <2>8, <2>9, <2>10, <2>11
          DEF World, GoesOn
<1>11. ASSUME Disconnects PROVE TypeInv'
  <2>1. /\ UNCHANGED <<dispatcher, store, run, lingering, cancelled>>
        /\ RewriteBelowLimit'
    BY <1>c, <1>11, WorldLeavesRuns DEF RewriteBelowLimit, At
  <2>2. ASSUME NEW w \in Workers, Disconnect(w) PROVE TypeInv'
    <3>1. down' \in Disconnecting BY <1>a, <2>2 DEF Disconnect, Disconnecting
    <3>2. ErrandsWithinLimit' BY <1>c, <2>2 DEF Disconnect, ErrandsWithinLimit
    <3> QED BY <1>a, <2>1, <2>2, <3>1, <3>2, ScenariosAssumption
            DEF Disconnect, Fault, TypeInv, TypeOK
  <2>3. CASE Unlist \/ GoOffline
    <3>1. down \in Disconnecting BY <1>a, <2>3 DEF Unlist, GoOffline
    <3>2. down' \in Disconnecting \cup {None}
      BY <2>3, <3>1 DEF Unlist, GoOffline, Disconnecting
    <3>3. list' \in [Workers -> [Tasks -> Nat]] /\ worker' \in [Workers -> Record]
      <4>1. Blank \in Record /\ [t \in Tasks |-> 0] \in [Tasks -> Nat] BY DEF Blank, Record
      <4>2. CASE Unlist BY <1>a, <4>1, <4>2 DEF Unlist
      <4>3. CASE GoOffline BY <1>a, <4>1, <4>3 DEF GoOffline
      <4> QED BY <2>3, <4>2, <4>3
    <3>4. ErrandsWithinLimit' BY <1>c, <2>3 DEF Unlist, GoOffline, ErrandsWithinLimit
    <3> QED BY <1>a, <2>1, <2>3, <3>2, <3>3, <3>4 DEF Unlist, GoOffline, TypeInv, TypeOK
  <2>4. CASE DisconnectDies
    <3>1. /\ errand' \in [Errands -> [Tasks -> Errand \cup {None}]]
          /\ \A k \in Errands, t \in Tasks : errand'[k][t] \in {None, errand[k][t]}
      BY <1>a, <2>4 DEF DisconnectDies
    <3>2. ErrandsWithinLimit' BY <1>c, <3>1 DEF ErrandsWithinLimit
    <3> QED BY <1>a, <2>1, <2>4, <3>1, <3>2, ScenariosAssumption
            DEF DisconnectDies, Fault, TypeInv, TypeOK
  <2> QED BY <1>11, <2>2, <2>3, <2>4 DEF Disconnects
<1>12. CASE UNCHANGED vars
  BY <1>12 DEF TypeInv, TypeOK, RewriteBelowLimit, ErrandsWithinLimit, At
<1> QED
  BY <1>g, <1>1, <1>2, <1>3, <1>4, <1>5, <1>6, <1>7, <1>8, <1>10, <1>11, <1>12, NextCases
  DEF Step

\* The records, the runs and the errands keep their types, and no task is
\* retried more than maxRetries times (retryTask), whatever records cancellations,
\* recoveries and requeues write back.
THEOREM TypesCorrect == Spec => []TypeOK
<1>1. TypeInv => TypeOK BY DEF TypeInv
<1> QED BY TypeInit, TypeNext, <1>1, PTL DEF Spec

-----------------------------------------------------------------------------
(* Who changes what, and where runs go: the frames of all that follows.    *)

StatusStep ==
  \/ \E r \in Runs : \/ Drop(r) \/ Start(r) \/ Abort(r) \/ Complete(r) \/ Fail(r)
                     \/ Rewrite(r) \/ Delete(r)
  \/ \E k \in Errands, t \in Tasks : Store(k, t)
RetriesStep == (\E r \in Runs : Rewrite(r)) \/ \E k \in Errands, t \in Tasks : Store(k, t)
QueueStep ==
  \/ \E r \in Runs, t \in Tasks, w \in Workers : Claim(r, t, w)
  \/ \E r \in Runs : Requeue(r)
  \/ \E k \in Errands, t \in Tasks : Enqueue(k, t) \/ Unqueue(t)
ErrandStep ==
  \/ \E t \in Tasks : CancelTask(t) \/ Recover(t) \/ GoesOn(t)
  \/ \E k \in Errands, t \in Tasks : ErrandDies(k, t)
  \/ DisconnectDies
CancelledStep == (\E r \in Runs : Finally(r)) \/ \E t \in Tasks : Signal(t)

LEMMA Frames ==
  ASSUME [Next]_vars
  PROVE  /\ faults \subseteq faults' /\ dispatcher' = dispatcher
         /\ contested \subseteq contested'
         /\ UNCHANGED status \/ StatusStep
         /\ UNCHANGED retries \/ RetriesStep
         /\ UNCHANGED queue \/ QueueStep
         /\ UNCHANGED dlq \/ \E r \in Runs : Push(r)
         /\ UNCHANGED errand \/ ErrandStep
         /\ UNCHANGED failures \/ \E r \in Runs : Retry(r)
         /\ UNCHANGED cancelled \/ CancelledStep
<1> DEFINE Kept == faults \subseteq faults' /\ dispatcher' = dispatcher
                     /\ contested \subseteq contested'
           Same == UNCHANGED <<status, retries, queue, dlq, errand, failures, cancelled>>
<1> USE DEF vars, store, pool, errands, history
<1>1. ASSUME NEW r \in Runs, NEW t \in Tasks, NEW w \in Workers, Claim(r, t, w)
      PROVE  Kept /\ UNCHANGED <<status, retries, dlq, errand, failures, cancelled>>
  BY <1>1 DEF Claim
<1>2. ASSUME NEW r \in Runs,
             Drop(r) \/ Start(r) \/ Abort(r) \/ Complete(r) \/ Fail(r)
      PROVE  Kept /\ UNCHANGED <<retries, queue, dlq, errand, failures, cancelled>>
  BY <1>2 DEF Drop, Start, Abort, Complete, Fail, SetStatus
<1>3. ASSUME NEW r \in Runs, Rewrite(r)
      PROVE  Kept /\ UNCHANGED <<queue, dlq, errand, failures, cancelled>>
  BY <1>3 DEF Rewrite
<1>4. ASSUME NEW r \in Runs, Delete(r)
      PROVE  Kept /\ UNCHANGED <<retries, queue, dlq, errand, failures, cancelled>>
  BY <1>4 DEF Delete
<1>5. ASSUME NEW r \in Runs, Requeue(r)
      PROVE  Kept /\ UNCHANGED <<status, retries, dlq, errand, failures, cancelled>>
  BY <1>5 DEF Requeue
<1>6. ASSUME NEW r \in Runs, Push(r)
      PROVE  Kept /\ UNCHANGED <<status, retries, queue, errand, failures, cancelled>>
  BY <1>6 DEF Push
<1>7. ASSUME NEW r \in Runs, Retry(r)
      PROVE  Kept /\ UNCHANGED <<status, retries, queue, dlq, errand, cancelled>>
  BY <1>7 DEF Retry
<1>8. ASSUME NEW r \in Runs, Finally(r)
      PROVE  Kept /\ UNCHANGED <<status, retries, queue, dlq, errand, failures>>
  BY <1>8 DEF Finally
<1>9. ASSUME NEW r \in Runs,
             Assign(r) \/ Begin(r) \/ Check(r) \/ Busy(r) \/ Handled(r) \/ TimesOut(r)
               \/ Latest(r) \/ Bury(r) \/ Release(r) \/ Leave(r) \/ Crash(r)
      PROVE  Kept /\ Same
  BY <1>9
  DEF Assign, Begin, Check, Busy, Handled, TimesOut, Latest, Bury, Release, Leave, Crash,
      GetWorker, SetWorker, Fault
<1>10. ASSUME NEW t \in Tasks, HandlerEnds(t) \/ CancelTask(t) \/ Recover(t) \/ RequeueTask(t)
       PROVE  Kept /\ UNCHANGED <<status, retries, queue, dlq, failures, cancelled>>
  BY <1>10 DEF HandlerEnds, CancelTask, Recover, RequeueTask, Fault
<1>11. ASSUME NEW t \in Tasks, NEW k \in Errands, Store(k, t)
       PROVE  Kept /\ UNCHANGED <<queue, dlq, failures, cancelled>>
  BY <1>11 DEF Store
<1>12. ASSUME NEW t \in Tasks, NEW k \in Errands, Enqueue(k, t) \/ Unqueue(t)
       PROVE  Kept /\ UNCHANGED <<status, retries, dlq, failures, cancelled>>
  BY <1>12 DEF Enqueue, Unqueue
<1>13. ASSUME NEW t \in Tasks, Signal(t)
       PROVE  Kept /\ UNCHANGED <<status, retries, queue, dlq, failures>>
  BY <1>13 DEF Signal
<1>14. ASSUME NEW t \in Tasks, NEW k \in Errands, ErrandDies(k, t)
       PROVE  Kept /\ UNCHANGED <<status, retries, queue, dlq, failures, cancelled>>
  BY <1>14 DEF ErrandDies, Fault
<1>15. ASSUME Disconnects
       PROVE  Kept /\ UNCHANGED <<status, retries, queue, dlq, failures, cancelled>>
  BY <1>15 DEF Disconnects, Disconnect, Unlist, GoOffline, DisconnectDies, Fault
<1>16. UNCHANGED errand \/ ErrandStep
  <2>1. ASSUME NEW t \in Tasks, World(t) PROVE UNCHANGED errand \/ ErrandStep
    BY <2>1 DEF World, HandlerEnds, ErrandStep
  <2>2. ASSUME Disconnects PROVE UNCHANGED errand \/ ErrandStep
    BY <2>2 DEF Disconnects, Disconnect, Unlist, GoOffline, ErrandStep
  <2> QED
    BY <1>1, <1>2, <1>3, <1>4, <1>5, <1>6, <1>7, <1>8, <1>9, <2>1, <2>2, NextCases
    DEF Step
<1>17. CASE UNCHANGED vars BY <1>17
<1> DEFINE Goal == /\ Kept
                   /\ UNCHANGED status \/ StatusStep
                   /\ UNCHANGED retries \/ RetriesStep
                   /\ UNCHANGED queue \/ QueueStep
                   /\ UNCHANGED dlq \/ \E r \in Runs : Push(r)
                   /\ UNCHANGED failures \/ \E r \in Runs : Retry(r)
                   /\ UNCHANGED cancelled \/ CancelledStep
<1>18. ASSUME NEW r \in Runs, Step(r) \/ Crash(r) PROVE Goal
  <2>1. CASE Drop(r) \/ Start(r) \/ Abort(r) \/ Complete(r) \/ Fail(r)
    BY <1>2, <2>1 DEF StatusStep
  <2>2. CASE Rewrite(r) BY <1>3, <2>2 DEF StatusStep, RetriesStep
  <2>3. CASE Delete(r) BY <1>4, <2>3 DEF StatusStep
  <2>4. CASE Requeue(r) BY <1>5, <2>4 DEF QueueStep
  <2>5. CASE Push(r) BY <1>6, <2>5
  <2>6. CASE Retry(r) BY <1>7, <2>6
  <2>7. CASE Finally(r) BY <1>8, <2>7 DEF CancelledStep
  <2>8. CASE Assign(r) \/ Begin(r) \/ Check(r) \/ Busy(r) \/ Handled(r) \/ TimesOut(r)
               \/ Latest(r) \/ Bury(r) \/ Release(r) \/ Leave(r) \/ Crash(r)
    BY <1>9, <2>8
  <2> QED BY <1>18, <2>1, <2>2, <2>3, <2>4, <2>5, <2>6, <2>7, <2>8 DEF Step
<1>19. ASSUME NEW t \in Tasks, World(t) PROVE Goal
  <2>1. CASE HandlerEnds(t) \/ CancelTask(t) \/ Recover(t) \/ RequeueTask(t)
    BY <1>10, <2>1
  <2>2. CASE \E k \in Errands : Store(k, t) BY <1>11, <2>2 DEF StatusStep, RetriesStep
  <2>3. CASE Unqueue(t) \/ \E k \in Errands : Enqueue(k, t)
    BY <1>12, <2>3 DEF QueueStep, Errands
  <2>4. CASE Signal(t) BY <1>13, <2>4 DEF CancelledStep
  <2>5. CASE \E k \in Errands : ErrandDies(k, t) BY <1>14, <2>5
  <2> QED BY <1>19, <2>1, <2>2, <2>3, <2>4, <2>5 DEF World, GoesOn
<1>20. ASSUME NEW r \in Runs, NEW t \in Tasks, NEW w \in Workers, Claim(r, t, w)
       PROVE  Goal
  BY <1>1, <1>20 DEF QueueStep
<1>21. Goal
  <2> HIDE DEF Goal
  <2>1. ASSUME Disconnects PROVE Goal BY <1>15, <2>1 DEF Goal
  <2>2. ASSUME UNCHANGED vars PROVE Goal BY <1>17, <2>2 DEF Goal
  <2> QED BY <1>18, <1>19, <1>20, <2>1, <2>2, NextCases
<1> QED BY <1>16, <1>21

\* What becomes of one task's record: by which step, and whose.
LEMMA StatusCases ==
  ASSUME TypeInv, [Next]_vars, NEW t \in Tasks
  PROVE  \/ status'[t] = status[t]
         \/ \E r \in Runs :
              /\ run[r] # None /\ run[r].task = t
              /\ \/ Drop(r) /\ status[t] # None /\ status'[t] = "cancelled"
                 \/ Start(r) /\ status[t] # None /\ status'[t] = "processing"
                 \/ Abort(r) /\ status[t] # None /\ status'[t] = "cancelled"
                 \/ Complete(r) /\ status[t] # None /\ status'[t] = "completed"
                 \/ Fail(r) /\ status[t] # None /\ status'[t] = "failed"
                 \/ Rewrite(r) /\ status'[t] = "retry"
                 \/ Delete(r) /\ status'[t] = None
         \/ \E k \in Errands :
              /\ Store(k, t)
              /\ status'[t] = IF k = "cancel" THEN "cancelled" ELSE "queued"
<1>a. status \in [Tasks -> Statuses \cup {None}] BY DEF TypeInv, TypeOK
<1>1. ASSUME NEW r \in Runs, NEW s, NEW pc, SetStatus(r, s, pc)
      PROVE  \/ status'[t] = status[t]
             \/ run[r].task = t /\ status[t] # None /\ status'[t] = s
  BY <1>a, <1>1 DEF SetStatus
<1>2. ASSUME NEW r \in Runs, Rewrite(r)
      PROVE  status'[t] = status[t] \/ (run[r].task = t /\ status'[t] = "retry")
  BY <1>a, <1>2 DEF Rewrite
<1>3. ASSUME NEW r \in Runs, Delete(r)
      PROVE  status'[t] = status[t] \/ (run[r].task = t /\ status'[t] = None)
  BY <1>a, <1>3 DEF Delete
<1>4. ASSUME NEW k \in Errands, NEW u \in Tasks, Store(k, u)
      PROVE  IF t = u THEN status'[t] = IF k = "cancel" THEN "cancelled" ELSE "queued"
                      ELSE status'[t] = status[t]
  BY <1>a, <1>4 DEF Store
<1>5. ASSUME NEW r \in Runs, Drop(r) PROVE run[r] # None /\ SetStatus(r, "cancelled", "finally")
  BY <1>5 DEF Drop, At
<1>6. ASSUME NEW r \in Runs, Start(r) PROVE run[r] # None /\ SetStatus(r, "processing", "busy")
  BY <1>6 DEF Start, At
<1>7. ASSUME NEW r \in Runs, Abort(r) PROVE run[r] # None /\ SetStatus(r, "cancelled", "release")
  BY <1>7 DEF Abort, At
<1>8. ASSUME NEW r \in Runs, Complete(r)
      PROVE  run[r] # None /\ SetStatus(r, "completed", "release")
  BY <1>8 DEF Complete, At
<1>9. ASSUME NEW r \in Runs, Fail(r) PROVE run[r] # None /\ SetStatus(r, "failed", "release")
  BY <1>9 DEF Fail, At
<1>10. ASSUME NEW r \in Runs, Rewrite(r) \/ Delete(r) PROVE run[r] # None
  BY <1>10 DEF Rewrite, Delete, At
<1>11. CASE UNCHANGED status BY <1>11
<1>12. CASE StatusStep
  <2>1. CASE \E k \in Errands, u \in Tasks : Store(k, u) BY <1>4, <2>1
  <2>2. ASSUME NEW r \in Runs, Drop(r) \/ Start(r) \/ Abort(r)
        PROVE  \/ status'[t] = status[t]
               \/ /\ run[r] # None /\ run[r].task = t
                  /\ \/ Drop(r) /\ status[t] # None /\ status'[t] = "cancelled"
                     \/ Start(r) /\ status[t] # None /\ status'[t] = "processing"
                     \/ Abort(r) /\ status[t] # None /\ status'[t] = "cancelled"
    BY <1>1, <1>5, <1>6, <1>7, <2>2
  <2>3. ASSUME NEW r \in Runs, Complete(r) \/ Fail(r)
        PROVE  \/ status'[t] = status[t]
               \/ /\ run[r] # None /\ run[r].task = t
                  /\ \/ Complete(r) /\ status[t] # None /\ status'[t] = "completed"
                     \/ Fail(r) /\ status[t] # None /\ status'[t] = "failed"
    BY <1>1, <1>8, <1>9, <2>3
  <2> QED BY <1>2, <1>3, <1>10, <1>12, <2>1, <2>2, <2>3 DEF StatusStep
<1> QED BY <1>11, <1>12, Frames

\* How a task gets back on the queue.
LEMMA QueueCases ==
  ASSUME [Next]_vars, NEW t \in Tasks, t \in queue', t \notin queue
  PROVE  \/ \E r \in Runs : Requeue(r) /\ run[r].task = t
         \/ \E k \in Errands \ {"cancel"} : Enqueue(k, t)
BY Frames DEF QueueStep, Claim, Left, Requeue, BackOnQueue, Enqueue, Unqueue

\* What becomes of an errand.
LEMMA ErrandCases ==
  ASSUME TypeInv, [Next]_vars, NEW k \in Errands, NEW t \in Tasks
  PROVE  \/ errand'[k][t] \in {errand[k][t], None}
         \/ k = "cancel" /\ (CancelTask(t) \/ Unqueue(t))
         \/ k = "recover" /\ Recover(t)
         \/ k = "requeue" /\ RequeueTask(t)
         \/ Store(k, t)
<1>a. errand \in [Errands -> [Tasks -> Errand \cup {None}]] BY DEF TypeInv, TypeOK
<1>1. ASSUME NEW l \in Errands, NEW u \in Tasks, NEW step, NEW n, Sent(l, u, step, n)
      PROVE  (l = k /\ u = t) \/ errand'[k][t] = errand[k][t]
  BY <1>a, <1>1 DEF Sent
<1>2. ASSUME NEW l \in Errands, NEW u \in Tasks, Back(l, u)
      PROVE  errand'[k][t] \in {errand[k][t], None}
  BY <1>a, <1>2 DEF Back
<1>3. ASSUME NEW u \in Tasks, CancelTask(u) \/ Unqueue(u)
      PROVE  (k = "cancel" /\ u = t) \/ errand'[k][t] = errand[k][t]
  BY <1>1, <1>3 DEF CancelTask, Unqueue, Errands
<1>4. ASSUME NEW u \in Tasks, Recover(u)
      PROVE  (k = "recover" /\ u = t) \/ errand'[k][t] = errand[k][t]
  BY <1>1, <1>4 DEF Recover, Errands
<1>5. ASSUME NEW u \in Tasks, RequeueTask(u)
      PROVE  (k = "requeue" /\ u = t) \/ errand'[k][t] = errand[k][t]
  BY <1>1, <1>5 DEF RequeueTask, Errands
<1>6. ASSUME NEW u \in Tasks, NEW l \in Errands, Store(l, u)
      PROVE  (l = k /\ u = t) \/ errand'[k][t] = errand[k][t]
  BY <1>1, <1>6 DEF Store
<1>7. ASSUME NEW u \in Tasks, NEW l \in Errands, Enqueue(l, u) \/ ErrandDies(l, u)
      PROVE  errand'[k][t] \in {errand[k][t], None}
  BY <1>2, <1>7 DEF Enqueue, ErrandDies
<1>8. ASSUME NEW u \in Tasks, Signal(u) PROVE errand'[k][t] \in {errand[k][t], None}
  BY <1>2, <1>8 DEF Signal, Errands
<1>9. ASSUME DisconnectDies PROVE errand'[k][t] \in {errand[k][t], None}
  BY <1>a, <1>9 DEF DisconnectDies
<1> QED
  BY <1>3, <1>4, <1>5, <1>6, <1>7, <1>8, <1>9, Frames DEF ErrandStep, GoesOn

\* Where a run goes from a pc, but for retryTask; `fs` are the faults.
Onward(pc, fs) ==
  CASE pc = "assign" -> {"assignSet"}
    [] pc = "assignSet" -> {"assignPush"}
    [] pc = "assignPush" -> {"begin"}
    [] pc = "begin" -> {"drop", "check"}
    [] pc = "drop" -> {"finally", "retry", "release"}
    [] pc = "check" -> {"release", "start", "retry"}
    [] pc = "start" -> {"busy", "retry", "release"}
    [] pc = "busy" -> {"busySet"}
    [] pc = "busySet" -> {"handler"}
    [] pc = "handler" -> {"abort", "latest"}
    [] pc = "abort" -> {"release", "retry"}
    [] pc = "latest" -> {"release", "complete", "retry"}
    [] pc = "complete" -> {"release", "retry"}
    [] pc = "rewrite" -> {"requeue"}
    [] pc = "requeue" -> {"release"}
    [] pc = "bury" -> {"fail", "push"}
    [] pc = "push" -> {"delete"}
    [] pc = "delete" -> {"fail"}
    [] pc = "fail" -> {"release", "retry"}
    [] pc = "release" -> {"releaseSet"}
    [] pc = "releaseSet" -> {"unlist"}
    [] pc = "unlist" -> IF "cost" \in fs THEN {"finally", "retry", "release"}
                                         ELSE {"finally"}
    [] pc = "finally" -> {"leave"}
    [] OTHER -> {"leaveSet"}

Report == {"retry", "rewrite", "bury", "push", "delete", "fail"}
Reporting == Report \cup {"requeue"} \cup Leaving

LEMMA OnwardFacts ==
  ASSUME NEW pc \in InHand \cup Leaving, pc # "retry", NEW fs
  PROVE  /\ Onward(pc, fs) \cap {"rewrite", "bury", "assign"} = {}
         /\ "cost" \notin fs => (pc \in Leaving => Onward(pc, fs) \subseteq Leaving)
         /\ pc \in Leaving \ {"unlist"} => Onward(pc, fs) \subseteq Leaving
         /\ pc = "requeue" => Onward(pc, fs) \subseteq Leaving
         /\ pc \in Report => Onward(pc, fs) \subseteq Reporting
         /\ pc \notin Report \ {"retry"} => Onward(pc, fs) \cap Report \subseteq {"retry"}
         /\ "push" \in Onward(pc, fs) => pc = "bury"
         /\ "delete" \in Onward(pc, fs) => pc = "push"
         /\ "requeue" \in Onward(pc, fs) => pc = "rewrite"
         /\ pc = "delete" => Onward(pc, fs) = {"fail"}
         /\ "drop" \in Onward(pc, fs) => pc = "begin"
         /\ "handler" \in Onward(pc, fs) => pc = "busySet"
BY DEF Onward, InHand, Leaving, Report, Reporting

LEMMA RunCases ==
  ASSUME RunType, StoreType, [Next]_vars
  PROVE  \/ \E r \in Runs, t \in Tasks, w \in Workers : Claim(r, t, w)
         \/ \E r \in Runs : Retry(r)
         \/ \E r \in Runs : /\ run[r].pc \in (InHand \cup Leaving) \ {"retry"}
                            /\ Moved(r, run[r].pc, Onward(run[r].pc, faults'))
         \/ \E r \in Runs : Over(r)
         \/ UNCHANGED run
<1> DEFINE Moves(r) == /\ run[r].pc \in (InHand \cup Leaving) \ {"retry"}
                       /\ Moved(r, run[r].pc, Onward(run[r].pc, faults'))
<1>1. ASSUME NEW r \in Runs, NEW from \in (InHand \cup Leaving) \ {"retry"},
             NEW to, Moved(r, from, to), to \subseteq Onward(from, faults')
      PROVE  Moves(r)
  BY <1>1 DEF Moved
<1>2. ASSUME NEW r \in Runs, Step(r), ~Retry(r) PROVE Moves(r) \/ Over(r)
  <2> HIDE DEF Moves
  <2> USE DEF Onward, InHand, Leaving
  <2>1. CASE Assign(r) BY <1>1, <2>1, StepMoves
  <2>2. CASE Begin(r) BY <1>1, <2>2, StepMoves
  <2>3. CASE Drop(r) BY <1>1, <2>3, StepMoves
  <2>4. CASE Check(r) BY <1>1, <2>4, StepMoves
  <2>5. CASE Start(r) BY <1>1, <2>5, StepMoves
  <2>6. CASE Busy(r) BY <1>1, <2>6, StepMoves
  <2>7. CASE Handled(r) \/ TimesOut(r) BY <1>1, <2>7, StepMoves
  <2>8. CASE Abort(r) BY <1>1, <2>8, StepMoves
  <2>9. CASE Latest(r) BY <1>1, <2>9, StepMoves
  <2>10. CASE Complete(r) BY <1>1, <2>10, StepMoves
  <2>11. CASE Rewrite(r) \/ Requeue(r) BY <1>1, <2>11, StepMoves
  <2>12. CASE Bury(r) BY <1>1, <2>12, StepMoves
  <2>13. CASE Push(r) \/ Delete(r) BY <1>1, <2>13, StepMoves
  <2>14. CASE Fail(r) BY <1>1, <2>14, StepMoves
  <2>15. CASE Release(r)
    <3>1. CASE Moved(r, "release", {"releaseSet"}) BY <1>1, <3>1
    <3>2. CASE Moved(r, "releaseSet", {"unlist"}) BY <1>1, <3>2
    <3>3. CASE At(r, "unlist") /\ Goto(r, "finally")
      <4>1. Moved(r, "unlist", {"finally"}) BY <3>3, GotoMoves
      <4> QED BY <1>1, <4>1
    <3>4. CASE At(r, "unlist") /\ "cost" \in faults'
      <4>1. Moved(r, "unlist", {"finally", "retry", "release"})
        BY <2>15, <3>4, StepMoves DEF Moved, At
      <4> QED BY <1>1, <3>4, <4>1
    <3>5. At(r, "unlist") => Goto(r, "finally") \/ "cost" \in faults'
      BY <2>15 DEF Release, Fault, At, GetWorker, SetWorker
    <3>6. At(r, "release") \/ At(r, "releaseSet") \/ At(r, "unlist")
      BY <2>15 DEF Release, GetWorker, SetWorker
    <3> QED BY <2>15, <3>1, <3>2, <3>3, <3>4, <3>5, <3>6, StepMoves DEF At, Moved
  <2>16. CASE Finally(r) BY <1>1, <2>16, StepMoves
  <2>17. CASE Leave(r) BY <1>1, <2>17, StepMoves
  <2> QED
    BY <1>2, <2>1, <2>2, <2>3, <2>4, <2>5, <2>6, <2>7, <2>8, <2>9, <2>10, <2>11, <2>12,
       <2>13, <2>14, <2>15, <2>16, <2>17
    DEF Step
<1>3. ASSUME NEW r \in Runs, Crash(r) PROVE Over(r) BY <1>3, StepMoves
<1>4. CASE UNCHANGED vars BY <1>4 DEF vars
<1> QED BY <1>2, <1>3, <1>4, NextCases, WorldLeavesRuns

-----------------------------------------------------------------------------
(* What there is not as long as a fault has not occurred.                  *)

QuietInv ==
  /\ "disconnect" \notin faults =>
       down = None /\ \A t \in Tasks : errand["requeue"][t] = None
  /\ "cancel" \notin faults =>
       cancelled = {} /\ \A t \in Tasks : errand["cancel"][t] = None
  /\ "timeout" \notin faults => \A t \in Tasks : lingering[t] = 0

LEMMA QuietInit == Init => QuietInv
BY DEF Init, QuietInv, Errands

LEMMA QuietNext == TypeInv /\ QuietInv /\ [Next]_vars => QuietInv'
<1> SUFFICES ASSUME TypeInv, QuietInv, [Next]_vars PROVE QuietInv'
  OBVIOUS
<1> USE DEF vars, store, pool, errands, history
<1>b. faults \subseteq faults' BY Frames
<1>1. ASSUME "disconnect" \notin faults'
      PROVE  down' = None /\ \A t \in Tasks : errand'["requeue"][t] = None
  <2>1. down = None /\ \A t \in Tasks : errand["requeue"][t] = None
    BY <1>b, <1>1 DEF QuietInv
  <2>2. \A t \in Tasks : errand'["requeue"][t] = None
    BY <2>1, ErrandCases DEF Errands, RequeueTask, Store, OnErrand
  <2>3. ASSUME Disconnects PROVE FALSE
    BY <1>1, <2>1, <2>3
    DEF Disconnects, Disconnect, Unlist, GoOffline, DisconnectDies, Fault
  <2>4. ASSUME NEW t \in Tasks, World(t) PROVE UNCHANGED down
    BY <2>1, <2>4
    DEF World, GoesOn, HandlerEnds, CancelTask, Recover, RequeueTask, Store, Enqueue,
        Unqueue, Signal, ErrandDies
  <2>5. ASSUME NEW r \in Runs, Step(r) \/ Crash(r) PROVE UNCHANGED down
    <3>1. CASE Assign(r) \/ Begin(r) \/ Check(r) \/ Busy(r) \/ Handled(r) \/ TimesOut(r)
                 \/ Latest(r) \/ Bury(r) \/ Release(r) \/ Leave(r) \/ Crash(r)
      BY <3>1 DEF Assign, Begin, Check, Busy, Handled, TimesOut, Latest, Bury, Release,
                  Leave, Crash, GetWorker, SetWorker
    <3>2. CASE Drop(r) \/ Start(r) \/ Abort(r) \/ Complete(r) \/ Fail(r)
      BY <3>2 DEF Drop, Start, Abort, Complete, Fail, SetStatus
    <3>3. CASE Retry(r) \/ Rewrite(r) \/ Requeue(r) \/ Push(r) \/ Delete(r) \/ Finally(r)
      BY <3>3 DEF Retry, Rewrite, Requeue, Push, Delete, Finally
    <3> QED BY <2>5, <3>1, <3>2, <3>3 DEF Step
  <2>6. ASSUME NEW r \in Runs, NEW t \in Tasks, NEW w \in Workers, Claim(r, t, w)
        PROVE  UNCHANGED down
    BY <2>6 DEF Claim
  <2>7. down' = None BY <2>1, <2>3, <2>4, <2>5, <2>6, NextCases
  <2> QED BY <2>2, <2>7
<1>2. ASSUME "cancel" \notin faults'
      PROVE  cancelled' = {} /\ \A t \in Tasks : errand'["cancel"][t] = None
  <2>1. cancelled = {} /\ \A t \in Tasks : errand["cancel"][t] = None
    BY <1>b, <1>2 DEF QuietInv
  <2>2. cancelled' = {}
    BY <2>1, Frames DEF CancelledStep, Finally, Signal, OnErrand
  <2>3. \A t \in Tasks : errand'["cancel"][t] = None
    BY <1>2, <2>1, ErrandCases
    DEF Errands, CancelTask, Fault, Unqueue, Store, OnErrand
  <2> QED BY <2>2, <2>3
<1>3. ASSUME "timeout" \notin faults' PROVE \A t \in Tasks : lingering'[t] = 0
  <2>1. \A t \in Tasks : lingering[t] = 0 BY <1>b, <1>3 DEF QuietInv
  <2>2. ASSUME NEW r \in Runs, Step(r) \/ Crash(r) PROVE UNCHANGED lingering
    <3>1. CASE Assign(r) \/ Begin(r) \/ Check(r) \/ Busy(r) \/ Handled(r)
                 \/ Latest(r) \/ Bury(r) \/ Release(r) \/ Leave(r) \/ Crash(r)
      BY <3>1 DEF Assign, Begin, Check, Busy, Handled, Latest, Bury, Release,
                  Leave, Crash, GetWorker, SetWorker
    <3>2. CASE Drop(r) \/ Start(r) \/ Abort(r) \/ Complete(r) \/ Fail(r)
      BY <3>2 DEF Drop, Start, Abort, Complete, Fail, SetStatus
    <3>3. CASE Retry(r) \/ Rewrite(r) \/ Requeue(r) \/ Push(r) \/ Delete(r) \/ Finally(r)
      BY <3>3 DEF Retry, Rewrite, Requeue, Push, Delete, Finally
    <3>4. ~TimesOut(r) BY <1>3 DEF TimesOut, Fault
    <3> QED BY <2>2, <3>1, <3>2, <3>3, <3>4 DEF Step
  <2>3. ASSUME NEW t \in Tasks, World(t) PROVE UNCHANGED lingering
    <3>1. ~HandlerEnds(t) BY <2>1 DEF HandlerEnds
    <3> QED BY <2>3, <3>1 DEF World, GoesOn, CancelTask, Recover, Store, Enqueue, Unqueue,
                              Signal, RequeueTask, ErrandDies
  <2>4. ASSUME NEW r \in Runs, NEW t \in Tasks, NEW w \in Workers, Claim(r, t, w)
        PROVE  UNCHANGED lingering
    BY <2>4 DEF Claim
  <2> QED BY <2>1, <2>2, <2>3, <2>4, NextCases, WorldLeavesRuns
<1> QED BY <1>1, <1>2, <1>3 DEF QuietInv

-----------------------------------------------------------------------------
(* Attempts.  Every retry counted in a record, or read from one, is backed *)
(* by a failure of its own, beside those of the runs that have reported a  *)
(* failure and not yet had it counted.                                     *)

Unsettled(t) ==
  {r \in Runs : run[r] # None /\ run[r].task = t /\ run[r].told /\ run[r].pc \in Report}
Room(t, n) == n + Cardinality(Unsettled(t)) =< failures[t]

\* Where runs that have reported are.
ReportsInv ==
  "cost" \notin faults =>
    \A r \in Runs : run[r] # None =>
      /\ run[r].told => run[r].pc \in Reporting
      /\ run[r].pc \in Report \ {"retry"} => run[r].told

EarnedInv ==
  "cost" \notin faults =>
    /\ \A t \in Tasks : Room(t, retries[t])
    /\ \A k \in Errands, t \in Tasks : OnErrand(k, t, "set") => Room(t, errand[k][t].tries)
    /\ \A r \in Runs : At(r, "rewrite") => Room(run[r].task, run[r].tries)
    /\ \A r \in Runs : At(r, "bury") \/ At(r, "push") \/ At(r, "delete") =>
         failures[run[r].task] >= Limit + 1
    /\ \A t \in Tasks : dlq[t] > 0 => failures[t] >= Limit + 1

LEMMA ReportsNext ==
  TypeInv /\ ReportsInv /\ [Next]_vars =>
    /\ ReportsInv'
    /\ "cost" \notin faults' =>
         (\E r \in Runs : Retry(r)) \/ \A t \in Tasks : Unsettled(t)' \subseteq Unsettled(t)
<1> SUFFICES ASSUME TypeInv, ReportsInv, [Next]_vars, "cost" \notin faults'
             PROVE  /\ ReportsInv'
                    /\ \/ \E r \in Runs : Retry(r)
                       \/ \A t \in Tasks : Unsettled(t)' \subseteq Unsettled(t)
  BY DEF ReportsInv
<1>a. RunType /\ StoreType
  BY LimitAssumption DEF TypeInv, TypeOK, RunType, StoreType
<1>b. \A r \in Runs : run[r] # None =>
        /\ run[r].told => run[r].pc \in Reporting
        /\ run[r].pc \in Report \ {"retry"} => run[r].told
  BY Frames DEF ReportsInv
<1> DEFINE Shrinks == \A t \in Tasks : Unsettled(t)' \subseteq Unsettled(t)
<1>1. ASSUME NEW r \in Runs, NEW t \in Tasks, NEW w \in Workers, Claim(r, t, w)
      PROVE  ReportsInv' /\ Shrinks
  <2>1. /\ \A s \in Runs \ {r} : run'[s] = run[s]
        /\ run'[r].told = FALSE /\ run'[r].pc = "assign"
    BY <1>a, <1>1 DEF Claim, NewRun, RunType
  <2> QED BY <1>b, <2>1 DEF ReportsInv, Unsettled, Report
<1>2. ASSUME NEW r \in Runs, Retry(r) PROVE ReportsInv'
  <2>1. /\ \A s \in Runs \ {r} : run'[s] = run[s]
        /\ run'[r].told /\ run'[r].pc \in {"retry", "release", "bury", "rewrite"}
    BY <1>a, <1>2, RetryMoves
  <2> QED BY <1>b, <2>1 DEF ReportsInv, Reporting, Report, Leaving
<1>3. ASSUME NEW r \in Runs, run[r].pc \in (InHand \cup Leaving) \ {"retry"},
             Moved(r, run[r].pc, Onward(run[r].pc, faults'))
      PROVE  ReportsInv' /\ Shrinks
  <2> DEFINE pc == run[r].pc
             to == Onward(pc, faults')
  <2>1. /\ pc \in Leaving \cup {"requeue"} => to \subseteq Leaving
        /\ pc \in Report => to \subseteq Reporting
        /\ pc \notin Report \ {"retry"} => to \cap Report \subseteq {"retry"}
    BY <1>3, OnwardFacts
  <2> HIDE DEF to
  <2>2. /\ Moved(r, pc, to) /\ Leaving \subseteq Reporting
        /\ Leaving \cap Report = {} /\ "finally" \notin Report
        /\ "finally" \in Leaving
    BY <1>3 DEF to, Reporting, Report, Leaving
  <2>3. run'[r].told => run'[r].pc \in Reporting
    BY <1>b, <2>1, <2>2 DEF Moved, Reporting
  <2>4. run'[r].pc \in Report \ {"retry"} => run'[r].told
    BY <1>b, <2>1, <2>2 DEF Moved
  <2>5. ASSUME NEW t \in Tasks PROVE Unsettled(t)' \subseteq Unsettled(t)
    <3>1. run'[r].told /\ run'[r].pc \in Report => run[r].told /\ pc \in Report
      BY <1>b, <2>1, <2>2 DEF Moved, Reporting
    <3> QED BY <2>2, <3>1 DEF Moved, Unsettled
  <2>6. ReportsInv' BY <1>b, <2>2, <2>3, <2>4 DEF Moved, ReportsInv
  <2> QED BY <2>5, <2>6
<1>4. ASSUME NEW r \in Runs, Over(r) PROVE ReportsInv' /\ Shrinks
  BY <1>b, <1>4 DEF Over, ReportsInv, Unsettled
<1>5. CASE UNCHANGED run BY <1>b, <1>5 DEF ReportsInv, Unsettled
<1> QED BY <1>a, <1>1, <1>2, <1>3, <1>4, <1>5, RunCases

\* How many there are, before and after.
LEMMA UnsettledCount ==
  ASSUME NEW t, Unsettled(t)' \subseteq Unsettled(t)
  PROVE  /\ Cardinality(Unsettled(t)) \in Nat /\ Cardinality(Unsettled(t))' \in Nat
         /\ Cardinality(Unsettled(t))' =< Cardinality(Unsettled(t))
         /\ \A r : r \in Unsettled(t) /\ r \notin Unsettled(t)' =>
              Cardinality(Unsettled(t))' + 1 =< Cardinality(Unsettled(t))
<1>1. IsFiniteSet(Unsettled(t)) BY RunsAssumption, FS_Subset DEF Unsettled
<1>2. /\ IsFiniteSet(Unsettled(t)') /\ Cardinality(Unsettled(t)') =< Cardinality(Unsettled(t))
  BY <1>1, FS_Subset
<1>3. Cardinality(Unsettled(t)) \in Nat /\ Cardinality(Unsettled(t)') \in Nat
  BY <1>1, <1>2, FS_CardinalityType
<1>4. ASSUME NEW r \in Unsettled(t), r \notin Unsettled(t)'
      PROVE  Cardinality(Unsettled(t)') + 1 =< Cardinality(Unsettled(t))
  <2>1. /\ IsFiniteSet(Unsettled(t) \ {r})
        /\ Cardinality(Unsettled(t) \ {r}) = Cardinality(Unsettled(t)) - 1
    BY <1>1, FS_RemoveElement
  <2>2. Unsettled(t)' \subseteq Unsettled(t) \ {r} BY <1>4
  <2>3. Cardinality(Unsettled(t)') =< Cardinality(Unsettled(t) \ {r})
    BY <2>1, <2>2, FS_Subset
  <2> QED BY <1>3, <2>1, <2>3
<1> QED BY <1>2, <1>3, <1>4

\* Whatever room there is stays.
LEMMA RoomStays ==
  ASSUME TypeInv, ReportsInv, [Next]_vars, "cost" \notin faults', NEW t \in Tasks
  PROVE  /\ Cardinality(Unsettled(t)) \in Nat /\ Cardinality(Unsettled(t))' \in Nat
         /\ failures[t] \in Nat /\ failures'[t] \in Nat /\ failures[t] =< failures'[t]
         /\ Cardinality(Unsettled(t))' + failures[t]
              =< Cardinality(Unsettled(t)) + failures'[t]
<1>a. failures \in [Tasks -> Nat] BY DEF TypeInv, TypeOK
<1>1. CASE Unsettled(t)' \subseteq Unsettled(t)
  <2>1. /\ failures'[t] \in Nat /\ failures[t] =< failures'[t]
    <3>1. CASE UNCHANGED failures BY <1>a, <3>1
    <3>2. ASSUME NEW r \in Runs, Retry(r)
          PROVE  failures'[t] \in Nat /\ failures[t] =< failures'[t]
      BY <1>a, <3>2 DEF Retry
    <3> QED BY <3>1, <3>2, Frames
  <2> QED BY <1>a, <1>1, <2>1, UnsettledCount
<1>2. ASSUME NEW r \in Runs, Retry(r), ~(Unsettled(t)' \subseteq Unsettled(t))
      PROVE  /\ Cardinality(Unsettled(t)) \in Nat /\ Cardinality(Unsettled(t))' \in Nat
             /\ Cardinality(Unsettled(t))' =< Cardinality(Unsettled(t)) + 1
             /\ failures'[t] = failures[t] + 1
  <2>a. RunType /\ StoreType
    BY LimitAssumption DEF TypeInv, TypeOK, RunType, StoreType
  <2>1. /\ \A s \in Runs \ {r} : run'[s] = run[s]
        /\ run[r] # None /\ run[r].pc = "retry" /\ run'[r].task = run[r].task
    BY <1>2, <2>a, RetryMoves
  <2>2. Unsettled(t)' \subseteq Unsettled(t) \cup {r} BY <2>1 DEF Unsettled
  <2>3. r \notin Unsettled(t) /\ r \in Unsettled(t)' BY <1>2, <2>2
  <2>4. run[r].task = t /\ ~run[r].told BY <2>1, <2>3 DEF Unsettled, Report
  <2>5. failures'[t] = failures[t] + 1 BY <1>a, <1>2, <2>4 DEF Retry
  <2>6. IsFiniteSet(Unsettled(t)) BY RunsAssumption, FS_Subset DEF Unsettled
  <2>7. /\ IsFiniteSet(Unsettled(t) \cup {r})
        /\ Cardinality(Unsettled(t) \cup {r}) = Cardinality(Unsettled(t)) + 1
    BY <2>3, <2>6, FS_AddElement
  <2>8. /\ IsFiniteSet(Unsettled(t)')
        /\ Cardinality(Unsettled(t)') =< Cardinality(Unsettled(t)) + 1
    BY <2>2, <2>7, FS_Subset
  <2> QED BY <2>5, <2>6, <2>8, FS_CardinalityType
<1> QED BY <1>a, <1>1, <1>2, ReportsNext

\* A record that an errand is about to write has been read by it: at the
\* latest in this step.
LEMMA ErrandsRead ==
  ASSUME TypeInv, [Next]_vars, NEW k \in Errands, NEW t \in Tasks,
         OnErrand(k, t, "set")'
  PROVE  \/ OnErrand(k, t, "set") /\ errand'[k][t] = errand[k][t]
         \/ UNCHANGED <<retries, status>> /\ errand'[k][t].tries = retries[t]
<1> USE DEF vars, store, pool, errands, history
<1>a. errand \in [Errands -> [Tasks -> Errand \cup {None}]] BY DEF TypeInv, TypeOK
<1>1. CASE errand'[k][t] \in {errand[k][t], None} BY <1>1 DEF OnErrand
<1>2. ASSUME NEW n, Sent(k, t, "set", n) PROVE errand'[k][t].tries = n
  BY <1>a, <1>2 DEF Sent
<1>3. ASSUME NEW step, NEW n, Sent(k, t, step, n) PROVE step = "set"
  <2>1. errand'[k][t] = [step |-> step, tries |-> n] BY <1>a, <1>3 DEF Sent
  <2> QED BY <2>1 DEF OnErrand
<1>4. CASE k = "cancel" /\ CancelTask(t)
  BY <1>2, <1>3, <1>4 DEF CancelTask
<1>5. CASE k = "recover" /\ Recover(t) BY <1>2, <1>5 DEF Recover
<1>6. CASE k = "requeue" /\ RequeueTask(t) BY <1>1, <1>2, <1>6 DEF RequeueTask
<1>7. ~Store(k, t) /\ ~(k = "cancel" /\ Unqueue(t)) BY <1>3 DEF Store, Unqueue
<1> QED BY <1>1, <1>4, <1>5, <1>6, <1>7, ErrandCases

\* Whoever is on the way to the dead letter queue got there from retryTask.
LEMMA Buriers ==
  ASSUME TypeInv, [Next]_vars, NEW s \in Runs
  PROVE  /\ At(s, "rewrite")' => Retry(s) \/ (At(s, "rewrite") /\ run'[s] = run[s])
         /\ At(s, "bury")' => Retry(s) \/ (At(s, "bury") /\ run'[s] = run[s])
         /\ (At(s, "push") \/ At(s, "delete"))' =>
              /\ At(s, "bury") \/ At(s, "push") \/ At(s, "delete")
              /\ run'[s].task = run[s].task
<1>a. RunType /\ StoreType
  BY LimitAssumption DEF TypeInv, TypeOK, RunType, StoreType
<1>1. ASSUME NEW r \in Runs, NEW t \in Tasks, NEW w \in Workers, Claim(r, t, w)
      PROVE  run'[s] = run[s] \/ run'[s].pc = "assign"
  BY <1>a, <1>1 DEF Claim, NewRun, RunType
<1>2. ASSUME NEW r \in Runs, Retry(r), r # s PROVE run'[s] = run[s]
  BY <1>a, <1>2, RetryMoves
<1>3. Retry(s) => run'[s].pc \in {"retry", "release", "bury", "rewrite"}
  BY <1>a, RetryMoves
<1>4. ASSUME NEW r \in Runs, run[r].pc \in (InHand \cup Leaving) \ {"retry"},
             Moved(r, run[r].pc, Onward(run[r].pc, faults'))
      PROVE  \/ run'[s] = run[s]
             \/ run'[s].pc \notin {"rewrite", "bury", "push", "delete"}
             \/ /\ run'[s].pc \in {"push", "delete"} /\ run[s] # None
                /\ run[s].pc \in {"bury", "push"} /\ run'[s].task = run[s].task
  <2>1. CASE r # s BY <1>4, <2>1 DEF Moved
  <2>2. CASE r = s
    <3> DEFINE to == Onward(run[s].pc, faults')
    <3>1. /\ to \cap {"rewrite", "bury"} = {}
          /\ "push" \in to => run[s].pc = "bury"
          /\ "delete" \in to => run[s].pc = "push"
      BY <1>4, <2>2, OnwardFacts
    <3> HIDE DEF to
    <3>2. Moved(s, run[s].pc, to) BY <1>4, <2>2 DEF to
    <3> QED BY <3>1, <3>2 DEF Moved
  <2> QED BY <2>1, <2>2
<1>5. ASSUME NEW r \in Runs, Over(r) PROVE run'[s] = run[s] \/ run'[s] = None
  BY <1>5 DEF Over
<1>6. CASE run'[s] = run[s] BY <1>6 DEF At
<1> QED BY <1>a, <1>1, <1>2, <1>3, <1>4, <1>5, <1>6, RunCases DEF At

LEMMA EarnedInit == Init => ReportsInv /\ EarnedInv
<1> SUFFICES ASSUME Init PROVE ReportsInv /\ EarnedInv
  OBVIOUS
<1>1. \A t \in Tasks : Unsettled(t) = {} BY DEF Init, Unsettled
<1>2. ASSUME NEW t \in Tasks PROVE Room(t, retries[t])
  <2>1. Cardinality(Unsettled(t)) = 0 BY <1>1, FS_EmptySet
  <2>2. retries[t] = 0 /\ failures[t] = 0 BY DEF Init
  <2> QED BY <2>1, <2>2 DEF Room
<1> QED BY <1>2 DEF Init, ReportsInv, EarnedInv, OnErrand, At

LEMMA EarnedNext == TypeInv /\ TypeInv' /\ ReportsInv /\ EarnedInv /\ [Next]_vars => EarnedInv'
<1> SUFFICES ASSUME TypeInv, TypeInv', ReportsInv, EarnedInv, [Next]_vars, "cost" \notin faults'
             PROVE  /\ \A t \in Tasks : Room(t, retries[t])'
                    /\ \A k \in Errands, t \in Tasks :
                         OnErrand(k, t, "set")' => Room(t, errand[k][t].tries)'
                    /\ \A r \in Runs : At(r, "rewrite")' => Room(run[r].task, run[r].tries)'
                    /\ \A r \in Runs :
                         (At(r, "bury") \/ At(r, "push") \/ At(r, "delete"))' =>
                           failures'[run'[r].task] >= Limit + 1
                    /\ \A t \in Tasks : dlq'[t] > 0 => failures'[t] >= Limit + 1
  BY DEF EarnedInv
<1>a. RunType /\ StoreType /\ retries \in [Tasks -> Nat] /\ retries' \in [Tasks -> Nat]
  BY LimitAssumption DEF TypeInv, TypeOK, RunType, StoreType
<1>b. /\ \A t \in Tasks : Room(t, retries[t])
      /\ \A k \in Errands, t \in Tasks : OnErrand(k, t, "set") => Room(t, errand[k][t].tries)
      /\ \A r \in Runs : At(r, "rewrite") => Room(run[r].task, run[r].tries)
      /\ \A r \in Runs : At(r, "bury") \/ At(r, "push") \/ At(r, "delete") =>
           failures[run[r].task] >= Limit + 1
      /\ \A t \in Tasks : dlq[t] > 0 => failures[t] >= Limit + 1
  BY Frames DEF EarnedInv
<1>c. \A r \in Runs : run[r] # None => run[r].task \in Tasks /\ run[r].tries \in Nat
  BY <1>a DEF RunType, Run
<1>d. \A k \in Errands, t \in Tasks : OnErrand(k, t, "set") => errand[k][t].tries \in Nat
  BY DEF TypeInv, TypeOK, OnErrand, Errand
<1>1. ASSUME NEW t \in Tasks, NEW n \in Nat, Room(t, n)
      PROVE  n + Cardinality(Unsettled(t))' =< failures'[t]
  BY <1>1, RoomStays DEF Room
<1>2. ASSUME NEW t \in Tasks PROVE Room(t, retries[t])'
  <2>1. CASE UNCHANGED retries BY <1>a, <1>b, <1>1, <2>1 DEF Room
  <2>2. ASSUME NEW k \in Errands, NEW u \in Tasks, Store(k, u) PROVE Room(t, retries[t])'
    <3>1. CASE t = u
      <4>1. retries'[t] = errand[k][t].tries BY <1>a, <2>2, <3>1 DEF Store
      <4> QED BY <1>b, <1>d, <1>1, <2>2, <3>1, <4>1 DEF Room, Store
    <3>2. CASE t # u
      <4>1. retries'[t] = retries[t] BY <1>a, <2>2, <3>2 DEF Store
      <4> QED BY <1>a, <1>b, <1>1, <4>1 DEF Room
    <3> QED BY <3>1, <3>2
  <2>3. ASSUME NEW r \in Runs, Rewrite(r) PROVE Room(t, retries[t])'
    <3>1. Moved(r, "rewrite", {"requeue"}) BY <1>a, <2>3, StepMoves
    <3>2. CASE t # run[r].task
      <4>1. retries'[t] = retries[t] BY <1>a, <2>3, <3>2 DEF Rewrite
      <4> QED BY <1>a, <1>b, <1>1, <4>1 DEF Room
    <3>3. CASE t = run[r].task
      <4>1. retries'[t] = run[r].tries + 1 /\ UNCHANGED failures
        BY <1>a, <2>3, <3>3 DEF Rewrite, history
      <4>2. Room(t, run[r].tries) /\ run[r].tries \in Nat
        BY <1>b, <1>c, <2>3, <3>1, <3>3 DEF Rewrite, Moved
      <4>3. r \in Unsettled(t) /\ r \notin Unsettled(t)'
        <5>1. run[r].told BY <3>1, Frames DEF ReportsInv, Moved, Report
        <5> QED BY <3>1, <3>3, <5>1 DEF Unsettled, Moved, Report
      <4>4. Unsettled(t)' \subseteq Unsettled(t) BY <3>1, <4>3 DEF Moved, Unsettled
      <4>5. Cardinality(Unsettled(t))' + 1 =< Cardinality(Unsettled(t))
        BY <4>3, <4>4, UnsettledCount
      <4>6. /\ Cardinality(Unsettled(t))' \in Nat /\ Cardinality(Unsettled(t)) \in Nat
            /\ failures[t] \in Nat
        BY RoomStays
      <4> QED BY <4>1, <4>2, <4>5, <4>6 DEF Room
    <3> QED BY <3>2, <3>3
  <2> QED BY <2>1, <2>2, <2>3, Frames DEF RetriesStep
<1>3. ASSUME NEW k \in Errands, NEW t \in Tasks, OnErrand(k, t, "set")'
      PROVE  Room(t, errand[k][t].tries)'
  <2>1. CASE OnErrand(k, t, "set") /\ errand'[k][t] = errand[k][t]
    BY <1>b, <1>d, <1>1, <2>1 DEF Room
  <2>2. CASE errand'[k][t].tries = retries[t] BY <1>a, <1>b, <1>1, <2>2 DEF Room
  <2> QED BY <1>3, <2>1, <2>2, ErrandsRead
<1>4. ASSUME NEW r \in Runs, At(r, "rewrite")' PROVE Room(run[r].task, run[r].tries)'
  <2>1. CASE At(r, "rewrite") /\ run'[r] = run[r]
    BY <1>b, <1>c, <1>1, <2>1 DEF Room, At
  <2>2. CASE Retry(r)
    <3>1. /\ run[r] # None /\ run'[r].task = run[r].task
          /\ run'[r].tries = retries[run[r].task]
      BY <1>a, <1>4, <2>2, RetryMoves DEF At
    <3> QED BY <1>a, <1>b, <1>c, <1>1, <3>1 DEF Room
  <2> QED BY <1>4, <2>1, <2>2, Buriers
<1>5. ASSUME NEW t \in Tasks, failures[t] >= Limit + 1 PROVE failures'[t] >= Limit + 1
  BY <1>5, RoomStays, LimitAssumption
<1>6. ASSUME NEW r \in Runs, (At(r, "bury") \/ At(r, "push") \/ At(r, "delete"))'
      PROVE  failures'[run'[r].task] >= Limit + 1
  <2>1. CASE /\ At(r, "bury") \/ At(r, "push") \/ At(r, "delete")
             /\ run'[r].task = run[r].task
    BY <1>b, <1>c, <1>5, <2>1 DEF At
  <2>2. CASE Retry(r) /\ At(r, "bury")'
    <3> DEFINE t == run[r].task
    <3>1. /\ run[r] # None /\ t \in Tasks /\ retries[t] >= Limit
          /\ run'[r] # None /\ run'[r].told /\ run'[r].task = t
      BY <1>a, <1>c, <2>2, RetryMoves DEF At
    <3>2. UNCHANGED retries BY <2>2 DEF Retry, store
    <3>3. r \in Unsettled(t)' BY <2>2, <3>1 DEF Unsettled, At, Report
    <3>4. Cardinality(Unsettled(t))' \in Nat /\ Cardinality(Unsettled(t))' # 0
      <4>1. IsFiniteSet(Unsettled(t)') BY RunsAssumption, FS_Subset DEF Unsettled
      <4>2. Cardinality(Unsettled(t)') \in Nat /\ Cardinality(Unsettled(t)') # 0
        BY <3>3, <4>1, FS_CardinalityType, FS_EmptySet
      <4> QED BY <4>2
    <3>5. retries[t] + Cardinality(Unsettled(t))' =< failures'[t]
      BY <1>a, <1>b, <1>1, <3>1
    <3>6. failures'[t] \in Nat BY <3>1, RoomStays
    <3> HIDE DEF t
    <3> QED BY <1>a, <3>1, <3>4, <3>5, <3>6, LimitAssumption
  <2> QED BY <1>6, <2>1, <2>2, Buriers DEF At
<1>7. ASSUME NEW t \in Tasks, dlq'[t] > 0 PROVE failures'[t] >= Limit + 1
  <2>1. CASE dlq'[t] = dlq[t] BY <1>b, <1>5, <1>7, <2>1
  <2>2. ASSUME NEW r \in Runs, Push(r), t = run[r].task PROVE failures'[t] >= Limit + 1
    BY <1>b, <1>5, <2>2 DEF Push
  <2>3. ASSUME NEW r \in Runs, Push(r), t # run[r].task PROVE dlq'[t] = dlq[t]
    BY <2>3 DEF Push, TypeInv, TypeOK
  <2> QED BY <2>1, <2>2, <2>3, Frames
<1> QED BY <1>2, <1>3, <1>4, <1>6, <1>7

-----------------------------------------------------------------------------
(* One run at a time has a task in hand: from the moment it takes it off   *)
(* the queue until it has told the store what became of it.  A task that a *)
(* run or a recovery has is not on the queue, nor is one being processed.  *)
(* Only a recovery of a task that still runs, a disconnect, and a refused  *)
(* cost give a task to a second one.                                       *)

Taken == {"straggler", "disconnect", "cost"}

TokenInv ==
  faults \cap Taken = {} =>
    /\ \A r, s \in Runs, t \in Tasks : Holds(r, t) /\ Holds(s, t) => r = s
    /\ \A r \in Runs, t \in Tasks :
         Holds(r, t) => t \notin queue /\ errand["recover"][t] = None
    /\ \A t \in Tasks : errand["recover"][t] # None => t \notin queue
    /\ \A t \in Tasks :
         status[t] = "processing" => t \notin queue /\ ~OnErrand("recover", t, "queue")
    /\ \A r \in Runs : At(r, "requeue") => status[run[r].task] # "processing"

LEMMA TokenInit == Init => TokenInv
BY DEF Init, TokenInv, Holds, At, OnErrand, Errands

\* Without a refused cost, no step but Claim gives a task to a run.
LEMMA OnlyClaimsGive ==
  ASSUME TypeInv, [Next]_vars, "cost" \notin faults'
  PROVE  \/ \E r \in Runs, t \in Tasks, w \in Workers :
              /\ Claim(r, t, w)
              /\ \A s \in Runs, u \in Tasks : Holds(s, u)' => Holds(s, u) \/ (s = r /\ u = t)
         \/ \A s \in Runs, u \in Tasks : Holds(s, u)' => Holds(s, u)
<1>a. RunType /\ StoreType
  BY LimitAssumption DEF TypeInv, TypeOK, RunType, StoreType
<1> DEFINE Shrinks == \A s \in Runs, u \in Tasks : Holds(s, u)' => Holds(s, u)
<1>1. ASSUME NEW r \in Runs, NEW t \in Tasks, NEW w \in Workers, Claim(r, t, w)
      PROVE  \A s \in Runs, u \in Tasks : Holds(s, u)' => Holds(s, u) \/ (s = r /\ u = t)
  BY <1>a, <1>1 DEF Claim, NewRun, Holds, RunType
<1>2. ASSUME NEW r \in Runs, Retry(r) PROVE Shrinks
  <2>1. /\ \A s \in Runs \ {r} : run'[s] = run[s]
        /\ run[r] # None /\ run[r].pc = "retry" /\ run'[r].task = run[r].task
    BY <1>a, <1>2, RetryMoves
  <2> QED BY <2>1 DEF Holds, InHand
<1>3. ASSUME NEW r \in Runs, run[r].pc \in (InHand \cup Leaving) \ {"retry"},
             Moved(r, run[r].pc, Onward(run[r].pc, faults'))
      PROVE  Shrinks
  <2>1. run[r].pc \in Leaving => run'[r].pc \in Leaving BY <1>3, OnwardFacts DEF Moved
  <2>2. run[r].pc \in InHand \/ run'[r].pc \notin InHand
    BY <1>3, <2>1 DEF InHand, Leaving
  <2> QED BY <1>3, <2>2 DEF Moved, Holds
<1>4. ASSUME NEW r \in Runs, Over(r) PROVE Shrinks BY <1>4 DEF Over, Holds
<1>5. CASE UNCHANGED run BY <1>5 DEF Holds
<1> QED BY <1>a, <1>1, <1>2, <1>3, <1>4, <1>5, RunCases

\* A run only moves by its own steps.
LEMMA OwnSteps ==
  ASSUME RunType, StoreType, [Next]_vars, NEW r \in Runs, run'[r] # run[r]
  PROVE  \/ Step(r) \/ Crash(r)
         \/ \E t \in Tasks, w \in Workers : Claim(r, t, w)
<1>1. ASSUME NEW q \in Runs \ {r}, NEW from, NEW to, Moved(q, from, to) \/ Over(q)
      PROVE  FALSE
  BY <1>1 DEF Moved, Over
<1>2. ASSUME NEW q \in Runs \ {r}, Step(q) \/ Crash(q) PROVE FALSE
  <2>1. ~Retry(q) BY RetryMoves
  <2>2. ~(Assign(q) \/ Begin(q) \/ Drop(q) \/ Check(q) \/ Start(q) \/ Busy(q))
    BY <1>1, StepMoves
  <2>3. ~(Handled(q) \/ TimesOut(q) \/ Abort(q) \/ Latest(q) \/ Complete(q))
    BY <1>1, StepMoves
  <2>4. ~(Rewrite(q) \/ Requeue(q) \/ Bury(q) \/ Push(q) \/ Delete(q) \/ Fail(q))
    BY <1>1, StepMoves
  <2>5. ~(Release(q) \/ Finally(q) \/ Leave(q) \/ Crash(q)) BY <1>1, StepMoves
  <2> QED BY <1>2, <2>1, <2>2, <2>3, <2>4, <2>5 DEF Step
<1>3. ASSUME NEW q \in Runs \ {r}, NEW t \in Tasks, NEW w \in Workers, Claim(q, t, w)
      PROVE  FALSE
  BY <1>3 DEF Claim, RunType
<1>4. ~UNCHANGED vars BY DEF vars
<1> QED BY <1>2, <1>3, <1>4, NextCases, WorldLeavesRuns

\* The step of a run is the one that its pc says.
LEMMA StepOnWay ==
  ASSUME NEW r \in Runs, Step(r)
  PROVE  /\ run[r] # None
         /\ At(r, "begin") => Begin(r)
         /\ At(r, "check") => Check(r)
         /\ At(r, "retry") => Retry(r)
         /\ At(r, "rewrite") => Rewrite(r)
         /\ At(r, "requeue") => Requeue(r)
         /\ At(r, "bury") => Bury(r)
         /\ At(r, "push") => Push(r)
         /\ At(r, "delete") => Delete(r)
         /\ At(r, "unlist") => Release(r)
<1> DEFINE Elsewhere(pcs) == run[r] # None /\ run[r].pc \in pcs
           Rest == {"assign", "assignSet", "assignPush", "drop", "start", "busy",
                    "busySet", "handler", "abort", "latest", "complete", "fail",
                    "finally", "leave", "leaveSet"}
<1>1. Assign(r) \/ Drop(r) \/ Start(r) \/ Busy(r) => Elsewhere(Rest)
  BY DEF Assign, Drop, Start, Busy, GetWorker, SetWorker, At
<1>2. Handled(r) \/ TimesOut(r) \/ Abort(r) \/ Latest(r) \/ Complete(r) \/ Fail(r)
        => Elsewhere(Rest)
  BY DEF Handled, TimesOut, Abort, Latest, Complete, Fail, At
<1>3. Finally(r) \/ Leave(r) => Elsewhere(Rest)
  BY DEF Finally, Leave, GetWorker, SetWorker, At
<1>4. /\ Begin(r) => Elsewhere({"begin"})
      /\ Check(r) => Elsewhere({"check"})
      /\ Retry(r) => Elsewhere({"retry"})
      /\ Rewrite(r) => Elsewhere({"rewrite"})
      /\ Requeue(r) => Elsewhere({"requeue"})
      /\ Bury(r) => Elsewhere({"bury"})
      /\ Push(r) => Elsewhere({"push"})
      /\ Delete(r) => Elsewhere({"delete"})
      /\ Release(r) => Elsewhere({"release", "releaseSet", "unlist"})
  BY DEF Begin, Check, Retry, Rewrite, Requeue, Bury, Push, Delete, Release, GetWorker,
         SetWorker, At
<1> QED BY <1>1, <1>2, <1>3, <1>4 DEF Step, At

\* Where such a step takes it.
LEMMA OwnMove ==
  ASSUME RunType, StoreType, [Next]_vars, NEW r \in Runs,
         run'[r] # run[r], run[r] # None, run'[r] # None, run[r].pc # "retry"
  PROVE  /\ run[r].pc \in (InHand \cup Leaving) \ {"retry"}
         /\ Moved(r, run[r].pc, Onward(run[r].pc, faults'))
         /\ Step(r)
<1>1. ASSUME NEW q \in Runs, NEW t \in Tasks, NEW w \in Workers, Claim(q, t, w) PROVE FALSE
  BY <1>1 DEF Claim, RunType
<1>2. ~Crash(r) BY DEF Crash, RunType
<1>3. ASSUME NEW q \in Runs, Retry(q) PROVE FALSE BY <1>3, RetryMoves
<1>4. ASSUME NEW q \in Runs, Over(q) PROVE FALSE BY <1>4 DEF Over
<1>5. ASSUME NEW q \in Runs \ {r}, Moved(q, run[q].pc, Onward(run[q].pc, faults'))
      PROVE  FALSE
  BY <1>5 DEF Moved
<1> QED BY <1>1, <1>2, <1>3, <1>4, <1>5, OwnSteps, RunCases

\* The only way to "requeue" is to have rewritten the record.
LEMMA RequeueAfterRewrite ==
  ASSUME RunType, StoreType, [Next]_vars, NEW r \in Runs, At(r, "requeue")'
  PROVE  (At(r, "requeue") /\ run'[r] = run[r]) \/ (Rewrite(r) /\ run'[r].task = run[r].task)
<1>1. CASE run'[r] = run[r] BY <1>1 DEF At
<1>2. CASE run'[r] # run[r]
  <2>1. run[r] # None /\ run[r].pc # "retry"
    <3>1. ASSUME NEW q \in Runs, NEW t \in Tasks, NEW w \in Workers, Claim(q, t, w)
          PROVE  FALSE
      BY <1>2, <3>1 DEF Claim, NewRun, RunType, At
    <3>2. ASSUME NEW q \in Runs, Retry(q) PROVE FALSE
      BY <1>2, <3>2, RetryMoves DEF At
    <3>3. ASSUME NEW q \in Runs, Over(q) PROVE FALSE BY <1>2, <3>3 DEF Over, At
    <3> QED BY <1>2, <3>1, <3>2, <3>3, RunCases DEF Moved
  <2>2. Moved(r, run[r].pc, Onward(run[r].pc, faults')) /\ Step(r)
    BY <1>2, <2>1, OwnMove DEF At
  <2>3. run[r].pc = "rewrite"
    BY <1>2, <2>1, <2>2, OwnMove, OnwardFacts DEF Moved, At
  <2> QED BY <2>1, <2>2, <2>3, StepOnWay DEF Moved, At
<1> QED BY <1>1, <1>2

LEMMA TokenNext == TypeInv /\ QuietInv /\ TokenInv /\ [Next]_vars => TokenInv'
<1> SUFFICES ASSUME TypeInv, QuietInv, TokenInv, [Next]_vars, faults' \cap Taken = {}
             PROVE  TokenInv'
  BY DEF TokenInv
<1>a. RunType /\ StoreType
  BY LimitAssumption DEF TypeInv, TypeOK, RunType, StoreType
<1>b. /\ \A r, s \in Runs, t \in Tasks : Holds(r, t) /\ Holds(s, t) => r = s
      /\ \A r \in Runs, t \in Tasks :
           Holds(r, t) => t \notin queue /\ errand["recover"][t] = None
      /\ \A t \in Tasks : errand["recover"][t] # None => t \notin queue
      /\ \A t \in Tasks :
           status[t] = "processing" => t \notin queue /\ ~OnErrand("recover", t, "queue")
      /\ \A r \in Runs : At(r, "requeue") => status[run[r].task] # "processing"
  BY Frames DEF TokenInv
<1>c. "cost" \notin faults' /\ \A t \in Tasks : errand["requeue"][t] = None
  BY Frames DEF QuietInv, Taken
\* A run at a step has its task in hand.
<1>d. ASSUME NEW r \in Runs, NEW pc \in InHand, At(r, pc)
      PROVE  run[r].task \in Tasks /\ Holds(r, run[r].task)
  BY <1>a, <1>d DEF RunType, Run, At, Holds
\* What is added to the queue.
<1>e. ASSUME NEW t \in Tasks, t \in queue', t \notin queue
      PROVE  \/ \E r \in Runs : Requeue(r) /\ run[r].task = t
             \/ Enqueue("recover", t)
  BY <1>c, <1>e, QueueCases DEF Errands, Enqueue, OnErrand
\* A recovery begins with a task that nobody holds.
<1>f. ASSUME NEW t \in Tasks, Recover(t)
      PROVE  status[t] = "processing" /\ ~Held(t) /\ UNCHANGED <<status, queue, run>>
  BY <1>f DEF Recover, Stale, Fault, Taken, store
<1>g. ASSUME NEW t \in Tasks, errand'["recover"][t] # None
      PROVE  \/ errand["recover"][t] # None
             \/ Recover(t)
  BY <1>g, ErrandCases DEF Errands, Store, OnErrand
<1>h. ASSUME NEW r \in Runs, Requeue(r)
      PROVE  \A t \in Tasks : ~Holds(r, t)'
  BY <1>a, <1>h, StepMoves DEF Moved, Holds, InHand
<1>1. ASSUME NEW r \in Runs, NEW s \in Runs, NEW t \in Tasks, Holds(r, t)', Holds(s, t)'
      PROVE  r = s
  <2>1. ASSUME NEW q \in Runs, NEW u \in Tasks, NEW w \in Workers, Claim(q, u, w)
        PROVE  \A p \in Runs : ~Holds(p, u)
    BY <1>b, <2>1 DEF Claim
  <2> QED BY <1>b, <1>c, <1>1, <2>1, OnlyClaimsGive
<1>2. ASSUME NEW r \in Runs, NEW t \in Tasks, Holds(r, t)'
      PROVE  t \notin queue' /\ errand'["recover"][t] = None
  <2>1. ASSUME NEW q \in Runs, NEW w \in Workers, Claim(q, t, w)
        PROVE  t \notin queue' /\ errand'["recover"][t] = None
    BY <1>b, <2>1 DEF Claim, Left, errands
  <2>2. CASE Holds(r, t)
    <3>1. t \notin queue /\ errand["recover"][t] = None BY <1>b, <2>2
    <3>2. ~Recover(t) BY <1>f, <2>2 DEF Held
    <3>3. ASSUME NEW q \in Runs, Requeue(q), run[q].task = t PROVE FALSE
      <4>1. Holds(q, t) BY <1>d, <3>3 DEF Requeue, InHand
      <4>2. q = r BY <1>b, <2>2, <4>1
      <4> QED BY <1>h, <1>2, <3>3, <4>2
    <3>4. ~Enqueue("recover", t) BY <3>1 DEF Enqueue, OnErrand
    <3> QED BY <1>e, <1>g, <3>1, <3>2, <3>3, <3>4
  <2> QED BY <1>c, <1>2, <2>1, <2>2, OnlyClaimsGive
<1>3. ASSUME NEW t \in Tasks, errand'["recover"][t] # None PROVE t \notin queue'
  <2>1. CASE Recover(t) BY <1>b, <1>f, <2>1
  <2>2. CASE errand["recover"][t] # None
    <3>1. t \notin queue BY <1>b, <2>2
    <3>2. ASSUME NEW q \in Runs, Requeue(q), run[q].task = t PROVE FALSE
      BY <1>b, <1>d, <2>2, <3>2 DEF Requeue, InHand
    <3>3. ~Enqueue("recover", t)
      BY <1>3 DEF Enqueue, Back, TypeInv, TypeOK, Errands
    <3> QED BY <1>e, <3>1, <3>2, <3>3
  <2> QED BY <1>g, <1>3, <2>1, <2>2
<1>4. ASSUME NEW t \in Tasks, status'[t] = "processing"
      PROVE  t \notin queue' /\ ~OnErrand("recover", t, "queue")'
  <2>1. CASE status[t] = "processing"
    <3>1. t \notin queue /\ ~OnErrand("recover", t, "queue") BY <1>b, <2>1
    <3>2. ASSUME NEW q \in Runs, Requeue(q), run[q].task = t PROVE FALSE
      BY <1>b, <2>1, <3>2 DEF Requeue
    <3>3. ~Enqueue("recover", t) BY <3>1 DEF Enqueue
    <3>4. ~Store("recover", t)
      BY <1>4 DEF Store, TypeInv, TypeOK
    <3>5. Recover(t) => ~OnErrand("recover", t, "queue")'
      BY DEF Recover, Sent, OnErrand, TypeInv, TypeOK, Errands
    <3>6. ~OnErrand("recover", t, "queue")'
      BY <3>1, <3>4, <3>5, ErrandCases DEF OnErrand, Errands
    <3> QED BY <1>e, <3>1, <3>2, <3>3, <3>6
  <2>2. ASSUME NEW r \in Runs, Start(r), run[r].task = t
        PROVE  t \notin queue' /\ ~OnErrand("recover", t, "queue")'
    <3>1. UNCHANGED <<queue, errand>> BY <2>2 DEF Start, SetStatus, errands
    <3>2. t \notin queue /\ errand["recover"][t] = None
      BY <1>b, <1>d, <2>2 DEF Start, InHand
    <3> QED BY <3>1, <3>2 DEF OnErrand
  <2> QED BY <1>4, <2>1, <2>2, StatusCases, NoneAssumption DEF Statuses
<1>5. ASSUME NEW r \in Runs, At(r, "requeue")' PROVE status'[run'[r].task] # "processing"
  <2>1. CASE At(r, "requeue") /\ run'[r] = run[r]
    <3> DEFINE t == run[r].task
    <3>1. t \in Tasks /\ Holds(r, t) /\ status[t] # "processing"
      BY <1>b, <1>d, <2>1 DEF InHand
    <3>2. ASSUME NEW q \in Runs, Start(q), run[q].task = t PROVE FALSE
      <4>1. Holds(q, t) BY <1>d, <3>2 DEF Start, InHand
      <4>2. q = r BY <1>b, <3>1, <4>1
      <4> QED BY <2>1, <3>2, <4>2 DEF Start, At
    <3> HIDE DEF t
    <3>3. status'[t] # "processing"
      BY <3>1, <3>2, StatusCases, NoneAssumption DEF Statuses
    <3> QED BY <2>1, <3>3 DEF t
  <2>2. CASE Rewrite(r) /\ run'[r].task = run[r].task
    <3>1. run[r].task \in Tasks BY <1>d, <2>2 DEF Rewrite, InHand
    <3>2. status'[run[r].task] = "retry" BY <2>2, <3>1 DEF Rewrite, TypeInv, TypeOK
    <3> QED BY <2>2, <3>2
  <2> QED BY <1>a, <1>5, <2>1, <2>2, RequeueAfterRewrite
<1> QED BY <1>1, <1>2, <1>3, <1>4, <1>5 DEF TokenInv

LEMMA TokenSuffices == TypeInv /\ QuietInv /\ TokenInv => NoDoubleRun
<1> SUFFICES ASSUME TypeInv, QuietInv, TokenInv,
                    faults \cap {"straggler", "timeout", "cost", "disconnect"} = {},
                    NEW t \in Tasks
             PROVE  Cardinality(InHandler(t)) + lingering[t] =< 1
  BY DEF NoDoubleRun
<1>1. lingering[t] = 0 BY DEF QuietInv
<1>2. \A r, s \in InHandler(t) : r = s
  BY DEF InHandler, At, TokenInv, Taken, Holds, InHand
<1>3. Cardinality(InHandler(t)) \in {0, 1}
  <2>1. CASE InHandler(t) = {} BY <2>1, FS_EmptySet
  <2>2. ASSUME NEW r \in InHandler(t) PROVE Cardinality(InHandler(t)) = 1
    <3>1. InHandler(t) = {r} BY <1>2, <2>2
    <3> QED BY <3>1, FS_Singleton
  <2> QED BY <2>1, <2>2
<1> QED BY <1>1, <1>3

\* "Without double-processing work": as long as no recovery and no disconnect
\* takes a run for dead, no handler outlives its timeout and no cost is refused,
\* at most one handler runs a task, over crashes and recoveries, cancellations,
\* dying errands and expiry.
THEOREM NeverRunTwice == Spec => []NoDoubleRun
BY TypeInit, TypeNext, QuietInit, QuietNext, TokenInit, TokenNext, TokenSuffices, PTL
DEF Spec

-----------------------------------------------------------------------------
(* Once in the dead letter queue.  The record of a task that is there is   *)
(* gone, or about to be deleted by the run that has it in hand, and nobody *)
(* else has anything to write back.                                        *)

Twofold == {"crash", "cancel", "disconnect", "straggler", "cost"}

OnceInv ==
  faults \cap Twofold = {} =>
    /\ \A r \in Runs : At(r, "rewrite") \/ At(r, "push") \/ At(r, "delete") =>
         status[run[r].task] # None
    /\ \A t \in Tasks : errand["recover"][t] # None => status[t] # None
    /\ \A t \in Tasks : dlq[t] > 0 =>
         /\ dlq[t] = 1
         /\ status[t] = None \/ \E r \in Runs : At(r, "delete") /\ run[r].task = t

LEMMA OnceInit == Init => OnceInv
BY DEF Init, OnceInv, At, Errands

\* Which step a run that is at one of the store's steps took, if it took one.
LEMMA MovedFrom ==
  ASSUME RunType, StoreType, [Next]_vars, NEW r \in Runs,
         "crash" \notin faults', run'[r] # run[r], run[r] # None
  PROVE  Step(r)
<1>1. ~Crash(r) BY DEF Crash, Fault
<1>2. ASSUME NEW t \in Tasks, NEW w \in Workers, Claim(r, t, w) PROVE FALSE
  BY <1>2 DEF Claim
<1> QED BY <1>1, <1>2, OwnSteps

LEMMA OnceNext == TypeInv /\ QuietInv /\ TokenInv /\ OnceInv /\ [Next]_vars => OnceInv'
<1> SUFFICES ASSUME TypeInv, QuietInv, TokenInv, OnceInv, [Next]_vars,
                    faults' \cap Twofold = {}
             PROVE  OnceInv'
  BY DEF OnceInv
<1>a. RunType /\ StoreType /\ dlq \in [Tasks -> Nat]
  BY LimitAssumption DEF TypeInv, TypeOK, RunType, StoreType
<1>b. /\ \A r \in Runs : At(r, "rewrite") \/ At(r, "push") \/ At(r, "delete") =>
           status[run[r].task] # None
      /\ \A t \in Tasks : errand["recover"][t] # None => status[t] # None
      /\ \A t \in Tasks : dlq[t] > 0 =>
           /\ dlq[t] = 1
           /\ status[t] = None \/ \E r \in Runs : At(r, "delete") /\ run[r].task = t
  BY Frames DEF OnceInv
<1>c. /\ \A r, s \in Runs, t \in Tasks : Holds(r, t) /\ Holds(s, t) => r = s
      /\ \A r \in Runs, t \in Tasks : Holds(r, t) => errand["recover"][t] = None
      /\ \A t \in Tasks : errand["cancel"][t] = None /\ errand["requeue"][t] = None
      /\ "crash" \notin faults'
  BY Frames DEF TokenInv, QuietInv, Taken, Twofold
<1>d. ASSUME NEW r \in Runs, NEW pc \in InHand, At(r, pc)
      PROVE  run[r].task \in Tasks /\ Holds(r, run[r].task) /\ run[r] # None
  BY <1>a, <1>d DEF RunType, Run, At, Holds
\* A record that is gone does not come back, and goes by Delete.
<1>e. ASSUME NEW t \in Tasks, status'[t] # status[t]
      PROVE  \/ status'[t] # None /\ status[t] # None
             \/ \E r \in Runs : Delete(r) /\ run[r].task = t /\ status'[t] = None
  <2>1. ASSUME NEW r \in Runs, Rewrite(r), run[r].task = t PROVE status[t] # None
    BY <1>b, <2>1 DEF Rewrite
  <2>2. ASSUME NEW k \in Errands, Store(k, t) PROVE status[t] # None
    BY <1>b, <1>c, <2>2 DEF Store, OnErrand, Errands
  <2> QED BY <1>e, <2>1, <2>2, StatusCases, NoneAssumption DEF Statuses
<1>f. ASSUME NEW q \in Runs, NEW r \in Runs, NEW t \in Tasks, NEW pc \in InHand,
             Delete(q), run[q].task = t, At(r, pc), run[r].task = t
      PROVE  q = r /\ pc = "delete"
  <2>1. Holds(q, t) /\ Holds(r, t) BY <1>d, <1>f DEF Delete, InHand
  <2> QED BY <1>c, <1>f, <2>1 DEF Delete, At
<1>1. ASSUME NEW r \in Runs, (At(r, "rewrite") \/ At(r, "push") \/ At(r, "delete"))'
      PROVE  status'[run'[r].task] # None
  <2>1. CASE run'[r] = run[r]
    <3> DEFINE t == run[r].task
    <3>1. PICK pc \in {"rewrite", "push", "delete"} : At(r, pc)
      BY <1>1, <2>1 DEF At
    <3>2. t \in Tasks /\ status[t] # None BY <1>b, <1>d, <3>1 DEF InHand
    <3>3. ASSUME NEW q \in Runs, Delete(q), run[q].task = t PROVE FALSE
      <4>1. q = r BY <1>f, <3>1, <3>2, <3>3 DEF InHand
      <4>2. Moved(r, "delete", {"fail"}) BY <1>a, <3>3, <4>1, StepMoves
      <4> QED BY <2>1, <4>2 DEF Moved
    <3> HIDE DEF t
    <3>4. status'[t] # None BY <1>e, <3>2, <3>3
    <3> QED BY <2>1, <3>4 DEF t
  <2>2. CASE Retry(r)
    <3>1. /\ run[r] # None /\ run'[r].task = run[r].task
          /\ run'[r].pc \in {"retry", "release"} \/ status[run[r].task] # None
      BY <1>a, <2>2, RetryMoves
    <3>2. UNCHANGED status BY <2>2 DEF Retry, store
    <3> QED BY <1>1, <3>1, <3>2 DEF At
  <2>3. CASE run'[r] # run[r] /\ (At(r, "bury") \/ At(r, "push") \/ At(r, "delete"))
               /\ run'[r].task = run[r].task
    <3>1. Step(r) BY <1>a, <1>c, <2>3, MovedFrom DEF At
    <3>2. CASE At(r, "bury")
      <4>1. Bury(r) BY <3>1, <3>2, StepOnWay
      <4>2. UNCHANGED status /\ (status[run[r].task] = None => Goto(r, "fail"))
        BY <4>1 DEF Bury, store
      <4>3. Goto(r, "fail") => run'[r].pc = "fail"
        BY <1>a, <3>2, GotoMoves DEF Moved, InHand
      <4> QED BY <1>1, <2>3, <4>2, <4>3 DEF At
    <3>3. CASE At(r, "push")
      <4>1. Push(r) BY <3>1, <3>3, StepOnWay
      <4> QED BY <1>b, <2>3, <3>3, <4>1 DEF Push
    <3>4. CASE At(r, "delete")
      <4>1. Delete(r) BY <3>1, <3>4, StepOnWay
      <4> QED BY <1>1, <1>a, <4>1, StepMoves DEF Moved, At
    <3> QED BY <2>3, <3>2, <3>3, <3>4
  <2> QED BY <1>1, <2>1, <2>2, <2>3, Buriers DEF At
<1>2. ASSUME NEW t \in Tasks, errand'["recover"][t] # None PROVE status'[t] # None
  <2>1. CASE Recover(t)
    <3>1. status[t] = "processing" /\ UNCHANGED status
      BY <2>1 DEF Recover, Stale, store
    <3> QED BY <3>1, NoneAssumption DEF Statuses
  <2>2. CASE errand["recover"][t] # None
    <3>1. ASSUME NEW r \in Runs, Delete(r), run[r].task = t PROVE FALSE
      BY <1>c, <1>d, <2>2, <3>1 DEF Delete, InHand
    <3> QED BY <1>b, <1>e, <2>2, <3>1
  <2> QED BY <1>2, <2>1, <2>2, ErrandCases DEF Errands, Store, OnErrand
<1>3. ASSUME NEW t \in Tasks, dlq'[t] > 0
      PROVE  /\ dlq'[t] = 1
             /\ status'[t] = None \/ \E r \in Runs : At(r, "delete")' /\ run'[r].task = t
  <2>1. ASSUME NEW q \in Runs, Push(q), run[q].task = t
        PROVE  dlq'[t] = 1 /\ At(q, "delete")' /\ run'[q].task = t
    <3>1. Moved(q, "push", {"delete"}) BY <1>a, <2>1, StepMoves
    <3>2. dlq[t] = 0
      <4>1. ASSUME NEW r \in Runs, At(r, "delete"), run[r].task = t PROVE FALSE
        <5>1. Holds(q, t) /\ Holds(r, t) BY <1>d, <2>1, <4>1 DEF Push, InHand
        <5> QED BY <1>c, <2>1, <4>1, <5>1 DEF Push, At
      <4>2. status[t] # None BY <1>b, <2>1 DEF Push
      <4> QED BY <1>a, <1>b, <4>1, <4>2
    <3>3. dlq'[t] = 1 BY <1>a, <2>1, <3>2 DEF Push
    <3> QED BY <2>1, <3>1, <3>3 DEF Moved, At
  <2>2. CASE dlq'[t] = dlq[t]
    <3>1. /\ dlq'[t] = 1
          /\ status[t] = None \/ \E r \in Runs : At(r, "delete") /\ run[r].task = t
      BY <1>b, <1>3, <2>2
    <3>2. CASE status[t] = None BY <1>e, <3>1, <3>2
    <3>3. ASSUME NEW r \in Runs, At(r, "delete"), run[r].task = t
          PROVE  status'[t] = None \/ (At(r, "delete")' /\ run'[r].task = t)
      <4>1. CASE run'[r] = run[r] BY <3>3, <4>1 DEF At
      <4>2. CASE run'[r] # run[r]
        <5>1. Step(r) BY <1>a, <1>c, <3>3, <4>2, MovedFrom DEF At
        <5>2. Delete(r) BY <3>3, <5>1, StepOnWay
        <5> QED BY <3>3, <5>2 DEF Delete, TypeInv, TypeOK
      <4> QED BY <4>1, <4>2
    <3> QED BY <3>1, <3>2, <3>3
  <2>3. ASSUME NEW q \in Runs, Push(q), run[q].task # t PROVE dlq'[t] = dlq[t]
    BY <1>a, <2>3 DEF Push
  <2> QED BY <2>1, <2>2, <2>3, Frames
<1> QED BY <1>1, <1>2, <1>3 DEF OnceInv

LEMMA EarnedOnce == TypeInv /\ EarnedInv /\ OnceInv => DeadLetterEarned
<1> SUFFICES ASSUME TypeInv, EarnedInv, OnceInv, NEW t \in Tasks
             PROVE  /\ "cost" \notin faults /\ dlq[t] > 0 => failures[t] >= Limit + 1
                    /\ faults \cap Twofold = {} => dlq[t] =< 1
  BY DEF DeadLetterEarned, Twofold
<1>1. dlq[t] \in Nat BY DEF TypeInv, TypeOK
<1> QED BY <1>1 DEF EarnedInv, OnceInv

\* retryTask moves a task to the dead letter queue only when maxRetries + 1 runs
\* of it have failed, whatever is read, written and written back out of turn,
\* but for refused costs; and once, unless a death, an errand or a second run
\* leaves or brings back its record.
THEOREM DeadLettersAreEarned == Spec => []DeadLetterEarned
<1> DEFINE IInv == TypeInv /\ QuietInv /\ ReportsInv /\ EarnedInv /\ TokenInv /\ OnceInv
<1>1. Init => IInv BY TypeInit, QuietInit, EarnedInit, TokenInit, OnceInit
<1>2. IInv /\ [Next]_vars => IInv'
  BY TypeNext, QuietNext, ReportsNext, EarnedNext, TokenNext, OnceNext
<1>3. IInv => DeadLetterEarned BY EarnedOnce
<1> QED BY <1>1, <1>2, <1>3, PTL DEF Spec

-----------------------------------------------------------------------------
(* A completed task that nothing contests: whoever still turns up with it  *)
(* was given it again, and leaves at the check; whatever is still on its   *)
(* way to it is a refused cancellation.                                    *)

Early == {"assign", "assignSet", "assignPush", "begin", "check"}

DoneInv ==
  \A t \in Tasks \ contested : status[t] = "completed" =>
    /\ t \notin cancelled
    /\ \A k \in Errands : errand[k][t] # None => OnErrand(k, t, "signal")
    /\ \A r \in Runs : Holds(r, t) => run[r].pc \in Early /\ ~run[r].fresh

LEMMA DoneInit == Init => DoneInv
BY DEF Init, DoneInv

\* It stays completed.
LEMMA StaysCompleted ==
  ASSUME TypeInv, DoneInv, [Next]_vars, NEW t \in Tasks \ contested', status[t] = "completed"
  PROVE  status'[t] = "completed"
<1>1. /\ \A k \in Errands : errand[k][t] # None => OnErrand(k, t, "signal")
      /\ \A r \in Runs : Holds(r, t) => run[r].pc \in Early
  BY Frames DEF DoneInv
<1>2. ASSUME NEW r \in Runs, run[r].task = t,
             At(r, "drop") \/ At(r, "start") \/ At(r, "abort") \/ At(r, "complete")
               \/ At(r, "fail") \/ At(r, "rewrite") \/ At(r, "delete")
      PROVE  FALSE
  BY <1>1, <1>2 DEF At, Holds, InHand, Early
<1>3. ASSUME NEW k \in Errands, Store(k, t) PROVE FALSE
  BY <1>1, <1>3 DEF Store, OnErrand
<1> QED
  BY <1>2, <1>3, StatusCases DEF Drop, Start, Abort, Complete, Fail, Rewrite, Delete

LEMMA DoneNext == TypeInv /\ DoneInv /\ [Next]_vars => DoneInv'
<1> SUFFICES ASSUME TypeInv, DoneInv, [Next]_vars, NEW t \in Tasks \ contested',
                    status'[t] = "completed"
             PROVE  /\ t \notin cancelled'
                    /\ \A k \in Errands : errand'[k][t] # None => OnErrand(k, t, "signal")'
                    /\ \A r \in Runs : Holds(r, t)' => run'[r].pc \in Early /\ ~run'[r].fresh
  BY DEF DoneInv
<1>a. RunType /\ StoreType
  BY LimitAssumption DEF TypeInv, TypeOK, RunType, StoreType
\* Completed just now: nothing else was about.
<1>1. ASSUME status[t] # "completed"
      PROVE  /\ t \notin cancelled'
             /\ \A k \in Errands : errand'[k][t] # None => OnErrand(k, t, "signal")'
             /\ \A r \in Runs : Holds(r, t)' => run'[r].pc \in Early /\ ~run'[r].fresh
  <2>1. PICK q \in Runs : Complete(q) /\ run[q].task = t /\ status[t] # None
    BY <1>1, StatusCases, NoneAssumption DEF Statuses
  <2>2. ~Contest(q, t) BY <2>1 DEF Complete
  <2>3. UNCHANGED <<cancelled, errand>> BY <2>1 DEF Complete, SetStatus, errands
  <2>4. Moved(q, "complete", {"release"})
    BY <1>a, <2>1, GotoMoves DEF Complete, SetStatus, Leaving
  <2> QED BY <2>2, <2>3, <2>4 DEF Contest, Moved, Holds, InHand
\* Completed before.
<1>2. ASSUME status[t] = "completed"
      PROVE  /\ t \notin cancelled'
             /\ \A k \in Errands : errand'[k][t] # None => OnErrand(k, t, "signal")'
             /\ \A r \in Runs : Holds(r, t)' => run'[r].pc \in Early /\ ~run'[r].fresh
  <2>1. /\ t \notin cancelled
        /\ \A k \in Errands : errand[k][t] # None => OnErrand(k, t, "signal")
        /\ \A r \in Runs : Holds(r, t) => run[r].pc \in Early /\ ~run[r].fresh
    BY <1>2, Frames DEF DoneInv
  <2>2. t \notin cancelled'
    BY <1>2, <2>1, Frames DEF CancelledStep, Finally, Signal
  <2>3. ASSUME NEW k \in Errands, errand'[k][t] # None PROVE OnErrand(k, t, "signal")'
    <3>1. CASE errand'[k][t] = errand[k][t] BY <2>1, <2>3, <3>1 DEF OnErrand
    <3>2. CASE k = "cancel" /\ CancelTask(t)
      <4>1. errand' = [errand EXCEPT !["cancel"][t] = [step |-> "signal", tries |-> 0]]
        BY <1>2, <3>2 DEF CancelTask, Finished, Sent
      <4>2. errand'[k][t] = [step |-> "signal", tries |-> 0]
        BY <3>2, <4>1 DEF TypeInv, TypeOK
      <4> QED BY <2>3, <4>2 DEF OnErrand
    <3>3. ~(k = "cancel" /\ Unqueue(t)) /\ ~Store(k, t)
      BY <2>1 DEF Unqueue, Store, OnErrand
    <3>4. ~Recover(t) BY <1>2 DEF Recover, Stale
    <3>5. ~RequeueTask(t) BY <1>2 DEF RequeueTask
    <3> QED BY <2>3, <3>1, <3>2, <3>3, <3>4, <3>5, ErrandCases
  <2>4. ASSUME NEW r \in Runs, Holds(r, t)' PROVE run'[r].pc \in Early /\ ~run'[r].fresh
    <3>1. CASE run'[r] = run[r] BY <2>1, <2>4, <3>1 DEF Holds
    <3>2. ASSUME NEW u \in Tasks, NEW w \in Workers, Claim(r, u, w)
          PROVE  run'[r].pc \in Early /\ ~run'[r].fresh
      <4>1. run'[r] = NewRun(u, w) BY <1>a, <3>2 DEF Claim, RunType
      <4>2. u = t BY <2>4, <4>1 DEF Holds, NewRun
      <4>3. (status[u] \in NotStarted) = FALSE BY <1>2, <4>2 DEF NotStarted
      <4>4. NewRun(u, w).pc = "assign" /\ NewRun(u, w).fresh = FALSE
        BY <4>3 DEF NewRun
      <4> QED BY <4>1, <4>4 DEF Early
    <3>3. CASE Step(r) /\ run'[r] # run[r]
      <4> DEFINE to == Onward(run[r].pc, faults')
      <4>1. run[r] # None /\ run'[r] # None /\ run[r].task = t /\ run[r].pc # "retry"
        <5>1. run[r] # None /\ run'[r] # None /\ run'[r].task = t
          BY <2>4, <3>3, StepOnWay DEF Holds
        <5>2. CASE run[r].pc = "retry"
          <6>1. Retry(r) BY <3>3, <5>1, <5>2, StepOnWay DEF At
          <6>2. run[r].task = t BY <1>a, <5>1, <6>1, RetryMoves
          <6> QED BY <2>1, <5>1, <5>2, <6>2 DEF Holds, InHand, Early
        <5>3. CASE run[r].pc # "retry"
          BY <1>a, <3>3, <5>1, <5>3, OwnMove DEF Moved
        <5> QED BY <5>2, <5>3
      <4>2. Moved(r, run[r].pc, to) /\ run[r].pc \in (InHand \cup Leaving) \ {"retry"}
        BY <1>a, <3>3, <4>1, OwnMove
      <4>3. CASE run[r].pc \in {"assign", "assignSet", "assignPush"}
        <5>1. to \subseteq Early BY <4>3 DEF Onward, Early
        <5>2. ~run[r].fresh BY <2>1, <4>1, <4>3 DEF Holds, InHand
        <5> HIDE DEF to
        <5> QED BY <4>2, <5>1, <5>2 DEF Moved
      <4>4. CASE run[r].pc = "begin"
        <5>1. ~run[r].fresh BY <2>1, <4>1, <4>4 DEF Holds, InHand
        <5>2. Begin(r) BY <3>3, <4>1, <4>4, StepOnWay DEF At
        <5>3. run' = [run EXCEPT ![r].fresh = FALSE, ![r].pc = "check"]
          BY <2>1, <4>1, <5>1, <5>2 DEF Begin
        <5>4. run'[r].pc = "check" /\ ~run'[r].fresh
          BY <1>a, <4>1, <5>3 DEF RunType, Run
        <5> QED BY <5>4 DEF Early
      <4>5. CASE run[r].pc = "check"
        <5>1. Check(r) BY <3>3, <4>1, <4>5, StepOnWay DEF At
        <5>2. Goto(r, "release") BY <1>2, <4>1, <5>1 DEF Check, WhenFinished
        <5>3. Moved(r, "check", {"release"})
          BY <1>a, <5>1, <5>2, GotoMoves DEF Check, Leaving
        <5> QED BY <2>4, <5>3 DEF Moved, Holds, InHand
      <4>6. CASE run[r].pc \in Leaving \ {"unlist"}
        <5>1. to \subseteq Leaving BY <4>2, <4>6, OnwardFacts
        <5> HIDE DEF to
        <5> QED BY <2>4, <4>2, <5>1 DEF Moved, Holds, InHand, Leaving
      <4>7. CASE run[r].pc = "unlist"
        <5>1. Release(r) BY <3>3, <4>1, <4>7, StepOnWay DEF At
        <5>2. Goto(r, "finally")
          BY <4>1, <4>7, <5>1 DEF Release, GetWorker, SetWorker, At
        <5>3. Moved(r, "unlist", {"finally"})
          BY <1>a, <4>1, <4>7, <5>2, GotoMoves DEF At, Leaving
        <5> QED BY <2>4, <5>3 DEF Moved, Holds, InHand
      <4>8. run[r].pc \in Early \/ run[r].pc \in Leaving
        BY <2>1, <4>1, <4>2 DEF Holds
      <4> QED BY <4>3, <4>4, <4>5, <4>6, <4>7, <4>8 DEF Early
    <3>4. ~Crash(r) BY <1>a, <2>4 DEF Crash, Holds, RunType
    <3> QED BY <1>a, <3>1, <3>2, <3>3, <3>4, OwnSteps
  <2> QED BY <2>2, <2>3, <2>4
<1> QED BY <1>1, <1>2

\* A completed task stays completed (updateTaskStatus, retryTask, cancelTask,
\* recoverStaleTasks), unless something else was about when it completed, or a
\* disconnect, a refused cost or the signal of a refused cancellation took it up
\* afterwards.
THEOREM CompletionIsFinal == Spec => CompletedStays
<1>1. TypeInv /\ DoneInv /\ [Next]_vars =>
        [\A t \in Tasks \ contested' :
           status[t] = "completed" => status'[t] = "completed"]_vars
  BY StaysCompleted
<1> QED BY TypeInit, TypeNext, DoneInit, DoneNext, <1>1, PTL DEF Spec, CompletedStays

-----------------------------------------------------------------------------
(* Slots.  A worker with one loop has one run, so what the run has read of *)
(* the worker's record is still there when it writes.                      *)

KeptSlots == {"crash", "expire", "cancel", "cost", "disconnect"}
Uncounted == {"assign", "assignSet", "unlist", "finally", "leave", "leaveSet"}
Writing == {"assignSet", "busySet", "releaseSet", "leaveSet"}

OneEach ==
  Loops = 1 /\ dispatcher = "loop" =>
    \A r, s \in Runs :
      run[r] # None /\ run[s] # None /\ run[r].worker = run[s].worker => r = s

\* One for a worker whose run is counted, none otherwise, and the same in what
\* a run is about to write; and no run drops its task.
Balanced ==
  /\ \A r \in Runs : run[r] # None =>
       /\ worker[run[r].worker].load = IF run[r].pc \in Uncounted THEN 0 ELSE 1
       /\ run[r].pc \in {"assignSet", "busySet"} => run[r].edited.load = 1
       /\ run[r].pc \in {"releaseSet", "leaveSet"} => run[r].edited.load = 0
       /\ run[r].pc # "drop"
  /\ \A w \in Workers :
       (\A r \in Runs : run[r] = None \/ run[r].worker # w) => worker[w].load = 0

SlotInv ==
  Loops = 1 /\ dispatcher = "loop" /\ faults \cap KeptSlots = {} => Balanced

LEMMA SlotInit == Init => OneEach /\ SlotInv
BY DEF Init, OneEach, SlotInv, Balanced

LEMMA RoomForOne ==
  ASSUME Loops = 1, dispatcher = "loop", NEW w, HasRoom(w)
  PROVE  \A s \in Runs : run[s] = None \/ run[s].worker # w
<1> DEFINE busy == {s \in Runs : run[s] # None /\ run[s].worker = w}
<1>1. IsFiniteSet(busy) BY RunsAssumption, FS_Subset
<1>2. Cardinality(busy) \in Nat /\ Cardinality(busy) < 1
  BY <1>1, FS_CardinalityType DEF HasRoom, FreeLoop
<1>3. busy = {} BY <1>1, <1>2, FS_EmptySet
<1> QED BY <1>3

LEMMA OneEachNext == TypeInv /\ OneEach /\ [Next]_vars => OneEach'
<1> SUFFICES ASSUME TypeInv, OneEach, [Next]_vars, Loops = 1, dispatcher = "loop"
             PROVE  \A r, s \in Runs :
                      run'[r] # None /\ run'[s] # None /\ run'[r].worker = run'[s].worker
                      => r = s
  BY Frames DEF OneEach
<1>a. /\ RunType /\ StoreType
      /\ \A r, s \in Runs :
           run[r] # None /\ run[s] # None /\ run[r].worker = run[s].worker => r = s
  BY LimitAssumption DEF TypeInv, TypeOK, RunType, StoreType, OneEach
<1> DEFINE Keep == \A s \in Runs :
                     run'[s] # None => run[s] # None /\ run'[s].worker = run[s].worker
           Goal == \A r, s \in Runs :
                     run'[r] # None /\ run'[s] # None /\ run'[r].worker = run'[s].worker
                     => r = s
<1>1. ASSUME NEW q \in Runs, NEW t \in Tasks, NEW w \in Workers, Claim(q, t, w)
      PROVE  Goal
  <2>1. \A s \in Runs : run[s] = None \/ run[s].worker # w
    BY <1>1, RoomForOne DEF Claim
  <2>2. run'[q].worker = w /\ \A s \in Runs \ {q} : run'[s] = run[s]
    BY <1>a, <1>1 DEF Claim, NewRun, RunType
  <2> QED BY <1>a, <2>1, <2>2
<1>2. ASSUME NEW r \in Runs, Retry(r) PROVE Keep BY <1>a, <1>2, RetryMoves
<1>3. ASSUME NEW r \in Runs, NEW from, NEW to, Moved(r, from, to) PROVE Keep
  BY <1>3 DEF Moved
<1>4. ASSUME NEW r \in Runs, Over(r) PROVE Keep BY <1>4 DEF Over
<1>5. CASE UNCHANGED run BY <1>a, <1>5
<1>6. Keep => Goal BY <1>a
<1> HIDE DEF Keep
<1> QED BY <1>a, <1>1, <1>2, <1>3, <1>4, <1>5, <1>6, RunCases

LEMMA SlotNext ==
  TypeInv /\ QuietInv /\ OneEach /\ OneEach' /\ SlotInv /\ [Next]_vars => SlotInv'
<1> SUFFICES ASSUME TypeInv, QuietInv, OneEach, OneEach', SlotInv, [Next]_vars,
                    Loops = 1, dispatcher = "loop", faults' \cap KeptSlots = {}
             PROVE  Balanced'
  BY Frames DEF SlotInv
<1> USE DEF store, pool, errands, history
<1>a. /\ RunType /\ StoreType /\ worker \in [Workers -> Record]
  BY LimitAssumption DEF TypeInv, TypeOK, RunType, StoreType
<1>b. Balanced /\ cancelled = {} /\ down = None
  BY Frames DEF SlotInv, QuietInv, KeptSlots
<1>c. /\ \A r, s \in Runs :
           run[r] # None /\ run[s] # None /\ run[r].worker = run[s].worker => r = s
      /\ \A r \in Runs : run[r] # None => run[r].worker \in Workers
  BY <1>a, Frames DEF OneEach, RunType, Run
\* Steps that leave the records alone.
<1>1. ASSUME NEW r \in Runs, NEW from, NEW to, Moved(r, from, to), UNCHANGED worker,
             to \cap (Writing \cup {"drop"}) = {},
             (from \in Uncounted /\ to \subseteq Uncounted)
               \/ (from \notin Uncounted /\ to \cap Uncounted = {})
      PROVE  Balanced'
  BY <1>b, <1>1 DEF Moved, Balanced, Writing
\* Steps that read one ...
<1>2. ASSUME NEW r \in Runs, NEW from, NEW to \in Writing, NEW record \in Record,
             GetWorker(r, from, record, to),
             record.load = IF to \in {"assignSet", "busySet"} THEN 1 ELSE 0,
             from \in Uncounted <=> to \in Uncounted
      PROVE  Balanced'
  <2>1. to \in InHand \cup Leaving BY DEF Writing, InHand, Leaving
  <2>2. Moved(r, from, {to}) /\ run'[r].edited = record
    BY <1>a, <1>2, <2>1, GetWorkerMoves
  <2>3. UNCHANGED worker BY <1>2 DEF GetWorker
  <2> QED BY <1>b, <1>2, <2>2, <2>3 DEF Moved, Balanced, Writing
\* ... and that write one.
<1>w. ASSUME NEW r \in Runs, run[r] # None, PutWorker(r)
      PROVE  /\ run[r].worker \in Workers
             /\ worker'[run[r].worker] = run[r].edited
             /\ \A v \in Workers \ {run[r].worker} : worker'[v] = worker[v]
             /\ \A s \in Runs \ {r} :
                  run[s] # None => run[s].worker \in Workers \ {run[r].worker}
  BY <1>a, <1>c, <1>w DEF PutWorker
<1>3. ASSUME NEW r \in Runs, NEW from \in Writing, NEW to \in InHand \cup Leaving,
             SetWorker(r, from, to), to \notin Writing \cup {"drop"},
             to \in Uncounted <=> from \in {"releaseSet", "leaveSet"}
      PROVE  Balanced'
  <2>1. Moved(r, from, {to}) BY <1>a, <1>3, SetWorkerMoves
  <2>2. run[r].edited.load = IF to \in Uncounted THEN 0 ELSE 1
    BY <1>b, <1>3, <2>1 DEF Moved, Balanced, Writing
  <2>3. run[r] # None /\ PutWorker(r) BY <1>3, <2>1 DEF SetWorker, Moved
  <2>4. ASSUME NEW s \in Runs \ {r}, run'[s] # None
        PROVE  run'[s] = run[s] /\ worker'[run'[s].worker] = worker[run[s].worker]
    BY <1>w, <2>1, <2>3, <2>4 DEF Moved
  <2>5. worker'[run'[r].worker].load = IF to \in Uncounted THEN 0 ELSE 1
    BY <1>w, <2>1, <2>2, <2>3 DEF Moved
  <2>6. ASSUME NEW w \in Workers, \A s \in Runs : run'[s] = None \/ run'[s].worker # w
        PROVE  worker'[w].load = 0
    <3>1. w # run[r].worker BY <2>1, <2>6 DEF Moved
    <3>2. \A s \in Runs : run[s] = None \/ run[s].worker # w
      BY <2>1, <2>6 DEF Moved
    <3> QED BY <1>b, <1>w, <2>3, <3>1, <3>2 DEF Balanced
  <2> QED BY <1>b, <1>3, <2>1, <2>4, <2>5, <2>6 DEF Moved, Balanced, Writing
<1>4. ASSUME NEW r \in Runs, NEW t \in Tasks, NEW w \in Workers, Claim(r, t, w)
      PROVE  Balanced'
  <2>1. \A s \in Runs : run[s] = None \/ run[s].worker # w
    BY <1>4, RoomForOne DEF Claim
  <2>2. /\ run'[r].worker = w /\ run'[r].pc = "assign"
        /\ \A s \in Runs \ {r} : run'[s] = run[s]
        /\ run[r] = None /\ UNCHANGED worker
    BY <1>a, <1>4 DEF Claim, NewRun, RunType
  <2>3. run'[r] # None
    <3>1. NewRun(t, w) \in Run BY DEF NewRun, Run, InHand, Blank, Record
    <3> QED BY <1>a, <1>4, <3>1, NoneAssumption DEF Claim, RunType
  <2> QED BY <1>b, <2>1, <2>2, <2>3 DEF Balanced, Uncounted
<1>e. ASSUME NEW r \in Runs, run[r] # None
      PROVE  /\ RecordOf(r).load = IF run[r].pc \in Uncounted THEN 0 ELSE 1
             /\ RecordOf(r) \in Record
             /\ [RecordOf(r) EXCEPT !.load = @ + 1] \in Record
             /\ [RecordOf(r) EXCEPT !.load = Less(@)] \in Record
             /\ [RecordOf(r) EXCEPT !.online = FALSE] \in Record
             /\ [RecordOf(r) EXCEPT !.load = @ + 1].load = RecordOf(r).load + 1
             /\ [RecordOf(r) EXCEPT !.load = Less(@)].load = Less(RecordOf(r).load)
             /\ [RecordOf(r) EXCEPT !.online = FALSE].load = RecordOf(r).load
  <2>1. /\ RecordOf(r) \in Record
        /\ [RecordOf(r) EXCEPT !.load = @ + 1] \in Record
        /\ [RecordOf(r) EXCEPT !.load = Less(@)] \in Record
        /\ [RecordOf(r) EXCEPT !.online = FALSE] \in Record
    BY <1>a, <1>e, EditsAreRecords
  <2>2. RecordOf(r).load = IF run[r].pc \in Uncounted THEN 0 ELSE 1
    BY <1>b, <1>e DEF Balanced, RecordOf
  <2> DEFINE old == RecordOf(r)
  <2>3. old \in Record BY <2>1
  <2> HIDE DEF old
  <2>4. /\ [old EXCEPT !.load = @ + 1].load = old.load + 1
        /\ [old EXCEPT !.load = Less(@)].load = Less(old.load)
        /\ [old EXCEPT !.online = FALSE].load = old.load
    BY <2>3 DEF Record
  <2> QED BY <2>1, <2>2, <2>4 DEF old
<1>5. ASSUME NEW r \in Runs, Step(r) PROVE Balanced'
  <2> USE DEF Uncounted, Writing
  <2>1. CASE Assign(r)
    <3>1. CASE GetWorker(r, "assign", [RecordOf(r) EXCEPT !.load = @ + 1], "assignSet")
      <4> DEFINE record == [RecordOf(r) EXCEPT !.load = @ + 1]
      <4>1. run[r].pc = "assign" /\ run[r] # None BY <3>1 DEF GetWorker, At
      <4>2. RecordOf(r).load = 0 BY <1>e, <4>1
      <4>3. record \in Record /\ record.load = 0 + 1 BY <1>e, <4>1, <4>2
      <4> HIDE DEF record
      <4>4. GetWorker(r, "assign", record, "assignSet") BY <3>1 DEF record
      <4> QED BY <1>2, <4>3, <4>4
    <3>2. CASE SetWorker(r, "assignSet", "assignPush")
      BY <1>3, <3>2 DEF InHand
    <3>3. CASE At(r, "assignPush") /\ UNCHANGED worker
      <4>1. Moved(r, "assignPush", {"begin"})
        BY <1>a, <2>1, <3>3, StepMoves DEF Moved, At
      <4> QED BY <1>1, <3>3, <4>1
    <3> QED BY <2>1, <3>1, <3>2, <3>3 DEF Assign
  <2>2. CASE Busy(r)
    <3>1. CASE GetWorker(r, "busy", [RecordOf(r) EXCEPT !.online = FALSE], "busySet")
      <4> DEFINE record == [RecordOf(r) EXCEPT !.online = FALSE]
      <4>1. record \in Record /\ record.load = 1 BY <1>e, <3>1 DEF GetWorker, At
      <4> HIDE DEF record
      <4> QED BY <1>2, <3>1, <4>1 DEF record
    <3>2. CASE SetWorker(r, "busySet", "handler") BY <1>3, <3>2 DEF InHand
    <3> QED BY <2>2, <3>1, <3>2 DEF Busy
  <2>3. CASE Release(r)
    <3>1. CASE GetWorker(r, "release", [RecordOf(r) EXCEPT !.load = Less(@)], "releaseSet")
      <4> DEFINE record == [RecordOf(r) EXCEPT !.load = Less(@)]
      <4>1. record \in Record /\ record.load = Less(1)
        BY <1>e, <3>1 DEF GetWorker, At
      <4>2. Less(1) = 0 BY DEF Less
      <4> HIDE DEF record
      <4> QED BY <1>2, <3>1, <4>1, <4>2 DEF record
    <3>2. CASE SetWorker(r, "releaseSet", "unlist") BY <1>3, <3>2 DEF Leaving
    <3>3. CASE At(r, "unlist") /\ Goto(r, "finally") /\ UNCHANGED worker
      <4>1. Moved(r, "unlist", {"finally"}) BY <1>a, <3>3, GotoMoves DEF Leaving
      <4> QED BY <1>1, <3>3, <4>1
    <3> QED BY <2>3, <3>1, <3>2, <3>3 DEF Release, Fault, KeptSlots
  <2>4. CASE Leave(r)
    <3>1. CASE GetWorker(r, "leave", [RecordOf(r) EXCEPT !.online = FALSE], "leaveSet")
      <4> DEFINE record == [RecordOf(r) EXCEPT !.online = FALSE]
      <4>1. record \in Record /\ record.load = 0 BY <1>e, <3>1 DEF GetWorker, At
      <4> HIDE DEF record
      <4>2. GetWorker(r, "leave", record, "leaveSet") BY <3>1 DEF record
      <4> QED BY <1>2, <4>1, <4>2
    <3>2. CASE At(r, "leaveSet") /\ PutWorker(r) /\ run' = [run EXCEPT ![r] = None]
      <4>1. run[r].edited.load = 0 BY <1>b, <3>2 DEF At, Balanced
      <4>2. run'[r] = None /\ \A s \in Runs \ {r} : run'[s] = run[s]
        BY <1>a, <3>2 DEF RunType
      <4>3. ASSUME NEW s \in Runs \ {r}, run'[s] # None
            PROVE  run'[s] = run[s] /\ worker'[run'[s].worker] = worker[run[s].worker]
        BY <1>w, <3>2, <4>2, <4>3 DEF At
      <4>4. ASSUME NEW w \in Workers, \A s \in Runs : run'[s] = None \/ run'[s].worker # w
            PROVE  worker'[w].load = 0
        <5>1. CASE w = run[r].worker BY <1>w, <3>2, <4>1, <5>1 DEF At
        <5>2. CASE w # run[r].worker
          <6>1. \A s \in Runs : run[s] = None \/ run[s].worker # w
            BY <4>2, <4>4, <5>2
          <6> QED BY <1>b, <1>w, <3>2, <5>2, <6>1 DEF Balanced, At
        <5> QED BY <5>1, <5>2
      <4> QED BY <1>b, <4>2, <4>3, <4>4 DEF Balanced
    <3> QED BY <2>4, <3>1, <3>2 DEF Leave
  <2>5. CASE Begin(r)
    <3>1. At(r, "begin") /\ UNCHANGED worker BY <2>5 DEF Begin
    <3>2. run' = [run EXCEPT ![r].fresh = FALSE, ![r].pc = "check"]
      BY <1>b, <2>5 DEF Begin, Fault, KeptSlots
    <3>3. Moved(r, "begin", {"drop", "check"}) BY <1>a, <2>5, StepMoves
    <3>4. run'[r].pc = "check"
      BY <1>a, <3>1, <3>2 DEF RunType, Run, At
    <3>5. Moved(r, "begin", {"check"}) BY <3>3, <3>4 DEF Moved
    <3> QED BY <1>1, <3>1, <3>5
  <2>6. ~Drop(r) BY <1>b DEF Drop, At, Balanced
  <2>7. CASE Retry(r)
    <3>1. UNCHANGED worker BY <2>7 DEF Retry
    <3>2. /\ \A s \in Runs \ {r} : run'[s] = run[s]
          /\ run[r] # None /\ run[r].pc = "retry"
          /\ run'[r].pc \in {"retry", "release", "bury", "rewrite"}
          /\ run'[r].worker = run[r].worker /\ run'[r] # None
      BY <1>a, <2>7, RetryMoves
    <3> QED BY <1>b, <3>1, <3>2 DEF Balanced
  <2>8. CASE Finally(r)
    <3>1. UNCHANGED worker /\ Moved(r, "finally", {"leave"})
      BY <1>a, <2>8, StepMoves DEF Finally
    <3> QED BY <1>1, <3>1
  <2>9. CASE Check(r) \/ Handled(r) \/ TimesOut(r) \/ Latest(r) \/ Rewrite(r) \/ Bury(r)
    <3>1. UNCHANGED worker
      BY <2>9 DEF Check, Handled, TimesOut, Latest, Rewrite, Bury
    <3> QED BY <1>a, <1>1, <2>9, <3>1, StepMoves
  <2>10. CASE Requeue(r) \/ Push(r) \/ Delete(r)
    <3>1. UNCHANGED worker BY <2>10 DEF Requeue, Push, Delete
    <3> QED BY <1>a, <1>1, <2>10, <3>1, StepMoves
  <2>11. CASE Start(r) \/ Abort(r) \/ Complete(r) \/ Fail(r)
    <3>1. UNCHANGED worker BY <2>11 DEF Start, Abort, Complete, Fail, SetStatus
    <3> QED BY <1>a, <1>1, <2>11, <3>1, StepMoves
  <2> QED
    BY <1>5, <2>1, <2>2, <2>3, <2>4, <2>5, <2>6, <2>7, <2>8, <2>9, <2>10, <2>11 DEF Step
<1>6. ASSUME NEW r \in Runs PROVE ~Crash(r) BY DEF Crash, Fault, KeptSlots
<1>7. ASSUME NEW t \in Tasks, World(t) PROVE Balanced'
  <2>1. UNCHANGED worker
    BY <1>7 DEF World, GoesOn, HandlerEnds, CancelTask, Recover, RequeueTask, Store, Enqueue,
                Unqueue, Signal, ErrandDies
  <2> QED BY <1>b, <1>7, <2>1, WorldLeavesRuns DEF Balanced
<1>8. ~Disconnects
  BY <1>b
  DEF Disconnects, Disconnect, Unlist, GoOffline, DisconnectDies, Fault, KeptSlots
<1>9. CASE UNCHANGED vars BY <1>b, <1>9 DEF Balanced, vars
<1> QED BY <1>4, <1>5, <1>6, <1>7, <1>8, <1>9, NextCases

LEMMA SlotSuffices == TypeInv /\ OneEach /\ SlotInv => SlotsBalanced
<1> SUFFICES ASSUME TypeInv, OneEach, SlotInv, Loops = 1, dispatcher = "loop",
                    faults \cap KeptSlots = {}, NEW w \in Workers
             PROVE  worker[w].load = Cardinality(Counted(w))
  BY DEF SlotsBalanced, KeptSlots
<1>1. Balanced BY DEF SlotInv
<1>2. CASE Counted(w) = {}
  <2>1. \A r \in Runs : run[r] # None /\ run[r].worker = w => run[r].pc \in Uncounted
    BY <1>2 DEF Counted, Uncounted
  <2>2. worker[w].load = 0 BY <1>1, <2>1 DEF Balanced
  <2> QED BY <1>2, <2>2, FS_EmptySet
<1>3. ASSUME NEW r \in Counted(w) PROVE worker[w].load = Cardinality(Counted(w))
  <2>1. worker[w].load = 1 BY <1>1, <1>3 DEF Balanced, Counted, Uncounted
  <2>2. Counted(w) = {r} BY <1>3 DEF OneEach, Counted
  <2> QED BY <2>1, <2>2, FS_Singleton
<1> QED BY <1>2, <1>3

\* completeTask gives every slot back once: a worker with one loop has as many
\* runs in hand as its currentTasks says (assignTask), however they end, but for
\* deaths, dropped tasks, refused costs and disconnects.
THEOREM SlotsAreGivenBack == Spec => []SlotsBalanced
BY TypeInit, TypeNext, QuietInit, QuietNext, SlotInit, OneEachNext, SlotNext, SlotSuffices,
   PTL
DEF Spec
=============================================================================

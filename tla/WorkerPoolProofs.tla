--------------------------- MODULE WorkerPoolProofs ---------------------------
(***************************************************************************)
(* For every number of workers, tasks and overlapping calls: a worker's    *)
(* load is what is on its list as long as no write was lost, and a task    *)
(* that reached a list is found again whatever dies (WorkerPool).          *)
(***************************************************************************)
EXTENDS WorkerPool, FiniteSetTheorems, TLAPS

-----------------------------------------------------------------------------
(* Types, and where a step takes its call.                                 *)

Steps == JobSteps \cup KeepSteps

\* Where a call has a copy of the worker's record.
Copied == {"load", "setBusy", "unload", "settle", "setSettled", "setBeat", "delete",
           "setDown"}

Good(k) ==
  /\ k.step \in JobSteps => k.task \in Tasks
  /\ k.step \in Copied => k.copy \in Record

CallsGood == \A c \in Calls : call[c] # None => Good(call[c])

TypeInv == TypeOK /\ CallsGood

\* Call c begins at a step, goes from one to another, or ends there; the others
\* stay where they are.
Alone(c) == /\ call \in [Calls -> CallRecord \cup {None}]
            /\ call' \in [Calls -> CallRecord \cup {None}]
            /\ \A d \in Calls \ {c} : call'[d] = call[d]

Begun(c, step) == Alone(c) /\ call[c] = None /\ At(c, step)'

Moved(c, from, to) ==
  /\ Alone(c) /\ At(c, from) /\ call'[c] # None /\ call'[c].step \in to
  /\ call'[c].worker = call[c].worker /\ call'[c].task = call[c].task

Ended(c, from) == Alone(c) /\ At(c, from) /\ call'[c] = None

LEMMA GotoMoves ==
  ASSUME TypeInv, NEW c \in Calls, NEW from, At(c, from), NEW to \in Steps,
         to \in JobSteps => from \in JobSteps, to \notin Copied, Goto(c, to)
  PROVE  Moved(c, from, {to}) /\ CallsGood' /\ call'[c].seen = call[c].seen
<1>1. call[c] \in CallRecord /\ Good(call[c])
  BY DEF TypeInv, TypeOK, CallsGood, At
<1> DEFINE k == [call[c] EXCEPT !.step = to]
<1>2. /\ k \in CallRecord /\ k.step = to /\ k.worker = call[c].worker
      /\ k.task = call[c].task /\ k.seen = call[c].seen
  BY <1>1 DEF CallRecord, Steps
<1>3. Good(k) BY <1>1, <1>2 DEF Good, At
<1>4. call' = [call EXCEPT ![c] = k] BY DEF Goto
<1> HIDE DEF k
<1>5. /\ call' \in [Calls -> CallRecord \cup {None}] /\ call'[c] = k /\ k # None
      /\ \A d \in Calls \ {c} : call'[d] = call[d]
  BY <1>2, <1>4, NoneAssumption DEF TypeInv, TypeOK
<1> QED BY <1>2, <1>3, <1>5 DEF Moved, Alone, CallsGood, TypeInv, TypeOK

LEMMA EndEnds ==
  ASSUME TypeInv, NEW c \in Calls, NEW from, At(c, from), End(c)
  PROVE  Ended(c, from) /\ CallsGood'
<1>1. call' = [call EXCEPT ![c] = None] BY DEF End
<1> QED BY <1>1 DEF Ended, Alone, CallsGood, TypeInv, TypeOK, At

LEMMA GetMoves ==
  ASSUME TypeInv, NEW c \in Calls, NEW from, At(c, from), NEW to \in Steps,
         to \in JobSteps => from \in JobSteps, Get(c, to)
  PROVE  /\ \/ Moved(c, from, {to}) /\ worker[call[c].worker] # None
            \/ Ended(c, from) /\ worker[call[c].worker] = None
         /\ CallsGood'
<1>1. call[c] \in CallRecord /\ Good(call[c])
  BY DEF TypeInv, TypeOK, CallsGood, At
<1> DEFINE copy == worker[call[c].worker]
           k == [call[c] EXCEPT !.step = to, !.copy = copy]
<1>2. copy \in Record \cup {None} BY <1>1 DEF TypeInv, TypeOK, CallRecord
<1>3. CASE copy = None
  <2>1. End(c) BY <1>3 DEF Get
  <2> QED BY <1>3, <2>1, EndEnds
<1>4. CASE copy # None
  <2>1. /\ k \in CallRecord /\ k.step = to /\ k.worker = call[c].worker
        /\ k.task = call[c].task /\ k.copy \in Record
    BY <1>1, <1>2, <1>4 DEF CallRecord, Steps
  <2>2. Good(k) BY <1>1, <2>1 DEF Good, At
  <2>3. call' = [call EXCEPT ![c] = k] BY <1>4 DEF Get
  <2> HIDE DEF k
  <2>4. /\ call' \in [Calls -> CallRecord \cup {None}] /\ call'[c] = k /\ k # None
        /\ \A d \in Calls \ {c} : call'[d] = call[d]
    BY <2>1, <2>3, NoneAssumption DEF TypeInv, TypeOK
  <2>5. Moved(c, from, {to}) BY <2>1, <2>4 DEF Moved, Alone, TypeInv, TypeOK
  <2>6. CallsGood' BY <2>2, <2>4 DEF CallsGood, TypeInv
  <2> QED BY <1>4, <2>5, <2>6
<1> QED BY <1>3, <1>4

LEMMA BeginBegins ==
  ASSUME TypeInv, NEW c \in Calls, NEW step \in Steps, step \notin Copied,
         NEW w \in Workers, NEW t \in Tasks \cup {None}, step \in JobSteps => t \in Tasks,
         Begin(c, step, w, t)
  PROVE  Begun(c, step) /\ CallsGood' /\ call'[c].seen = {} /\ used' \in [calls: Nat, cuts: Nat]
<1> DEFINE k == [step |-> step, worker |-> w, task |-> t, copy |-> None, seen |-> {}]
<1>1. k \in CallRecord /\ Good(k) /\ k.step = step /\ k.seen = {}
  BY DEF CallRecord, Good, Steps
<1>2. call' = [call EXCEPT ![c] = k] BY DEF Begin
<1> HIDE DEF k
<1>3. /\ call' \in [Calls -> CallRecord \cup {None}] /\ call'[c] = k /\ k # None
      /\ \A d \in Calls \ {c} : call'[d] = call[d]
  BY <1>1, <1>2, NoneAssumption DEF TypeInv, TypeOK
<1>4. used' \in [calls: Nat, cuts: Nat] BY DEF Begin, TypeInv, TypeOK
<1>5. call[c] = None BY DEF Begin
<1> QED BY <1>1, <1>3, <1>4, <1>5 DEF Begun, Alone, At, CallsGood, TypeInv, TypeOK

\* Where a job goes.
LEMMA JobMoves ==
  ASSUME TypeInv, NEW c \in Calls, Job(c)
  PROVE  /\ \/ AssignRead(c) /\ (Moved(c, "assign", {"load"}) \/ Ended(c, "assign"))
            \/ AssignWrite(c) /\ Moved(c, "load", {"push"})
            \/ AssignPush(c) /\ Moved(c, "push", {"start"})
            \/ Start(c) /\ (Moved(c, "start", {"done"}) \/ Moved(c, "start", {"busy"}))
            \/ BusyRead(c) /\ (\/ Moved(c, "busy", {"doneAgain"})
                               \/ Moved(c, "busy", {"setBusy"}))
            \/ BusyWrite(c) /\ Moved(c, "setBusy", {"work"})
            \/ Work(c) /\ Moved(c, "work", {"done"})
            \/ DoneRead(c) /\ (\/ Moved(c, "done", {"doneAgain", "unload"})
                               \/ Moved(c, "doneAgain", {"look", "unload"}))
            \/ DoneWrite(c) /\ Moved(c, "unload", {"remove"})
            \/ DoneRemove(c) /\ Moved(c, "remove", {"look"})
            \/ Look(c) /\ (\/ Moved(c, "look", {"settle"}) \/ Ended(c, "look")
                           \/ Moved(c, "settle", {"setSettled"}) \/ Ended(c, "settle"))
            \/ Settle(c) /\ Ended(c, "setSettled")
         /\ CallsGood'
<1> USE DEF Steps, JobSteps, Copied
<1>1. CASE AssignRead(c)
  BY <1>1, GetMoves, EndEnds DEF AssignRead
<1>2. CASE AssignWrite(c) BY <1>2, GotoMoves DEF AssignWrite
<1>3. CASE AssignPush(c) BY <1>3, GotoMoves DEF AssignPush
<1>4. CASE Start(c) BY <1>4, GotoMoves DEF Start
<1>5. CASE BusyRead(c)
  <2>1. CASE worker[call[c].worker] = None BY <1>5, <2>1, GotoMoves DEF BusyRead
  <2>2. CASE worker[call[c].worker] # None BY <1>5, <2>2, GetMoves DEF BusyRead
  <2> QED BY <2>1, <2>2
<1>6. CASE BusyWrite(c) BY <1>6, GotoMoves DEF BusyWrite
<1>7. CASE Work(c) BY <1>7, GotoMoves DEF Work
<1>8. CASE DoneRead(c)
  <2>1. CASE Goto(c, "doneAgain") /\ At(c, "done")
    <3>1. Moved(c, "done", {"doneAgain"}) /\ CallsGood' BY <2>1, GotoMoves
    <3> QED BY <1>8, <3>1 DEF Moved
  <2>2. CASE Goto(c, "look") /\ At(c, "doneAgain")
    <3>1. Moved(c, "doneAgain", {"look"}) /\ CallsGood' BY <2>2, GotoMoves
    <3> QED BY <1>8, <3>1 DEF Moved
  <2>3. CASE worker[call[c].worker] # None /\ Get(c, "unload")
    <3>1. PICK from \in {"done", "doneAgain"} : At(c, from) BY <1>8 DEF DoneRead
    <3>2. Moved(c, from, {"unload"}) /\ CallsGood' BY <2>3, <3>1, GetMoves
    <3> QED BY <1>8, <3>1, <3>2 DEF Moved
  <2> QED BY <1>8, <2>1, <2>2, <2>3 DEF DoneRead
<1>9. CASE DoneWrite(c) BY <1>9, GotoMoves DEF DoneWrite
<1>10. CASE DoneRemove(c) BY <1>10, GotoMoves DEF DoneRemove
<1>11. CASE Look(c) BY <1>11, GetMoves DEF Look
<1>12. CASE Settle(c) BY <1>12, EndEnds DEF Settle
<1> QED
  BY <1>1, <1>2, <1>3, <1>4, <1>5, <1>6, <1>7, <1>8, <1>9, <1>10, <1>11, <1>12 DEF Job

\* Where a heartbeat, an unregistration and a check go.
LEMMA KeepMoves ==
  ASSUME TypeInv, NEW c \in Calls, Keep(c)
  PROVE  /\ \/ BeatRead(c) /\ (Moved(c, "beat", {"setBeat"}) \/ Ended(c, "beat"))
            \/ BeatWrite(c) /\ Ended(c, "setBeat")
            \/ Unregister(c) /\ (Moved(c, "leave", {"delete"}) \/ Ended(c, "leave"))
            \/ Delete(c) /\ Moved(c, "delete", {"unindex"})
            \/ Unindex(c) /\ Ended(c, "unindex")
            \/ CheckRead(c) /\ (Moved(c, "check", {"list"}) \/ Ended(c, "check"))
            \/ Disconnect(c) /\ Moved(c, "list", {"requeue"})
            \/ Requeue(c) /\ Moved(c, "requeue", {"requeue"})
            \/ Del(c) /\ Moved(c, "requeue", {"down"})
            \/ DownRead(c) /\ (\/ Moved(c, "down", {"setDown"})
                               \/ Ended(c, "down") /\ worker[call[c].worker] = None)
            \/ DownWrite(c) /\ Ended(c, "setDown")
         /\ CallsGood'
<1>0. /\ KeepSteps \subseteq Steps /\ KeepSteps \cap JobSteps = {}
      /\ {"unindex", "list", "requeue", "down"} \subseteq KeepSteps \ Copied
      /\ {"setBeat", "delete", "setDown"} \subseteq KeepSteps
  BY DEF Steps, JobSteps, KeepSteps, Copied
<1>1. CASE BeatRead(c) BY <1>0, <1>1, GetMoves DEF BeatRead
<1>2. CASE BeatWrite(c) BY <1>2, EndEnds DEF BeatWrite
<1>3. CASE Unregister(c) BY <1>0, <1>3, GetMoves DEF Unregister
<1>4. CASE Delete(c) BY <1>0, <1>4, GotoMoves DEF Delete
<1>5. CASE Unindex(c) BY <1>5, EndEnds DEF Unindex
<1>6. CASE CheckRead(c)
  <2>1. At(c, "check") /\ (Goto(c, "list") \/ End(c)) BY <1>6 DEF CheckRead
  <2> QED BY <1>0, <1>6, <2>1, GotoMoves, EndEnds
<1>7. ASSUME NEW from, At(c, from), NEW to \in {"list", "requeue"}, from \notin JobSteps,
             NEW S \in SUBSET Tasks,
             call' = [call EXCEPT ![c].step = to, ![c].seen = S]
      PROVE  Moved(c, from, {to}) /\ CallsGood'
  <2>1. call[c] \in CallRecord /\ Good(call[c])
    BY <1>7 DEF TypeInv, TypeOK, CallsGood, At
  <2> DEFINE k == [call[c] EXCEPT !.step = to, !.seen = S]
  <2>2. /\ k \in CallRecord /\ k.step = to /\ k.worker = call[c].worker
        /\ k.task = call[c].task /\ Good(k)
    BY <1>0, <1>7, <2>1 DEF CallRecord, Good, Steps, At
  <2>3. call' = [call EXCEPT ![c] = k] BY <1>7
  <2> HIDE DEF k
  <2>4. /\ call' \in [Calls -> CallRecord \cup {None}] /\ call'[c] = k /\ k # None
        /\ \A d \in Calls \ {c} : call'[d] = call[d]
    BY <2>2, <2>3, NoneAssumption DEF TypeInv, TypeOK
  <2> QED BY <1>7, <2>2, <2>4 DEF Moved, Alone, CallsGood, TypeInv, TypeOK
<1>8. CASE Disconnect(c)
  <2>1. Listed(call[c].worker) \in SUBSET Tasks BY DEF Listed
  <2>2. At(c, "list") /\ "list" \notin JobSteps BY <1>0, <1>8 DEF Disconnect
  <2> QED BY <1>7, <1>8, <2>1, <2>2 DEF Disconnect
<1>9. CASE Requeue(c)
  <2>1. PICK t \in call[c].seen : call' = [call EXCEPT ![c].seen = call[c].seen \ {t}]
    BY <1>9 DEF Requeue
  <2>2. call[c] \in CallRecord /\ call[c].step = "requeue" /\ At(c, "requeue")
    BY <1>9 DEF Requeue, At, TypeInv, TypeOK
  <2>3. call[c].seen \ {t} \in SUBSET Tasks BY <2>2 DEF CallRecord
  <2>4. call' = [call EXCEPT ![c].step = "requeue", ![c].seen = call[c].seen \ {t}]
    BY <2>1, <2>2 DEF TypeInv, TypeOK, CallRecord
  <2>5. "requeue" \notin JobSteps BY <1>0
  <2> QED BY <1>7, <1>9, <2>2, <2>3, <2>4, <2>5
<1>10. CASE Del(c) BY <1>0, <1>10, GotoMoves DEF Del
<1>11. CASE DownRead(c) BY <1>0, <1>11, GetMoves DEF DownRead
<1>12. CASE DownWrite(c) BY <1>12, EndEnds DEF DownWrite
<1> QED
  BY <1>1, <1>2, <1>3, <1>4, <1>5, <1>6, <1>8, <1>9, <1>10, <1>11, <1>12 DEF Keep
-----------------------------------------------------------------------------
(* Type correctness.                                                       *)

LEMMA LessIs ==
  ASSUME NEW n \in Nat
  PROVE  Less(n) = IF n = 0 THEN 0 ELSE n - 1
<1> DEFINE m == IF n = 0 THEN 0 ELSE n - 1
<1>1. m \in {0, n - 1} /\ \A y \in {0, n - 1} : m >= y OBVIOUS
<1>2. \A x \in {0, n - 1} : (\A y \in {0, n - 1} : x >= y) => x = m OBVIOUS
<1> QED BY <1>1, <1>2 DEF Less, Max

\* The call's worker, its task and its copy, by the step it is at.
LEMMA CallHas ==
  ASSUME TypeInv, NEW c \in Calls, NEW step, At(c, step)
  PROVE  /\ call[c] \in CallRecord /\ call[c].step = step /\ call[c].worker \in Workers
         /\ call[c].seen \subseteq Tasks
         /\ step \in JobSteps => call[c].task \in Tasks
         /\ step \in Copied => call[c].copy \in Record
BY DEF At, TypeInv, TypeOK, CallsGood, Good, CallRecord

LEMMA SetKeepsTypes ==
  ASSUME TypeInv, NEW c \in Calls, NEW step, At(c, step), NEW new \in Record, Set(c, new)
  PROVE  /\ worker' \in [Workers -> Record \cup {None}] /\ blurred' \subseteq Workers
         /\ worker' = [worker EXCEPT ![call[c].worker] = new]
         /\ worker'[call[c].worker] = new
         /\ \A w \in Workers \ {call[c].worker} : worker'[w] = worker[w]
         /\ blurred \subseteq blurred'
         /\ call[c].worker \notin blurred' => worker[call[c].worker] = call[c].copy
<1>1. call[c].worker \in Workers BY CallHas
<1> QED BY <1>1 DEF Set, TypeInv, TypeOK

\* The records the calls write.
LEMMA CopyChanged ==
  ASSUME NEW copy \in Record
  PROVE  /\ \A n \in Nat : /\ [copy EXCEPT !.load = n] \in Record
                           /\ [copy EXCEPT !.load = n].load = n
         /\ \A b \in 0 .. MaxTime : /\ [copy EXCEPT !.beat = b] \in Record
                                    /\ [copy EXCEPT !.beat = b].load = copy.load
         /\ copy.load \in Nat /\ [copy EXCEPT !.load = Less(@)] \in Record
         /\ [copy EXCEPT !.load = Less(@)].load = Less(copy.load)
<1>1. copy.load \in Nat /\ Less(copy.load) \in Nat BY LessIs DEF Record
<1> QED BY <1>1 DEF Record

LEMMA RetryTypes ==
  ASSUME TypeInv, NEW t \in Tasks, Retry(t)
  PROVE  /\ queue' \subseteq Tasks
         /\ status' \in [Tasks -> {"queued", "processing", "completed"}]
BY DEF Retry, TypeInv, TypeOK

LEMMA JobTypes ==
  ASSUME TypeInv, NEW c \in Calls, Job(c)
  PROVE  TypeInv'
<1>1. CallsGood' /\ call' \in [Calls -> CallRecord \cup {None}]
  BY JobMoves DEF Moved, Ended, Alone
<1> DEFINE w == call[c].worker
           t == call[c].task
<1>2. /\ now \in 0 .. MaxTime /\ worker \in [Workers -> Record \cup {None}]
      /\ index \subseteq Workers /\ queue \subseteq Tasks
      /\ list \in [Workers -> [Tasks -> Nat]]
      /\ status \in [Tasks -> {"queued", "processing", "completed"}]
      /\ used \in [calls: Nat, cuts: Nat]
      /\ blurred \subseteq Workers /\ assigned \subseteq Tasks /\ muddled \subseteq Tasks
  BY DEF TypeInv, TypeOK
<1>3. /\ {"assign", "load", "push", "start", "busy", "setBusy", "work", "done",
          "doneAgain", "unload", "remove", "look", "settle", "setSettled"} = JobSteps
      /\ {"load", "setBusy", "unload", "setSettled"} \subseteq Copied
  BY DEF JobSteps, Copied
<1>4. CASE AssignRead(c) \/ Look(c)
  BY <1>1, <1>2, <1>4 DEF AssignRead, Look, pool, tasks, history, TypeInv, TypeOK
<1>5. CASE AssignWrite(c)
  <2>1. At(c, "load") /\ call[c].copy \in Record BY <1>3, <1>5, CallHas DEF AssignWrite
  <2>2. call[c].copy.load \in Nat BY <2>1 DEF Record
  <2>3. call[c].copy.load + 1 \in Nat BY <2>2
  <2>4. [call[c].copy EXCEPT !.load = call[c].copy.load + 1] \in Record
    BY <2>1, <2>3, CopyChanged
  <2>5. worker' \in [Workers -> Record \cup {None}] /\ blurred' \subseteq Workers
    BY <1>5, <2>1, <2>4, SetKeepsTypes DEF AssignWrite
  <2> QED BY <1>1, <1>2, <1>5, <2>5 DEF AssignWrite, tasks, TypeInv, TypeOK
<1>6. CASE AssignPush(c)
  <2>1. w \in Workers /\ t \in Tasks BY <1>3, <1>6, CallHas DEF AssignPush
  <2>2. list[w][t] + 1 \in Nat BY <1>2, <2>1
  <2>3. list' = [list EXCEPT ![w] = [list[w] EXCEPT ![t] = list[w][t] + 1]]
    BY <1>6 DEF AssignPush
  <2>4. list' \in [Workers -> [Tasks -> Nat]] BY <1>2, <2>1, <2>2, <2>3
  <2>5. assigned' \subseteq Tasks /\ muddled' \subseteq Tasks
    BY <1>2, <1>6, <2>1 DEF AssignPush
  <2> QED BY <1>1, <1>2, <1>6, <2>4, <2>5 DEF AssignPush, tasks, TypeInv, TypeOK
<1>7. CASE Start(c)
  <2>1. t \in Tasks BY <1>3, <1>7, CallHas DEF Start
  <2>2. status' \in [Tasks -> {"queued", "processing", "completed"}]
    BY <1>2, <1>7, <2>1 DEF Start
  <2> QED BY <1>1, <1>2, <1>7, <2>2 DEF Start, pool, history, TypeInv, TypeOK
<1>8. CASE BusyRead(c)
  <2>1. t \in Tasks BY <1>3, <1>8, CallHas DEF BusyRead
  <2>2. /\ queue' \subseteq Tasks
        /\ status' \in [Tasks -> {"queued", "processing", "completed"}]
    BY <1>2, <1>8, <2>1, RetryTypes DEF BusyRead, tasks
  <2> QED BY <1>1, <1>2, <1>8, <2>2 DEF BusyRead, pool, history, TypeInv, TypeOK
<1>9. CASE BusyWrite(c)
  <2>1. At(c, "setBusy") /\ call[c].copy \in Record
    BY <1>3, <1>9, CallHas DEF BusyWrite
  <2>2. [call[c].copy EXCEPT !.beat = now] \in Record BY <1>2, <2>1, CopyChanged
  <2>3. worker' \in [Workers -> Record \cup {None}] /\ blurred' \subseteq Workers
    BY <1>9, <2>1, <2>2, SetKeepsTypes DEF BusyWrite
  <2> QED BY <1>1, <1>2, <1>9, <2>3 DEF BusyWrite, tasks, TypeInv, TypeOK
<1>10. CASE Work(c)
  <2>1. t \in Tasks BY <1>3, <1>10, CallHas DEF Work
  <2>2. /\ queue' \subseteq Tasks
        /\ status' \in [Tasks -> {"queued", "processing", "completed"}]
    BY <1>2, <1>10, <2>1, RetryTypes DEF Work, tasks
  <2> QED BY <1>1, <1>2, <1>10, <2>2 DEF Work, pool, history, TypeInv, TypeOK
<1>11. CASE DoneRead(c)
  <2>1. t \in Tasks BY <1>3, <1>11, CallHas DEF DoneRead
  <2>2. /\ queue' \subseteq Tasks
        /\ status' \in [Tasks -> {"queued", "processing", "completed"}]
    BY <1>2, <1>11, <2>1, RetryTypes DEF DoneRead, tasks
  <2> QED BY <1>1, <1>2, <1>11, <2>2 DEF DoneRead, pool, history, TypeInv, TypeOK
<1>12. CASE DoneWrite(c)
  <2>1. At(c, "unload") /\ call[c].copy \in Record
    BY <1>3, <1>12, CallHas DEF DoneWrite
  <2>2. [call[c].copy EXCEPT !.load = Less(@)] \in Record BY <2>1, CopyChanged
  <2>3. worker' \in [Workers -> Record \cup {None}] /\ blurred' \subseteq Workers
    BY <1>12, <2>1, <2>2, SetKeepsTypes DEF DoneWrite
  <2> QED BY <1>1, <1>2, <1>12, <2>3 DEF DoneWrite, tasks, TypeInv, TypeOK
<1>13. CASE DoneRemove(c)
  <2>1. w \in Workers /\ t \in Tasks BY <1>3, <1>13, CallHas DEF DoneRemove
  <2>2. Left(list[w][t]) \in Nat BY <1>2, <2>1 DEF Left
  <2>3. list' = [list EXCEPT ![w] = [list[w] EXCEPT ![t] = Left(list[w][t])]]
    BY <1>2, <1>13, <2>1 DEF DoneRemove
  <2>4. list' \in [Workers -> [Tasks -> Nat]] BY <1>2, <2>1, <2>2, <2>3
  <2> QED BY <1>1, <1>2, <1>13, <2>4 DEF DoneRemove, tasks, history, TypeInv, TypeOK
<1>14. CASE Settle(c)
  <2>1. At(c, "setSettled") /\ call[c].copy \in Record
    BY <1>3, <1>14, CallHas DEF Settle
  <2>2. [call[c].copy EXCEPT !.beat = now] \in Record BY <1>2, <2>1, CopyChanged
  <2>3. worker' \in [Workers -> Record \cup {None}] /\ blurred' \subseteq Workers
    BY <1>14, <2>1, <2>2, SetKeepsTypes DEF Settle
  <2> QED BY <1>1, <1>2, <1>14, <2>3 DEF Settle, tasks, TypeInv, TypeOK
<1> QED
  BY <1>4, <1>5, <1>6, <1>7, <1>8, <1>9, <1>10, <1>11, <1>12, <1>13, <1>14 DEF Job

LEMMA KeepTypes ==
  ASSUME TypeInv, NEW c \in Calls, Keep(c)
  PROVE  TypeInv'
<1>1. CallsGood' /\ call' \in [Calls -> CallRecord \cup {None}]
  BY KeepMoves DEF Moved, Ended, Alone
<1> DEFINE w == call[c].worker
<1>2. /\ now \in 0 .. MaxTime /\ worker \in [Workers -> Record \cup {None}]
      /\ index \subseteq Workers /\ queue \subseteq Tasks
      /\ list \in [Workers -> [Tasks -> Nat]]
      /\ status \in [Tasks -> {"queued", "processing", "completed"}]
      /\ used \in [calls: Nat, cuts: Nat]
      /\ blurred \subseteq Workers /\ assigned \subseteq Tasks /\ muddled \subseteq Tasks
  BY DEF TypeInv, TypeOK
<1>3. {"setBeat", "setDown"} \subseteq Copied BY DEF Copied
<1>4. CASE BeatRead(c) \/ Unregister(c) \/ CheckRead(c) \/ Disconnect(c) \/ DownRead(c)
  BY <1>1, <1>2, <1>4 DEF BeatRead, Unregister, CheckRead, Disconnect, DownRead,
       pool, tasks, history, TypeInv, TypeOK
<1>5. CASE BeatWrite(c)
  <2>1. At(c, "setBeat") /\ call[c].copy \in Record
    BY <1>3, <1>5, CallHas DEF BeatWrite
  <2>2. [call[c].copy EXCEPT !.beat = now] \in Record BY <1>2, <2>1, CopyChanged
  <2>3. worker' \in [Workers -> Record \cup {None}] /\ blurred' \subseteq Workers
    BY <1>5, <2>1, <2>2, SetKeepsTypes DEF BeatWrite
  <2> QED BY <1>1, <1>2, <1>5, <2>3 DEF BeatWrite, tasks, TypeInv, TypeOK
<1>6. CASE Delete(c)
  <2>1. worker' \in [Workers -> Record \cup {None}] BY <1>2, <1>6 DEF Delete
  <2> QED BY <1>1, <1>2, <1>6, <2>1 DEF Delete, tasks, history, TypeInv, TypeOK
<1>7. CASE Unindex(c)
  <2>1. index' \subseteq Workers /\ muddled' \subseteq Tasks
    BY <1>2, <1>7 DEF Unindex, Listed
  <2> QED BY <1>1, <1>2, <1>7, <2>1 DEF Unindex, tasks, TypeInv, TypeOK
<1>8. CASE Requeue(c)
  <2>1. PICK t \in call[c].seen : Retry(t) /\ muddled' \subseteq muddled \cup {t}
    BY <1>8 DEF Requeue
  <2>2. t \in Tasks BY <1>8, <2>1, CallHas DEF Requeue
  <2>3. /\ queue' \subseteq Tasks /\ muddled' \subseteq Tasks
        /\ status' \in [Tasks -> {"queued", "processing", "completed"}]
    BY <1>2, <2>1, <2>2, RetryTypes
  <2> QED BY <1>1, <1>2, <1>8, <2>3 DEF Requeue, pool, TypeInv, TypeOK
<1>9. CASE Del(c)
  <2>1. w \in Workers BY <1>9, CallHas DEF Del
  <2>2. list' \in [Workers -> [Tasks -> Nat]] /\ blurred' \subseteq Workers
    BY <1>2, <1>9, <2>1 DEF Del
  <2> QED BY <1>1, <1>2, <1>9, <2>2 DEF Del, tasks, TypeInv, TypeOK
<1>10. CASE DownWrite(c)
  <2>1. At(c, "setDown") /\ call[c].copy \in Record /\ w \in Workers
    BY <1>3, <1>10, CallHas DEF DownWrite
  <2>2. [call[c].copy EXCEPT !.load = 0] \in Record BY <2>1, CopyChanged
  <2>3. worker' = [worker EXCEPT ![w] = [call[c].copy EXCEPT !.load = 0]]
    BY <1>10 DEF DownWrite
  <2>4. worker' \in [Workers -> Record \cup {None}] BY <1>2, <2>2, <2>3
  <2>5. blurred' \subseteq Workers BY <1>2, <1>10, <2>1 DEF DownWrite
  <2> QED BY <1>1, <1>2, <1>10, <2>4, <2>5 DEF DownWrite, tasks, TypeInv, TypeOK
<1> QED BY <1>4, <1>5, <1>6, <1>7, <1>8, <1>9, <1>10 DEF Keep

\* The calls that begin, and the one that is cut.
LEMMA TakeBegins ==
  ASSUME TypeInv, NEW c \in Calls, NEW w \in Workers, NEW t \in Tasks, Take(c, w, t)
  PROVE  /\ Begun(c, "assign") /\ CallsGood' /\ used' \in [calls: Nat, cuts: Nat]
         /\ call'[c].task = t
<1>1. "assign" \in JobSteps /\ "assign" \in Steps /\ "assign" \notin Copied
  BY DEF Steps, JobSteps, Copied
<1>2. call'[c].task = t BY DEF Take, Begin, TypeInv, TypeOK
<1> QED BY <1>1, <1>2, BeginBegins DEF Take

LEMMA AskBegins ==
  ASSUME TypeInv, NEW c \in Calls, NEW step \in {"beat", "leave", "check"},
         NEW w \in Workers, Ask(c, step, w)
  PROVE  Begun(c, step) /\ CallsGood' /\ used' \in [calls: Nat, cuts: Nat]
<1>1. step \in Steps /\ step \notin Copied /\ step \notin JobSteps
  BY DEF Steps, JobSteps, KeepSteps, Copied
<1>2. Begin(c, step, w, None) BY DEF Ask
<1> QED BY <1>1, <1>2, BeginBegins

LEMMA CutEnds ==
  ASSUME TypeInv, NEW c \in Calls, Cut(c)
  PROVE  /\ Ended(c, call[c].step) /\ CallsGood' /\ used' \in [calls: Nat, cuts: Nat]
         /\ blurred' \subseteq Workers /\ blurred \subseteq blurred'
<1>1. At(c, call[c].step) BY DEF Cut, At
<1>2. Ended(c, call[c].step) /\ CallsGood' BY <1>1, EndEnds DEF Cut
<1>3. call[c].worker \in Workers BY <1>1, CallHas
<1>4. blurred' = blurred \/ blurred' = blurred \cup {call[c].worker} BY DEF Cut
<1>5. blurred \subseteq Workers BY DEF TypeInv, TypeOK
<1>6. used' \in [calls: Nat, cuts: Nat]
  <2>1. used \in [calls: Nat, cuts: Nat] BY DEF TypeInv, TypeOK
  <2>2. used' = [used EXCEPT !.cuts = used.cuts + 1] BY DEF Cut
  <2> QED BY <2>1, <2>2
<1> QED BY <1>2, <1>3, <1>4, <1>5, <1>6

LEMMA TypeNext == TypeInv /\ [Next]_vars => TypeInv'
<1> SUFFICES ASSUME TypeInv, [Next]_vars PROVE TypeInv' OBVIOUS
<1>1. CASE UNCHANGED vars
  BY <1>1 DEF vars, pool, tasks, history, TypeInv, TypeOK, CallsGood
<1>2. CASE Tick
  <2>1. now' \in 0 .. MaxTime BY <1>2, WorkerPoolAssumption DEF Tick, TypeInv, TypeOK
  <2> QED BY <1>2, <2>1 DEF Tick, pool, tasks, history, TypeInv, TypeOK, CallsGood
<1>3. ASSUME NEW c \in Calls, NEW w \in Workers, NEW t \in Tasks, Take(c, w, t)
      PROVE  TypeInv'
  BY <1>3, TakeBegins DEF Take, Begun, Alone, pool, TypeInv, TypeOK
<1>4. ASSUME NEW c \in Calls, NEW w \in Workers, NEW step \in {"beat", "leave", "check"},
             Ask(c, step, w)
      PROVE  TypeInv'
  <2>1. Begun(c, step) /\ CallsGood' /\ used' \in [calls: Nat, cuts: Nat]
    BY <1>4, AskBegins
  <2> QED BY <1>4, <2>1 DEF Ask, Begun, Alone, pool, tasks, history, TypeInv, TypeOK
<1>5. ASSUME NEW c \in Calls, Cut(c) PROVE TypeInv'
  BY <1>5, CutEnds DEF Cut, Ended, Alone, pool, tasks, TypeInv, TypeOK
<1>6. index \subseteq Workers BY DEF TypeInv, TypeOK
<1> QED BY <1>1, <1>2, <1>3, <1>4, <1>5, <1>6, JobTypes, KeepTypes DEF Next

LEMMA TypeInit == Init => TypeInv
<1> SUFFICES ASSUME Init PROVE TypeInv OBVIOUS
<1>1. worker \in [Workers -> Record \cup {None}]
  BY WorkerPoolAssumption DEF Init, Record
<1> QED BY <1>1, WorkerPoolAssumption DEF Init, TypeInv, TypeOK, CallsGood

\* The records, lists and calls of every reachable state are what TypeOK says;
\* a load is never negative.
THEOREM RecordsAreTyped == Spec => []TypeOK
<1>1. TypeInv => TypeOK BY DEF TypeInv
<1> QED BY <1>1, TypeInit, TypeNext, PTL DEF Spec
-----------------------------------------------------------------------------
(* Counting calls and entries of a list.                                   *)

LEMMA CallSizes ==
  ASSUME NEW T \in SUBSET Calls
  PROVE  /\ IsFiniteSet(T) /\ Cardinality(T) \in Nat
         /\ Cardinality(T) = 0 <=> T = {}
         /\ \A c \in T : Cardinality(T \ {c}) = Cardinality(T) - 1
         /\ \A c \in Calls \ T : Cardinality(T \cup {c}) = Cardinality(T) + 1
         /\ \A U \in SUBSET T : Cardinality(U) =< Cardinality(T)
<1>1. IsFiniteSet(T) BY FS_Subset, WorkerPoolAssumption
<1>2. Cardinality(T) \in Nat /\ (Cardinality(T) = 0 <=> T = {})
  BY <1>1, FS_CardinalityType, FS_EmptySet
<1>3. \A c \in T : Cardinality(T \ {c}) = Cardinality(T) - 1 BY <1>1, FS_RemoveElement
<1>4. \A c \in Calls \ T : Cardinality(T \cup {c}) = Cardinality(T) + 1
  BY <1>1, FS_AddElement
<1>5. \A U \in SUBSET T : Cardinality(U) =< Cardinality(T) BY <1>1, FS_Subset
<1> QED BY <1>1, <1>2, <1>3, <1>4, <1>5

\* The calls for w at steps S with task t in hand.
Having(w, t, S) == {c \in For(w, S) : call[c].task = t}

\* How a step of one call changes the calls for a worker that are at steps S.
LEMMA ForMoved ==
  ASSUME TypeInv, NEW c \in Calls, NEW from, NEW to, Moved(c, from, to), NEW w, NEW S
  PROVE  /\ \/ w # call[c].worker
            \/ from \in S /\ to \subseteq S
            \/ from \notin S /\ to \cap S = {}
            => For(w, S)' = For(w, S)
         /\ w = call[c].worker /\ from \in S /\ to \cap S = {} =>
              c \in For(w, S) /\ For(w, S)' = For(w, S) \ {c}
         /\ w = call[c].worker /\ from \notin S /\ to \subseteq S =>
              c \in Calls \ For(w, S) /\ For(w, S)' = For(w, S) \cup {c}
<1>1. /\ \A d \in Calls \ {c} : call'[d] = call[d]
      /\ call[c] # None /\ call[c].step = from /\ call'[c] # None /\ call'[c].step \in to
      /\ call'[c].worker = call[c].worker
  BY DEF Moved, Alone, At
<1>2. \A d \in Calls : d \in For(w, S) <=>
        call[d] # None /\ call[d].worker = w /\ call[d].step \in S
  BY DEF For
<1>3. \A d \in Calls : d \in For(w, S)' <=>
        call'[d] # None /\ call'[d].worker = w /\ call'[d].step \in S
  BY DEF For
<1>4. \A d \in Calls \ {c} : d \in For(w, S)' <=> d \in For(w, S) BY <1>1, <1>2, <1>3
<1>5. For(w, S) \subseteq Calls /\ For(w, S)' \subseteq Calls BY DEF For
<1>6. ASSUME \/ w # call[c].worker
             \/ from \in S /\ to \subseteq S
             \/ from \notin S /\ to \cap S = {}
      PROVE  For(w, S)' = For(w, S)
  <2>1. c \in For(w, S)' <=> c \in For(w, S) BY <1>1, <1>2, <1>3, <1>6
  <2> QED BY <1>4, <1>5, <2>1
<1>7. ASSUME w = call[c].worker, from \in S, to \cap S = {}
      PROVE  c \in For(w, S) /\ For(w, S)' = For(w, S) \ {c}
  <2>1. c \in For(w, S) /\ c \notin For(w, S)' BY <1>1, <1>2, <1>3, <1>7
  <2> QED BY <1>4, <1>5, <2>1
<1>8. ASSUME w = call[c].worker, from \notin S, to \subseteq S
      PROVE  c \in Calls \ For(w, S) /\ For(w, S)' = For(w, S) \cup {c}
  <2>1. c \notin For(w, S) /\ c \in For(w, S)' BY <1>1, <1>2, <1>3, <1>8
  <2> QED BY <1>4, <1>5, <2>1
<1> QED BY <1>6, <1>7, <1>8

LEMMA ForEnded ==
  ASSUME TypeInv, NEW c \in Calls, NEW from, Ended(c, from), NEW w, NEW S
  PROVE  /\ w # call[c].worker \/ from \notin S => For(w, S)' = For(w, S)
         /\ For(w, S)' = For(w, S) \ {c}
<1>1. /\ \A d \in Calls \ {c} : call'[d] = call[d]
      /\ call[c] # None /\ call[c].step = from /\ call'[c] = None
  BY DEF Ended, Alone, At
<1> QED BY <1>1 DEF For

LEMMA ForBegun ==
  ASSUME TypeInv, NEW c \in Calls, NEW step, Begun(c, step), NEW w, NEW S, step \notin S
  PROVE  For(w, S)' = For(w, S)
<1>1. /\ \A d \in Calls \ {c} : call'[d] = call[d]
      /\ call[c] = None /\ call'[c].step = step
  BY DEF Begun, Alone, At
<1> QED BY <1>1 DEF For

\* The same of those that have task t in hand.
LEMMA HavingMoved ==
  ASSUME TypeInv, NEW c \in Calls, NEW from, NEW to, Moved(c, from, to), NEW w, NEW t, NEW S
  PROVE  /\ \/ w # call[c].worker \/ t # call[c].task
            \/ from \in S /\ to \subseteq S
            \/ from \notin S /\ to \cap S = {}
            => Having(w, t, S)' = Having(w, t, S)
         /\ w = call[c].worker /\ t = call[c].task /\ from \in S /\ to \cap S = {} =>
              c \in Having(w, t, S) /\ Having(w, t, S)' = Having(w, t, S) \ {c}
         /\ w = call[c].worker /\ t = call[c].task /\ from \notin S /\ to \subseteq S =>
              /\ c \in Calls \ Having(w, t, S)
              /\ Having(w, t, S)' = Having(w, t, S) \cup {c}
<1>1. /\ \A d \in Calls \ {c} : call'[d] = call[d]
      /\ call'[c].task = call[c].task /\ call'[c].worker = call[c].worker
      /\ call[c] # None /\ call[c].step = from /\ call'[c] # None /\ call'[c].step \in to
  BY DEF Moved, Alone, At
<1>2. \A d \in Calls : d \in Having(w, t, S) <=>
        call[d] # None /\ call[d].worker = w /\ call[d].step \in S /\ call[d].task = t
  BY DEF For, Having
<1>3. \A d \in Calls : d \in Having(w, t, S)' <=>
        call'[d] # None /\ call'[d].worker = w /\ call'[d].step \in S /\ call'[d].task = t
  BY DEF For, Having
<1>4. \A d \in Calls \ {c} : d \in Having(w, t, S)' <=> d \in Having(w, t, S)
  BY <1>1, <1>2, <1>3
<1>5. Having(w, t, S) \subseteq Calls /\ Having(w, t, S)' \subseteq Calls
  BY DEF For, Having
<1>6. ASSUME \/ w # call[c].worker \/ t # call[c].task
             \/ from \in S /\ to \subseteq S
             \/ from \notin S /\ to \cap S = {}
      PROVE  Having(w, t, S)' = Having(w, t, S)
  <2>1. c \in Having(w, t, S)' <=> c \in Having(w, t, S) BY <1>1, <1>2, <1>3, <1>6
  <2> QED BY <1>4, <1>5, <2>1
<1>7. ASSUME w = call[c].worker, t = call[c].task, from \in S, to \cap S = {}
      PROVE  c \in Having(w, t, S) /\ Having(w, t, S)' = Having(w, t, S) \ {c}
  <2>1. c \in Having(w, t, S) /\ c \notin Having(w, t, S)' BY <1>1, <1>2, <1>3, <1>7
  <2> QED BY <1>4, <1>5, <2>1
<1>8. ASSUME w = call[c].worker, t = call[c].task, from \notin S, to \subseteq S
      PROVE  /\ c \in Calls \ Having(w, t, S)
             /\ Having(w, t, S)' = Having(w, t, S) \cup {c}
  <2>1. c \notin Having(w, t, S) /\ c \in Having(w, t, S)' BY <1>1, <1>2, <1>3, <1>8
  <2> QED BY <1>4, <1>5, <2>1
<1> QED BY <1>6, <1>7, <1>8

LEMMA HavingEnded ==
  ASSUME TypeInv, NEW c \in Calls, NEW from, Ended(c, from), NEW w, NEW t, NEW S
  PROVE  Having(w, t, S)' = Having(w, t, S) \ {c}
<1>1. /\ \A d \in Calls \ {c} : call'[d] = call[d]
      /\ call'[c] = None
  BY DEF Ended, Alone, At
<1> QED BY <1>1 DEF For, Having

LEMMA HavingBegun ==
  ASSUME TypeInv, NEW c \in Calls, NEW step, Begun(c, step), NEW w, NEW t, NEW S,
         step \notin S
  PROVE  Having(w, t, S)' = Having(w, t, S)
<1>1. /\ \A d \in Calls \ {c} : call'[d] = call[d]
      /\ call[c] = None /\ call'[c].step = step
  BY DEF Begun, Alone, At
<1> QED BY <1>1 DEF For, Having

LEMMA HavingInCalls ==
  ASSUME NEW w, NEW t, NEW S
  PROVE  Having(w, t, S) \in SUBSET Calls /\ For(w, S) \in SUBSET Calls
         /\ Having(w, t, S) \subseteq For(w, S)
BY DEF Having, For

\* The entries of a list: pushing adds one, removing takes one away.
LEMMA EntriesAre ==
  ASSUME NEW w
  PROVE  /\ \A e \in Entries(w) : \E t \in Tasks : \E i \in 1 .. list[w][t] : e = <<t, i>>
         /\ \A t \in Tasks : \A i \in 1 .. list[w][t] : <<t, i>> \in Entries(w)
BY DEF Entries

LEMMA Pushed ==
  ASSUME TypeInv, NEW w \in Workers, NEW t \in Tasks, IsFiniteSet(Entries(w)),
         list' = [list EXCEPT ![w][t] = list[w][t] + 1]
  PROVE  /\ list'[w][t] = list[w][t] + 1
         /\ \A v \in Workers, s \in Tasks : v # w \/ s # t => list'[v][s] = list[v][s]
         /\ IsFiniteSet(Entries(w))'
         /\ Cardinality(Entries(w))' = Cardinality(Entries(w)) + 1
         /\ \A v \in Workers \ {w} : Entries(v)' = Entries(v)
<1>1. list \in [Workers -> [Tasks -> Nat]] BY DEF TypeInv, TypeOK
<1>2. /\ list'[w][t] = list[w][t] + 1 /\ list[w][t] \in Nat
      /\ \A v \in Workers, s \in Tasks : v # w \/ s # t => list'[v][s] = list[v][s]
  BY <1>1
<1> DEFINE e == <<t, list[w][t] + 1>>
<1>3. Entries(w)' = Entries(w) \cup {e}
  <2>1. ASSUME NEW x \in Entries(w)' PROVE x \in Entries(w) \cup {e}
    <3>1. PICK s \in Tasks : \E i \in 1 .. list'[w][s] : x = <<s, i>> BY <2>1 DEF Entries
    <3>2. PICK i \in 1 .. list'[w][s] : x = <<s, i>> BY <3>1
    <3>3. CASE s = t /\ i = list[w][t] + 1 BY <3>2, <3>3
    <3>4. CASE ~(s = t /\ i = list[w][t] + 1)
      <4>1. i \in 1 .. list[w][s] BY <1>1, <1>2, <3>2, <3>4
      <4> QED BY <3>2, <4>1, EntriesAre
    <3> QED BY <3>3, <3>4
  <2>2. ASSUME NEW x \in Entries(w) PROVE x \in Entries(w)'
    <3>1. PICK s \in Tasks : \E i \in 1 .. list[w][s] : x = <<s, i>> BY <2>2, EntriesAre
    <3>2. PICK i \in 1 .. list[w][s] : x = <<s, i>> BY <3>1
    <3>3. i \in 1 .. list'[w][s] BY <1>1, <1>2, <3>2
    <3> QED BY <3>2, <3>3 DEF Entries
  <2>3. e \in Entries(w)'
    <3>1. list[w][t] + 1 \in 1 .. list'[w][t] BY <1>2
    <3> QED BY <3>1 DEF Entries
  <2> QED BY <2>1, <2>2, <2>3
<1>4. e \notin Entries(w)
  <2>1. SUFFICES ASSUME e \in Entries(w) PROVE FALSE OBVIOUS
  <2>2. PICK s \in Tasks : \E i \in 1 .. list[w][s] : e = <<s, i>> BY <2>1, EntriesAre
  <2>3. PICK i \in 1 .. list[w][s] : e = <<s, i>> BY <2>2
  <2> QED BY <1>2, <2>3
<1>5. ASSUME NEW v \in Workers \ {w} PROVE Entries(v)' = Entries(v)
  BY <1>2, <1>5 DEF Entries
<1>6. /\ IsFiniteSet(Entries(w) \cup {e})
      /\ Cardinality(Entries(w) \cup {e}) = Cardinality(Entries(w)) + 1
  BY <1>4, FS_AddElement
<1> QED BY <1>2, <1>3, <1>5, <1>6

LEMMA Removed ==
  ASSUME TypeInv, NEW w \in Workers, NEW t \in Tasks, IsFiniteSet(Entries(w)),
         list' = [list EXCEPT ![w][t] = Left(@)]
  PROVE  /\ list'[w][t] = IF list[w][t] > 0 THEN list[w][t] - 1 ELSE 0
         /\ \A v \in Workers, s \in Tasks : v # w \/ s # t => list'[v][s] = list[v][s]
         /\ IsFiniteSet(Entries(w))'
         /\ list[w][t] > 0 =>
              Cardinality(Entries(w))' = Cardinality(Entries(w)) - 1
         /\ \A v \in Workers \ {w} : Entries(v)' = Entries(v)
<1>1. list \in [Workers -> [Tasks -> Nat]] BY DEF TypeInv, TypeOK
<1>2. /\ list'[w][t] = IF list[w][t] > 0 THEN list[w][t] - 1 ELSE 0
      /\ list[w][t] \in Nat
      /\ \A v \in Workers, s \in Tasks : v # w \/ s # t => list'[v][s] = list[v][s]
  BY <1>1 DEF Left
<1> DEFINE e == <<t, list[w][t]>>
<1>3. Entries(w)' = Entries(w) \ {e}
  <2>1. ASSUME NEW x \in Entries(w)' PROVE x \in Entries(w) /\ x # e
    <3>1. PICK s \in Tasks : \E i \in 1 .. list'[w][s] : x = <<s, i>> BY <2>1 DEF Entries
    <3>2. PICK i \in 1 .. list'[w][s] : x = <<s, i>> BY <3>1
    <3>3. i \in 1 .. list[w][s] BY <1>1, <1>2, <3>2
    <3>4. <<s, i>> # e BY <1>2, <3>2
    <3> QED BY <3>2, <3>3, <3>4, EntriesAre
  <2>2. ASSUME NEW x \in Entries(w), x # e PROVE x \in Entries(w)'
    <3>1. PICK s \in Tasks : \E i \in 1 .. list[w][s] : x = <<s, i>> BY <2>2, EntriesAre
    <3>2. PICK i \in 1 .. list[w][s] : x = <<s, i>> BY <3>1
    <3>3. i \in 1 .. list'[w][s] BY <1>1, <1>2, <2>2, <3>2
    <3> QED BY <3>2, <3>3 DEF Entries
  <2> QED BY <2>1, <2>2
<1>4. list[w][t] > 0 => e \in Entries(w)
  <2>1. list[w][t] > 0 => list[w][t] \in 1 .. list[w][t] BY <1>2
  <2> QED BY <2>1, EntriesAre
<1>5. ASSUME NEW v \in Workers \ {w} PROVE Entries(v)' = Entries(v)
  BY <1>2, <1>5 DEF Entries
<1>6. /\ IsFiniteSet(Entries(w) \ {e})
      /\ e \in Entries(w) => Cardinality(Entries(w) \ {e}) = Cardinality(Entries(w)) - 1
  BY FS_RemoveElement
<1> QED BY <1>2, <1>3, <1>4, <1>5, <1>6

LEMMA Cleared ==
  ASSUME TypeInv, NEW w \in Workers, list' = [list EXCEPT ![w] = [t \in Tasks |-> 0]]
  PROVE  /\ \A t \in Tasks : list'[w][t] = 0
         /\ \A v \in Workers \ {w} : list'[v] = list[v] /\ Entries(v)' = Entries(v)
         /\ Entries(w)' = {}
<1>1. list \in [Workers -> [Tasks -> Nat]] BY DEF TypeInv, TypeOK
<1>2. /\ \A t \in Tasks : list'[w][t] = 0
      /\ \A v \in Workers \ {w} : list'[v] = list[v]
  BY <1>1
<1>3. \A v \in Workers \ {w} : Entries(v)' = Entries(v) BY <1>2 DEF Entries
<1>4. \A t \in Tasks : 1 .. list'[w][t] = {} BY <1>2
<1>5. Entries(w)' = {} BY <1>4 DEF Entries
<1> QED BY <1>2, <1>3, <1>5
-----------------------------------------------------------------------------
(* The invariant.  Nothing of LoadIsExact says that a count which goes down *)
(* was above zero, nor that an entry which is removed was there: Own does,  *)
(* each job between LPUSH and LREM owning an entry.  A disconnect deletes   *)
(* whole lists, so that Own needs, of workers that lost a write, what Kept  *)
(* says of tasks: a disconnect has read every entry that it will delete.    *)

Leaving  == {"done", "doneAgain", "unload", "remove"}
Running  == {"busy", "setBusy", "work"}
Carrying == {"start"} \cup Running \cup Leaving
Down     == {"down", "setDown"}

Lists == \A w \in Workers : IsFiniteSet(Entries(w))

\* Each job that is past its LPUSH owns an entry.
Own ==
  /\ \A w \in Workers, t \in Tasks : w \notin blurred \/ t \notin muddled =>
       Cardinality(Having(w, t, Carrying)) =< list[w][t]
  /\ \A w \in Workers \ blurred :
       Cardinality(For(w, Carrying)) =< Cardinality(Entries(w))

\* A disconnect of w that is under way will requeue t.
Seen(w, t) == \A d \in For(w, {"requeue"}) : t \in call[d].seen

\* There is an entry that no job is about to remove; a job that runs while its
\* task is queued again will find the task not processing, and remove one.
Spare(w, t) ==
  /\ Cardinality(Having(w, t, Leaving)) < list[w][t]
  /\ status[t] = "queued" => Cardinality(Having(w, t, Leaving \cup Running)) < list[w][t]

Waiting(t) == t \in assigned /\ t \notin queue /\ status[t] # "completed"

KeptOf(t) ==
  /\ \A w \in Workers : Having(w, t, Carrying) # {} => Seen(w, t)
  /\ Waiting(t) => \E w \in index : Seen(w, t) /\ Spare(w, t)

Kept == \A t \in Tasks \ muddled : KeptOf(t)

Inv == TypeInv /\ Lists /\ Own /\ LoadIsExact /\ Kept

\* What a history variable says stays said.
LEMMA HistoryGrows ==
  ASSUME TypeInv, Next
  PROVE  blurred \subseteq blurred' /\ muddled \subseteq muddled'
<1>1. ASSUME NEW c \in Calls, Job(c)
      PROVE  blurred \subseteq blurred' /\ muddled \subseteq muddled'
  BY <1>1 DEF Job, AssignRead, AssignWrite, AssignPush, Start, BusyRead, BusyWrite, Work,
       DoneRead, DoneWrite, DoneRemove, Look, Settle, Set, history
<1>2. ASSUME NEW c \in Calls, Keep(c)
      PROVE  blurred \subseteq blurred' /\ muddled \subseteq muddled'
  BY <1>2 DEF Keep, BeatRead, BeatWrite, Unregister, Delete, Unindex, CheckRead,
       Disconnect, Requeue, Del, DownRead, DownWrite, Set, history
<1>3. ASSUME NEW c \in Calls, Cut(c)
      PROVE  blurred \subseteq blurred' /\ muddled \subseteq muddled'
  <2>1. blurred' = blurred \/ blurred' = blurred \cup {call[c].worker} BY <1>3 DEF Cut
  <2>2. muddled' = muddled BY <1>3 DEF Cut
  <2> QED BY <2>1, <2>2
<1> QED BY <1>1, <1>2, <1>3 DEF Next, Tick, Take, Ask, history

-----------------------------------------------------------------------------
(* Each job past its LPUSH owns an entry.                                  *)

\* Where the calls that own an entry only become fewer.
Fewer ==
  \A w \in Workers : /\ For(w, Carrying)' \subseteq For(w, Carrying)
                     /\ \A t \in Tasks : Having(w, t, Carrying)' \subseteq Having(w, t, Carrying)

LEMMA FewerMoved ==
  ASSUME TypeInv, NEW c \in Calls, NEW from, NEW to, Moved(c, from, to),
         \/ from \in Carrying /\ to \subseteq Carrying
         \/ to \cap Carrying = {}
  PROVE  Fewer
<1>1. ASSUME NEW w \in Workers PROVE For(w, Carrying)' \subseteq For(w, Carrying)
  BY ForMoved
<1>2. ASSUME NEW w \in Workers, NEW t \in Tasks
      PROVE  Having(w, t, Carrying)' \subseteq Having(w, t, Carrying)
  BY HavingMoved
<1> QED BY <1>1, <1>2 DEF Fewer

LEMMA FewerEnded ==
  ASSUME TypeInv, NEW c \in Calls, NEW from, Ended(c, from)
  PROVE  Fewer
BY ForEnded, HavingEnded DEF Fewer

LEMMA OwnFewer ==
  ASSUME TypeInv, Lists, Own, Fewer, list' = list,
         blurred \subseteq blurred', muddled \subseteq muddled'
  PROVE  Lists' /\ Own'
<1>1. \A w : Entries(w)' = Entries(w) BY DEF Entries
<1>2. Lists' BY <1>1 DEF Lists
<1>3. ASSUME NEW w \in Workers, NEW t \in Tasks, w \notin blurred' \/ t \notin muddled'
      PROVE  Cardinality(Having(w, t, Carrying))' =< list'[w][t]
  <2>1. Having(w, t, Carrying)' \subseteq Having(w, t, Carrying) BY DEF Fewer
  <2>2. /\ Cardinality(Having(w, t, Carrying)') =< Cardinality(Having(w, t, Carrying))
        /\ Cardinality(Having(w, t, Carrying)) \in Nat
        /\ Cardinality(Having(w, t, Carrying)') \in Nat
    BY <2>1, HavingInCalls, CallSizes
  <2>3. Cardinality(Having(w, t, Carrying)) =< list[w][t] BY <1>3 DEF Own
  <2>4. list[w][t] \in Nat BY DEF TypeInv, TypeOK
  <2> QED BY <2>2, <2>3, <2>4
<1>4. ASSUME NEW w \in Workers \ blurred'
      PROVE  Cardinality(For(w, Carrying))' =< Cardinality(Entries(w))'
  <2>1. For(w, Carrying)' \subseteq For(w, Carrying) BY DEF Fewer
  <2>2. /\ Cardinality(For(w, Carrying)') =< Cardinality(For(w, Carrying))
        /\ Cardinality(For(w, Carrying)) \in Nat
        /\ Cardinality(For(w, Carrying)') \in Nat
    BY <2>1, HavingInCalls, CallSizes
  <2>3. Cardinality(For(w, Carrying)) =< Cardinality(Entries(w)) BY DEF Own
  <2>4. Cardinality(Entries(w)) \in Nat BY FS_CardinalityType DEF Lists
  <2> QED BY <1>1, <2>2, <2>3, <2>4
<1> QED BY <1>2, <1>3, <1>4 DEF Own

LEMMA OwnPush ==
  ASSUME TypeInv, Lists, Own, NEW c \in Calls, AssignPush(c), Moved(c, "push", {"start"}),
         blurred \subseteq blurred', muddled \subseteq muddled'
  PROVE  Lists' /\ Own'
<1>1. PICK v \in Workers, s \in Tasks : v = call[c].worker /\ s = call[c].task
  <2>1. At(c, "push") /\ "push" \in JobSteps BY DEF AssignPush, JobSteps
  <2> QED BY <2>1, CallHas
<1>2. IsFiniteSet(Entries(v)) BY <1>1 DEF Lists
<1>3. list' = [list EXCEPT ![v][s] = list[v][s] + 1] BY <1>1 DEF AssignPush
<1>4. /\ list'[v][s] = list[v][s] + 1
      /\ \A w \in Workers, t \in Tasks : w # v \/ t # s => list'[w][t] = list[w][t]
      /\ IsFiniteSet(Entries(v))'
      /\ Cardinality(Entries(v))' = Cardinality(Entries(v)) + 1
      /\ \A w \in Workers \ {v} : Entries(w)' = Entries(w)
  BY <1>1, <1>2, <1>3, Pushed
<1>5. Lists' BY <1>4 DEF Lists
<1>6. "push" \notin Carrying /\ {"start"} \subseteq Carrying
  BY DEF Carrying, Running, Leaving
<1>7. ASSUME NEW w \in Workers, NEW t \in Tasks, w \notin blurred' \/ t \notin muddled'
      PROVE  Cardinality(Having(w, t, Carrying))' =< list'[w][t]
  <2>1. Cardinality(Having(w, t, Carrying)) =< list[w][t] BY <1>7 DEF Own
  <2>2. Cardinality(Having(w, t, Carrying)) \in Nat BY HavingInCalls, CallSizes
  <2>3. list[w][t] \in Nat BY DEF TypeInv, TypeOK
  <2>4. CASE w # v \/ t # s
    <3>1. Having(w, t, Carrying)' = Having(w, t, Carrying) BY <1>1, <2>4, HavingMoved
    <3> QED BY <1>4, <2>1, <2>4, <3>1
  <2>5. CASE w = v /\ t = s
    <3>1. /\ c \in Calls \ Having(w, t, Carrying)
          /\ Having(w, t, Carrying)' = Having(w, t, Carrying) \cup {c}
      BY <1>1, <1>6, <2>5, HavingMoved
    <3>2. Cardinality(Having(w, t, Carrying)') = Cardinality(Having(w, t, Carrying)) + 1
      BY <3>1, HavingInCalls, CallSizes
    <3> QED BY <1>4, <2>1, <2>2, <2>3, <2>5, <3>2
  <2> QED BY <2>4, <2>5
<1>8. ASSUME NEW w \in Workers \ blurred'
      PROVE  Cardinality(For(w, Carrying))' =< Cardinality(Entries(w))'
  <2>1. Cardinality(For(w, Carrying)) =< Cardinality(Entries(w)) BY DEF Own
  <2>2. Cardinality(For(w, Carrying)) \in Nat BY HavingInCalls, CallSizes
  <2>3. Cardinality(Entries(w)) \in Nat BY FS_CardinalityType DEF Lists
  <2>4. CASE w # v
    <3>1. For(w, Carrying)' = For(w, Carrying) BY <1>1, <2>4, ForMoved
    <3> QED BY <1>4, <2>1, <2>4, <3>1
  <2>5. CASE w = v
    <3>1. /\ c \in Calls \ For(w, Carrying)
          /\ For(w, Carrying)' = For(w, Carrying) \cup {c}
      BY <1>1, <1>6, <2>5, ForMoved
    <3>2. Cardinality(For(w, Carrying)') = Cardinality(For(w, Carrying)) + 1
      BY <3>1, HavingInCalls, CallSizes
    <3> QED BY <1>4, <2>1, <2>2, <2>3, <2>5, <3>2
  <2> QED BY <2>4, <2>5
<1> QED BY <1>5, <1>7, <1>8 DEF Own

LEMMA OwnRemove ==
  ASSUME TypeInv, Lists, Own, NEW c \in Calls, DoneRemove(c), Moved(c, "remove", {"look"}),
         blurred \subseteq blurred', muddled \subseteq muddled'
  PROVE  Lists' /\ Own'
<1>1. PICK v \in Workers, s \in Tasks : v = call[c].worker /\ s = call[c].task
  <2>1. At(c, "remove") /\ "remove" \in JobSteps BY DEF DoneRemove, JobSteps
  <2> QED BY <2>1, CallHas
<1>2. IsFiniteSet(Entries(v)) BY <1>1 DEF Lists
<1>3. list' = [list EXCEPT ![v][s] = Left(@)] BY <1>1 DEF DoneRemove
<1>4. /\ list'[v][s] = IF list[v][s] > 0 THEN list[v][s] - 1 ELSE 0
      /\ \A w \in Workers, t \in Tasks : w # v \/ t # s => list'[w][t] = list[w][t]
      /\ IsFiniteSet(Entries(v))'
      /\ list[v][s] > 0 => Cardinality(Entries(v))' = Cardinality(Entries(v)) - 1
      /\ \A w \in Workers \ {v} : Entries(w)' = Entries(w)
  BY <1>1, <1>2, <1>3, Removed
<1>5. Lists' BY <1>4 DEF Lists
<1>6. "remove" \in Carrying /\ {"look"} \cap Carrying = {}
  BY DEF Carrying, Running, Leaving
<1>7. ASSUME v \notin blurred' \/ s \notin muddled' PROVE list[v][s] > 0
  <2>1. Cardinality(Having(v, s, Carrying)) =< list[v][s] BY <1>1, <1>7 DEF Own
  <2>2. c \in Having(v, s, Carrying) BY <1>1, <1>6, HavingMoved
  <2>3. Cardinality(Having(v, s, Carrying)) \in Nat \ {0}
    BY <2>2, HavingInCalls, CallSizes
  <2>4. list[v][s] \in Nat BY <1>1 DEF TypeInv, TypeOK
  <2> QED BY <2>1, <2>3, <2>4
<1>8. ASSUME NEW w \in Workers, NEW t \in Tasks, w \notin blurred' \/ t \notin muddled'
      PROVE  Cardinality(Having(w, t, Carrying))' =< list'[w][t]
  <2>1. Cardinality(Having(w, t, Carrying)) =< list[w][t] BY <1>8 DEF Own
  <2>2. Cardinality(Having(w, t, Carrying)) \in Nat BY HavingInCalls, CallSizes
  <2>3. list[w][t] \in Nat BY DEF TypeInv, TypeOK
  <2>4. CASE w # v \/ t # s
    <3>1. Having(w, t, Carrying)' = Having(w, t, Carrying) BY <1>1, <2>4, HavingMoved
    <3> QED BY <1>4, <2>1, <2>4, <3>1
  <2>5. CASE w = v /\ t = s
    <3>1. /\ c \in Having(w, t, Carrying)
          /\ Having(w, t, Carrying)' = Having(w, t, Carrying) \ {c}
      BY <1>1, <1>6, <2>5, HavingMoved
    <3>2. Cardinality(Having(w, t, Carrying)') = Cardinality(Having(w, t, Carrying)) - 1
      BY <3>1, HavingInCalls, CallSizes
    <3> QED BY <1>4, <1>7, <1>8, <2>1, <2>2, <2>3, <2>5, <3>2
  <2> QED BY <2>4, <2>5
<1>9. ASSUME NEW w \in Workers \ blurred'
      PROVE  Cardinality(For(w, Carrying))' =< Cardinality(Entries(w))'
  <2>1. Cardinality(For(w, Carrying)) =< Cardinality(Entries(w)) BY DEF Own
  <2>2. Cardinality(For(w, Carrying)) \in Nat BY HavingInCalls, CallSizes
  <2>3. Cardinality(Entries(w)) \in Nat BY FS_CardinalityType DEF Lists
  <2>4. CASE w # v
    <3>1. For(w, Carrying)' = For(w, Carrying) BY <1>1, <2>4, ForMoved
    <3> QED BY <1>4, <2>1, <2>4, <3>1
  <2>5. CASE w = v
    <3>1. c \in For(w, Carrying) /\ For(w, Carrying)' = For(w, Carrying) \ {c}
      BY <1>1, <1>6, <2>5, ForMoved
    <3>2. Cardinality(For(w, Carrying)') = Cardinality(For(w, Carrying)) - 1
      BY <3>1, HavingInCalls, CallSizes
    <3> QED BY <1>4, <1>7, <1>9, <2>1, <2>2, <2>3, <2>5, <3>2
  <2> QED BY <2>4, <2>5
<1> QED BY <1>5, <1>8, <1>9 DEF Own

LEMMA OwnDel ==
  ASSUME TypeInv, Lists, Own, Kept, NEW c \in Calls, Del(c),
         Moved(c, "requeue", {"down"}), blurred \subseteq blurred', muddled \subseteq muddled'
  PROVE  Lists' /\ Own'
<1>1. PICK v \in Workers : v = call[c].worker /\ At(c, "requeue") /\ call[c].seen = {}
  BY CallHas DEF Del
<1>2. list' = [list EXCEPT ![v] = [t \in Tasks |-> 0]] BY <1>1 DEF Del
<1>3. v \notin blurred' => For(v, InHand) = {} BY <1>1 DEF Del
<1>4. c \in For(v, {"requeue"}) BY <1>1 DEF For, At
<1>5. /\ \A t \in Tasks : list'[v][t] = 0
      /\ \A w \in Workers \ {v} : list'[w] = list[w] /\ Entries(w)' = Entries(w)
      /\ Entries(v)' = {}
  BY <1>1, <1>2, Cleared
<1>6. Lists' BY <1>5, FS_EmptySet DEF Lists
<1>7. "requeue" \notin Carrying /\ {"down"} \cap Carrying = {}
  BY DEF Carrying, Running, Leaving
<1>8. Carrying \subseteq InHand BY DEF Carrying, Running, Leaving, InHand
<1>9. ASSUME NEW w \in Workers, NEW t \in Tasks, w \notin blurred' \/ t \notin muddled'
      PROVE  Cardinality(Having(w, t, Carrying))' =< list'[w][t]
  <2>1. Having(w, t, Carrying)' = Having(w, t, Carrying) BY <1>7, HavingMoved
  <2>2. CASE w # v
    <3>1. Cardinality(Having(w, t, Carrying)) =< list[w][t] BY <1>9 DEF Own
    <3> QED BY <1>5, <2>1, <2>2, <3>1
  <2>3. CASE w = v
    <3>1. Having(w, t, Carrying) = {}
      <4>1. CASE w \notin blurred' BY <1>3, <1>8, <2>3, <4>1 DEF For, Having
      <4>2. CASE t \notin muddled'
        <5>1. Having(w, t, Carrying) # {} => Seen(w, t) BY <4>2 DEF Kept, KeptOf
        <5> QED BY <1>1, <1>4, <2>3, <5>1 DEF Seen
      <4> QED BY <1>9, <4>1, <4>2
    <3>2. Cardinality(Having(w, t, Carrying)) = 0 BY <3>1, FS_EmptySet
    <3> QED BY <1>5, <2>1, <2>3, <3>2
  <2> QED BY <2>2, <2>3
<1>10. ASSUME NEW w \in Workers \ blurred'
       PROVE  Cardinality(For(w, Carrying))' =< Cardinality(Entries(w))'
  <2>1. For(w, Carrying)' = For(w, Carrying) BY <1>7, ForMoved
  <2>2. CASE w # v
    <3>1. Cardinality(For(w, Carrying)) =< Cardinality(Entries(w)) BY DEF Own
    <3> QED BY <1>5, <2>1, <2>2, <3>1
  <2>3. CASE w = v
    <3>1. For(w, Carrying) = {} BY <1>3, <1>8, <1>10, <2>3 DEF For
    <3> QED BY <1>5, <2>1, <2>3, <3>1, FS_EmptySet
  <2> QED BY <2>2, <2>3
<1> QED BY <1>6, <1>9, <1>10 DEF Own

LEMMA OwnNext ==
  ASSUME Inv, Next
  PROVE  Lists' /\ Own'
<1>1. TypeInv /\ Lists /\ Own /\ Kept BY DEF Inv
<1>2. blurred \subseteq blurred' /\ muddled \subseteq muddled' BY <1>1, HistoryGrows
<1>3. CASE Tick
  <2>1. list' = list /\ call' = call BY <1>3 DEF Tick, pool
  <2>2. Fewer BY <2>1 DEF Fewer, For, Having
  <2> QED BY <1>1, <1>2, <2>1, <2>2, OwnFewer
<1>4. /\ {"assign", "load", "push", "look", "settle", "setSettled"} \cap Carrying = {}
      /\ KeepSteps \cap Carrying = {}
  BY DEF KeepSteps, Carrying, Running, Leaving
<1>5. ASSUME NEW c \in Calls, NEW step, Begun(c, step), step \notin Carrying, list' = list
      PROVE  Lists' /\ Own'
  <2>1. Fewer BY <1>1, <1>5, ForBegun, HavingBegun DEF Fewer
  <2> QED BY <1>1, <1>2, <1>5, <2>1, OwnFewer
<1>6. ASSUME NEW c \in Calls, NEW w \in Workers, NEW t \in Tasks, Take(c, w, t)
      PROVE  Lists' /\ Own'
  <2>1. Begun(c, "assign") /\ list' = list BY <1>1, <1>6, TakeBegins DEF Take, pool
  <2> QED BY <1>4, <1>5, <2>1
<1>7. ASSUME NEW c \in Calls, NEW w \in Workers, NEW step \in {"beat", "leave", "check"},
             Ask(c, step, w)
      PROVE  Lists' /\ Own'
  <2>1. Begun(c, step) /\ list' = list BY <1>1, <1>7, AskBegins DEF Ask, pool
  <2>2. step \notin Carrying BY DEF Carrying, Running, Leaving
  <2> QED BY <1>5, <2>1, <2>2
<1>8. ASSUME NEW c \in Calls, NEW from, Ended(c, from), list' = list
      PROVE  Lists' /\ Own'
  BY <1>1, <1>2, <1>8, FewerEnded, OwnFewer
<1>9. ASSUME NEW c \in Calls, NEW from, NEW to, Moved(c, from, to), list' = list,
             \/ from \in Carrying /\ to \subseteq Carrying
             \/ to \cap Carrying = {}
      PROVE  Lists' /\ Own'
  BY <1>1, <1>2, <1>9, FewerMoved, OwnFewer
<1>10. ASSUME NEW c \in Calls, Job(c) PROVE Lists' /\ Own'
  <2>1. CASE AssignPush(c) /\ Moved(c, "push", {"start"})
    BY <1>1, <1>2, <2>1, OwnPush
  <2>2. CASE DoneRemove(c) /\ Moved(c, "remove", {"look"})
    BY <1>1, <1>2, <2>2, OwnRemove
  <2>3. CASE AssignRead(c) /\ (Moved(c, "assign", {"load"}) \/ Ended(c, "assign"))
    BY <1>4, <1>8, <1>9, <2>3 DEF AssignRead, pool
  <2>4. CASE AssignWrite(c) /\ Moved(c, "load", {"push"})
    BY <1>4, <1>9, <2>4 DEF AssignWrite
  <2>5. CASE Start(c) /\ (Moved(c, "start", {"done"}) \/ Moved(c, "start", {"busy"}))
    BY <1>9, <2>5 DEF Start, pool, Carrying, Running, Leaving
  <2>6. CASE BusyRead(c) /\ (\/ Moved(c, "busy", {"doneAgain"})
                             \/ Moved(c, "busy", {"setBusy"}))
    BY <1>9, <2>6 DEF BusyRead, pool, Carrying, Running, Leaving
  <2>7. CASE BusyWrite(c) /\ Moved(c, "setBusy", {"work"})
    BY <1>9, <2>7 DEF BusyWrite, Carrying, Running, Leaving
  <2>8. CASE Work(c) /\ Moved(c, "work", {"done"})
    BY <1>9, <2>8 DEF Work, pool, Carrying, Running, Leaving
  <2>9. CASE DoneRead(c) /\ (\/ Moved(c, "done", {"doneAgain", "unload"})
                             \/ Moved(c, "doneAgain", {"look", "unload"}))
    <3>1. list' = list BY <2>9 DEF DoneRead, pool
    <3>2. \/ Moved(c, "done", {"doneAgain", "unload"})
          \/ Moved(c, "doneAgain", {"look"}) \/ Moved(c, "doneAgain", {"unload"})
      BY <2>9 DEF Moved
    <3> QED BY <1>9, <3>1, <3>2 DEF Carrying, Running, Leaving
  <2>10. CASE DoneWrite(c) /\ Moved(c, "unload", {"remove"})
    BY <1>9, <2>10 DEF DoneWrite, Carrying, Running, Leaving
  <2>11. CASE Look(c) /\ (\/ Moved(c, "look", {"settle"}) \/ Ended(c, "look")
                          \/ Moved(c, "settle", {"setSettled"}) \/ Ended(c, "settle"))
    BY <1>4, <1>8, <1>9, <2>11 DEF Look, pool
  <2>12. CASE Settle(c) /\ Ended(c, "setSettled") BY <1>8, <2>12 DEF Settle
  <2> QED
    BY <1>1, <1>10, JobMoves, <2>1, <2>2, <2>3, <2>4, <2>5, <2>6, <2>7, <2>8, <2>9, <2>10,
       <2>11, <2>12
<1>11. ASSUME NEW c \in Calls, Keep(c) PROVE Lists' /\ Own'
  <2>1. CASE Del(c) /\ Moved(c, "requeue", {"down"}) BY <1>1, <1>2, <2>1, OwnDel
  <2>2. CASE ~(Del(c) /\ Moved(c, "requeue", {"down"}))
    <3>1. list' = list
      BY <1>1, <1>11, <2>2, KeepMoves DEF BeatRead, BeatWrite, Unregister, Delete, Unindex, CheckRead,
           Disconnect, Requeue, DownRead, DownWrite, pool
    <3>2. \/ \E from : Ended(c, from)
          \/ \E from, to : Moved(c, from, to) /\ to \subseteq KeepSteps
      BY <1>1, <1>11, <2>2, KeepMoves DEF KeepSteps
    <3> QED BY <1>4, <1>8, <1>9, <3>1, <3>2
  <2> QED BY <2>1, <2>2
<1>12. ASSUME NEW c \in Calls, Cut(c) PROVE Lists' /\ Own'
  <2>1. Ended(c, call[c].step) /\ list' = list BY <1>1, <1>12, CutEnds DEF Cut, pool
  <2> QED BY <1>8, <2>1
<1>13. index \subseteq Workers BY <1>1 DEF TypeInv, TypeOK
<1> QED BY <1>3, <1>6, <1>7, <1>10, <1>11, <1>12, <1>13 DEF Next
-----------------------------------------------------------------------------
(* A load is what is on the list.                                          *)

\* Where a call changes one of record and list and is about to change the other.
Between == {"push", "remove", "down", "setDown"}

Expected(w) == Cardinality(Entries(w))
               + Cardinality(For(w, {"push"})) - Cardinality(For(w, {"remove"}))

LoadOf(w) == worker[w] # None /\ For(w, Down) = {} => worker[w].load = Expected(w)

LEMMA LoadIsLoadOf == LoadIsExact <=> \A w \in Workers \ blurred : LoadOf(w)
BY DEF LoadIsExact, LoadOf, Expected, Down

\* Calls between the two stay where they are, and the loads what they are.
LEMMA LoadSame ==
  ASSUME LoadIsExact, blurred \subseteq blurred', list' = list, NEW w \in Workers \ blurred',
         worker[w] = None => worker'[w] = None,
         worker'[w] # None => worker'[w].load = worker[w].load,
         \A S \in SUBSET Between : For(w, S)' = For(w, S)
  PROVE  LoadOf(w)'
<1>1. LoadOf(w) BY LoadIsLoadOf
<1>2. /\ For(w, {"push"})' = For(w, {"push"}) /\ For(w, {"remove"})' = For(w, {"remove"})
      /\ For(w, Down)' = For(w, Down)
  BY DEF Between, Down
<1>3. Entries(w)' = Entries(w) BY DEF Entries
<1>4. Expected(w)' = Expected(w) BY <1>2, <1>3 DEF Expected
<1> QED BY <1>1, <1>2, <1>4 DEF LoadOf

LEMMA SizesAreNat ==
  ASSUME Lists, NEW w \in Workers
  PROVE  /\ Cardinality(Entries(w)) \in Nat /\ Cardinality(For(w, {"push"})) \in Nat
         /\ Cardinality(For(w, {"remove"})) \in Nat
         /\ Cardinality(For(w, Carrying)) \in Nat
BY HavingInCalls, CallSizes, FS_CardinalityType DEF Lists

\* What a SET without a lost write does to the load of its worker.
LEMMA SetLoads ==
  ASSUME TypeInv, NEW c \in Calls, NEW step \in Copied, At(c, step), NEW new \in Record,
         Set(c, new), NEW w \in Workers \ blurred'
  PROVE  /\ worker[w] = None => worker'[w] = None
         /\ w # call[c].worker => worker'[w] = worker[w]
         /\ w = call[c].worker => /\ worker[w] = call[c].copy /\ worker[w] \in Record
                                  /\ worker'[w] = new
<1>1. call[c].copy \in Record /\ call[c].worker \in Workers BY CallHas
<1>2. None \notin Record BY NoneAssumption
<1> QED BY <1>1, <1>2, SetKeepsTypes

LEMMA LoadJob ==
  ASSUME Inv, NEW c \in Calls, Job(c), blurred \subseteq blurred', NEW w \in Workers \ blurred'
  PROVE  LoadOf(w)'
<1>1. TypeInv /\ Lists /\ Own /\ LoadIsExact BY DEF Inv
<1>2. ASSUME NEW from, NEW to, Moved(c, from, to), from \notin Between, to \cap Between = {}
      PROVE  \A S \in SUBSET Between : For(w, S)' = For(w, S)
  BY <1>1, <1>2, ForMoved
<1>3. ASSUME NEW from, Ended(c, from), from \notin Between
      PROVE  \A S \in SUBSET Between : For(w, S)' = For(w, S)
  BY <1>1, <1>3, ForEnded
<1>4. LoadOf(w) BY <1>1, LoadIsLoadOf
<1>5. /\ "load" \in Copied /\ "setBusy" \in Copied /\ "unload" \in Copied
      /\ "setSettled" \in Copied
  BY DEF Copied
<1>6. now \in 0 .. MaxTime BY <1>1 DEF TypeInv, TypeOK
<1>7. CASE AssignWrite(c) /\ Moved(c, "load", {"push"})
  <2>1. At(c, "load") /\ call[c].copy \in Record
    BY <1>1, <1>5, <1>7, CallHas DEF AssignWrite
  <2>2. call[c].copy.load \in Nat BY <2>1 DEF Record
  <2> DEFINE new == [call[c].copy EXCEPT !.load = call[c].copy.load + 1]
  <2>3. new \in Record /\ new.load = call[c].copy.load + 1
    <3>1. call[c].copy.load + 1 \in Nat BY <2>2
    <3> QED BY <2>1, <3>1, CopyChanged
  <2>4. Set(c, new) /\ list' = list BY <1>7 DEF AssignWrite
  <2> HIDE DEF new
  <2>5. CASE w # call[c].worker
    <3>1. \A S \in SUBSET Between : For(w, S)' = For(w, S)
      BY <1>1, <1>7, <2>5, ForMoved
    <3>2. worker'[w] = worker[w] BY <1>1, <1>5, <2>1, <2>3, <2>4, <2>5, SetLoads
    <3> QED BY <1>1, <2>4, <3>1, <3>2, LoadSame
  <2>6. CASE w = call[c].worker
    <3>1. worker[w] = call[c].copy /\ worker[w] \in Record /\ worker'[w] = new
      BY <1>1, <1>5, <2>1, <2>3, <2>4, <2>6, SetLoads
    <3>2. worker[w] # None BY <3>1, NoneAssumption
    <3>3. For(w, Down)' = For(w, Down)
      <4>1. "load" \notin Down /\ {"push"} \cap Down = {} BY DEF Down
      <4> QED BY <1>1, <1>7, <4>1, ForMoved
    <3>4. For(w, {"remove"})' = For(w, {"remove"}) BY <1>1, <1>7, ForMoved
    <3>5. /\ c \in Calls \ For(w, {"push"})
          /\ For(w, {"push"})' = For(w, {"push"}) \cup {c}
      BY <1>1, <1>7, <2>6, ForMoved
    <3>6. Cardinality(For(w, {"push"})') = Cardinality(For(w, {"push"})) + 1
      BY <3>5, HavingInCalls, CallSizes
    <3>7. Entries(w)' = Entries(w) BY <2>4 DEF Entries
    <3>8. Expected(w)' = Expected(w) + 1
      BY <1>1, <3>4, <3>6, <3>7, SizesAreNat DEF Expected
    <3> QED BY <1>4, <2>3, <3>1, <3>2, <3>3, <3>8 DEF LoadOf
  <2> QED BY <2>5, <2>6
<1>8. CASE AssignPush(c) /\ Moved(c, "push", {"start"})
  <2>1. worker' = worker BY <1>8 DEF AssignPush
  <2>2. PICK v \in Workers, s \in Tasks : v = call[c].worker /\ s = call[c].task
    <3>1. At(c, "push") /\ "push" \in JobSteps BY <1>8 DEF AssignPush, JobSteps
    <3> QED BY <1>1, <3>1, CallHas
  <2>3. list' = [list EXCEPT ![v][s] = list[v][s] + 1] BY <1>8, <2>2 DEF AssignPush
  <2>4. /\ Cardinality(Entries(v))' = Cardinality(Entries(v)) + 1
        /\ \A u \in Workers \ {v} : Entries(u)' = Entries(u)
    BY <1>1, <2>2, <2>3, Pushed DEF Lists
  <2>5. For(w, Down)' = For(w, Down)
    <3>1. "push" \notin Down /\ {"start"} \cap Down = {} BY DEF Down
    <3> QED BY <1>1, <1>8, <3>1, ForMoved
  <2>6. For(w, {"remove"})' = For(w, {"remove"}) BY <1>1, <1>8, ForMoved
  <2>7. Expected(w)' = Expected(w)
    <3>1. CASE w # v
      <4>1. For(w, {"push"})' = For(w, {"push"}) BY <1>1, <1>8, <2>2, <3>1, ForMoved
      <4> QED BY <2>4, <2>6, <3>1, <4>1 DEF Expected
    <3>2. CASE w = v
      <4>1. c \in For(w, {"push"}) /\ For(w, {"push"})' = For(w, {"push"}) \ {c}
        BY <1>1, <1>8, <2>2, <3>2, ForMoved
      <4>2. Cardinality(For(w, {"push"})') = Cardinality(For(w, {"push"})) - 1
        BY <4>1, HavingInCalls, CallSizes
      <4> QED BY <1>1, <2>4, <2>6, <3>2, <4>2, SizesAreNat DEF Expected
    <3> QED BY <3>1, <3>2
  <2> QED BY <1>4, <2>1, <2>5, <2>7 DEF LoadOf
<1>9. CASE DoneWrite(c) /\ Moved(c, "unload", {"remove"})
  <2>1. At(c, "unload") /\ call[c].copy \in Record
    BY <1>1, <1>5, <1>9, CallHas DEF DoneWrite
  <2>2. call[c].copy.load \in Nat BY <2>1 DEF Record
  <2> DEFINE new == [call[c].copy EXCEPT !.load = Less(@)]
  <2>3. new \in Record /\ new.load = Less(call[c].copy.load) BY <2>1, CopyChanged
  <2>4. Set(c, new) /\ list' = list BY <1>9 DEF DoneWrite
  <2> HIDE DEF new
  <2>5. CASE w # call[c].worker
    <3>1. \A S \in SUBSET Between : For(w, S)' = For(w, S)
      BY <1>1, <1>9, <2>5, ForMoved
    <3>2. worker'[w] = worker[w] BY <1>1, <1>5, <2>1, <2>3, <2>4, <2>5, SetLoads
    <3> QED BY <1>1, <2>4, <3>1, <3>2, LoadSame
  <2>6. CASE w = call[c].worker
    <3>1. worker[w] = call[c].copy /\ worker[w] \in Record /\ worker'[w] = new
      BY <1>1, <1>5, <2>1, <2>3, <2>4, <2>6, SetLoads
    <3>2. worker[w] # None BY <3>1, NoneAssumption
    <3>3. For(w, Down)' = For(w, Down)
      <4>1. "unload" \notin Down /\ {"remove"} \cap Down = {} BY DEF Down
      <4> QED BY <1>1, <1>9, <4>1, ForMoved
    <3>4. For(w, {"push"})' = For(w, {"push"}) BY <1>1, <1>9, ForMoved
    <3>5. /\ c \in Calls \ For(w, {"remove"})
          /\ For(w, {"remove"})' = For(w, {"remove"}) \cup {c}
      BY <1>1, <1>9, <2>6, ForMoved
    <3>6. Cardinality(For(w, {"remove"}) \cup {c}) = Cardinality(For(w, {"remove"})) + 1
      BY <3>5, HavingInCalls, CallSizes
    <3>7. Entries(w)' = Entries(w) BY <2>4 DEF Entries
    <3>8. Expected(w)' = Expected(w) - 1
      <4>1. Cardinality(For(w, {"remove"})') = Cardinality(For(w, {"remove"})) + 1
        BY <3>5, <3>6
      <4> QED BY <1>1, <3>4, <3>7, <4>1, SizesAreNat DEF Expected
    <3>9. Expected(w) >= 1
      <4>1. For(w, {"remove"}) \cup {c} \subseteq For(w, Carrying)
        BY <2>1, <2>6 DEF For, At, Carrying, Leaving
      <4>2. Cardinality(For(w, {"remove"}) \cup {c}) =< Cardinality(For(w, Carrying))
        BY <4>1, HavingInCalls, CallSizes
      <4>3. Cardinality(For(w, Carrying)) =< Cardinality(Entries(w)) BY <1>1 DEF Own
      <4> QED BY <1>1, <3>6, <4>2, <4>3, SizesAreNat DEF Expected
    <3>10. ASSUME For(w, Down) = {} PROVE worker'[w].load = Expected(w)'
      <4>1. call[c].copy.load = Expected(w) BY <1>4, <3>1, <3>2, <3>10 DEF LoadOf
      <4>2. Less(call[c].copy.load) = call[c].copy.load - 1
        BY <2>2, <3>9, <4>1, LessIs
      <4> QED BY <2>3, <3>1, <3>8, <4>1, <4>2
    <3> QED BY <3>3, <3>10 DEF LoadOf
  <2> QED BY <2>5, <2>6
<1>10. CASE DoneRemove(c) /\ Moved(c, "remove", {"look"})
  <2>1. worker' = worker BY <1>10 DEF DoneRemove
  <2>2. PICK v \in Workers, s \in Tasks : v = call[c].worker /\ s = call[c].task
    <3>1. At(c, "remove") /\ "remove" \in JobSteps BY <1>10 DEF DoneRemove, JobSteps
    <3> QED BY <1>1, <3>1, CallHas
  <2>3. list' = [list EXCEPT ![v][s] = Left(@)] BY <1>10, <2>2 DEF DoneRemove
  <2>4. /\ list[v][s] > 0 => Cardinality(Entries(v))' = Cardinality(Entries(v)) - 1
        /\ \A u \in Workers \ {v} : Entries(u)' = Entries(u)
    BY <1>1, <2>2, <2>3, Removed DEF Lists
  <2>5. For(w, Down)' = For(w, Down)
    <3>1. "remove" \notin Down /\ {"look"} \cap Down = {} BY DEF Down
    <3> QED BY <1>1, <1>10, <3>1, ForMoved
  <2>6. For(w, {"push"})' = For(w, {"push"}) BY <1>1, <1>10, ForMoved
  <2>7. Expected(w)' = Expected(w)
    <3>1. CASE w # v
      <4>1. For(w, {"remove"})' = For(w, {"remove"})
        BY <1>1, <1>10, <2>2, <3>1, ForMoved
      <4> QED BY <2>4, <2>6, <3>1, <4>1 DEF Expected
    <3>2. CASE w = v
      <4>1. c \in For(w, {"remove"}) /\ For(w, {"remove"})' = For(w, {"remove"}) \ {c}
        BY <1>1, <1>10, <2>2, <3>2, ForMoved
      <4>2. Cardinality(For(w, {"remove"})') = Cardinality(For(w, {"remove"})) - 1
        BY <4>1, HavingInCalls, CallSizes
      <4>3. list[v][s] > 0
        <5>1. Cardinality(Having(v, s, Carrying)) =< list[v][s]
          BY <1>1, <2>2, <3>2 DEF Own
        <5>2. c \in Having(v, s, Carrying)
          BY <2>2, <4>1 DEF For, Having, Carrying, Leaving
        <5>3. Cardinality(Having(v, s, Carrying)) \in Nat \ {0}
          BY <5>2, HavingInCalls, CallSizes
        <5>4. list[v][s] \in Nat BY <1>1 DEF TypeInv, TypeOK
        <5> QED BY <5>1, <5>3, <5>4
      <4> QED BY <1>1, <2>4, <2>6, <3>2, <4>2, <4>3, SizesAreNat DEF Expected
    <3> QED BY <3>1, <3>2
  <2> QED BY <1>4, <2>1, <2>5, <2>7 DEF LoadOf
\* A SET of a record with another heartbeat, at a step away from the list.
<1>11. ASSUME NEW step \in Copied, At(c, step), list' = list,
              Set(c, [call[c].copy EXCEPT !.beat = now]),
              \A S \in SUBSET Between : For(w, S)' = For(w, S)
       PROVE  LoadOf(w)'
  <2>1. call[c].copy \in Record BY <1>1, <1>11, CallHas
  <2> DEFINE new == [call[c].copy EXCEPT !.beat = now]
  <2>2. new \in Record /\ new.load = call[c].copy.load BY <1>6, <2>1, CopyChanged
  <2>3. Set(c, new) BY <1>11
  <2> HIDE DEF new
  <2>4. /\ worker[w] = None => worker'[w] = None
        /\ w # call[c].worker => worker'[w] = worker[w]
        /\ w = call[c].worker => worker[w] = call[c].copy /\ worker'[w] = new
    BY <1>1, <1>11, <2>2, <2>3, SetLoads
  <2> QED BY <1>1, <1>11, <2>2, <2>4, LoadSame
<1>12. CASE BusyWrite(c) /\ Moved(c, "setBusy", {"work"})
  <2>1. \A S \in SUBSET Between : For(w, S)' = For(w, S) BY <1>2, <1>12 DEF Between
  <2> QED BY <1>5, <1>11, <1>12, <2>1 DEF BusyWrite
<1>13. CASE Settle(c) /\ Ended(c, "setSettled")
  <2>1. \A S \in SUBSET Between : For(w, S)' = For(w, S) BY <1>3, <1>13 DEF Between
  <2> QED BY <1>5, <1>11, <1>13, <2>1 DEF Settle
<1>14. ASSUME worker' = worker, list' = list, NEW from, NEW to, Moved(c, from, to),
              from \notin Between, to \cap Between = {}
       PROVE  LoadOf(w)'
  <2>1. \A S \in SUBSET Between : For(w, S)' = For(w, S) BY <1>2, <1>14
  <2> QED BY <1>1, <1>14, <2>1, LoadSame
<1>22. ASSUME worker' = worker, list' = list, NEW from, Ended(c, from), from \notin Between
       PROVE  LoadOf(w)'
  <2>1. \A S \in SUBSET Between : For(w, S)' = For(w, S) BY <1>3, <1>22
  <2> QED BY <1>1, <1>22, <2>1, LoadSame
<1>15. {"assign", "load", "start", "busy", "setBusy", "work", "done", "doneAgain", "unload",
        "look", "settle", "setSettled"} \cap Between = {}
  BY DEF Between
<1>16. CASE AssignRead(c) /\ (Moved(c, "assign", {"load"}) \/ Ended(c, "assign"))
  BY <1>14, <1>15, <1>16, <1>22 DEF AssignRead, pool
<1>17. CASE Start(c) /\ (Moved(c, "start", {"done"}) \/ Moved(c, "start", {"busy"}))
  BY <1>14, <1>15, <1>17, <1>22 DEF Start, pool
<1>18. CASE BusyRead(c) /\ (\/ Moved(c, "busy", {"doneAgain"})
                            \/ Moved(c, "busy", {"setBusy"}))
  BY <1>14, <1>15, <1>18, <1>22 DEF BusyRead, pool
<1>19. CASE Work(c) /\ Moved(c, "work", {"done"})
  BY <1>14, <1>15, <1>19, <1>22 DEF Work, pool
<1>20. CASE DoneRead(c) /\ (\/ Moved(c, "done", {"doneAgain", "unload"})
                            \/ Moved(c, "doneAgain", {"look", "unload"}))
  BY <1>14, <1>15, <1>20, <1>22 DEF DoneRead, pool
<1>21. CASE Look(c) /\ (\/ Moved(c, "look", {"settle"}) \/ Ended(c, "look")
                        \/ Moved(c, "settle", {"setSettled"}) \/ Ended(c, "settle"))
  BY <1>14, <1>15, <1>21, <1>22 DEF Look, pool
<1> QED
  BY <1>1, JobMoves, <1>7, <1>8, <1>9, <1>10, <1>12, <1>13, <1>16, <1>17, <1>18, <1>19,
     <1>20, <1>21

LEMMA LoadKeep ==
  ASSUME Inv, NEW c \in Calls, Keep(c), blurred \subseteq blurred',
         NEW w \in Workers \ blurred'
  PROVE  LoadOf(w)'
<1>1. TypeInv /\ Lists /\ Own /\ LoadIsExact BY DEF Inv
<1>2. LoadOf(w) BY <1>1, LoadIsLoadOf
<1>3. ASSUME NEW from, NEW to, Moved(c, from, to), from \notin Between, to \cap Between = {}
      PROVE  \A S \in SUBSET Between : For(w, S)' = For(w, S)
  BY <1>1, <1>3, ForMoved
<1>4. ASSUME NEW from, Ended(c, from), from \notin Between
      PROVE  \A S \in SUBSET Between : For(w, S)' = For(w, S)
  BY <1>1, <1>4, ForEnded
<1>5. ASSUME worker' = worker, list' = list, NEW from, NEW to, Moved(c, from, to),
             from \notin Between, to \cap Between = {}
      PROVE  LoadOf(w)'
  <2>1. \A S \in SUBSET Between : For(w, S)' = For(w, S) BY <1>3, <1>5
  <2> QED BY <1>1, <1>5, <2>1, LoadSame
<1>19. ASSUME worker' = worker, list' = list, NEW from, Ended(c, from), from \notin Between
       PROVE  LoadOf(w)'
  <2>1. \A S \in SUBSET Between : For(w, S)' = For(w, S) BY <1>4, <1>19
  <2> QED BY <1>1, <1>19, <2>1, LoadSame
<1>6. {"beat", "setBeat", "leave", "delete", "unindex", "check", "list", "requeue"}
        \cap Between = {}
  BY DEF Between
<1>7. CASE BeatRead(c) /\ (Moved(c, "beat", {"setBeat"}) \/ Ended(c, "beat"))
  BY <1>5, <1>6, <1>7, <1>19 DEF BeatRead, pool
<1>8. CASE BeatWrite(c) /\ Ended(c, "setBeat")
  <2>1. \A S \in SUBSET Between : For(w, S)' = For(w, S) BY <1>4, <1>6, <1>8
  <2>2. "setBeat" \in Copied BY DEF Copied
  <2>3. At(c, "setBeat") /\ call[c].copy \in Record
    BY <1>1, <1>8, <2>2, CallHas DEF BeatWrite
  <2> DEFINE new == [call[c].copy EXCEPT !.beat = now]
  <2>4. now \in 0 .. MaxTime BY <1>1 DEF TypeInv, TypeOK
  <2>5. new \in Record /\ new.load = call[c].copy.load BY <2>3, <2>4, CopyChanged
  <2>6. Set(c, new) /\ list' = list BY <1>8 DEF BeatWrite
  <2> HIDE DEF new
  <2>7. /\ worker[w] = None => worker'[w] = None
        /\ w # call[c].worker => worker'[w] = worker[w]
        /\ w = call[c].worker => worker[w] = call[c].copy /\ worker'[w] = new
    BY <1>1, <2>2, <2>3, <2>5, <2>6, SetLoads
  <2> QED BY <1>1, <2>1, <2>5, <2>6, <2>7, LoadSame
<1>9. CASE Unregister(c) /\ (Moved(c, "leave", {"delete"}) \/ Ended(c, "leave"))
  BY <1>5, <1>6, <1>9, <1>19 DEF Unregister, pool
<1>10. CASE Delete(c) /\ Moved(c, "delete", {"unindex"})
  <2>1. \A S \in SUBSET Between : For(w, S)' = For(w, S) BY <1>3, <1>6, <1>10
  <2>2. worker' = [worker EXCEPT ![call[c].worker] = None] /\ list' = list
    BY <1>10 DEF Delete
  <2>3. worker'[w] = None \/ worker'[w] = worker[w] BY <1>1, <2>2 DEF TypeInv, TypeOK
  <2> QED BY <1>1, <2>1, <2>2, <2>3, LoadSame
<1>11. CASE Unindex(c) /\ Ended(c, "unindex") BY <1>5, <1>6, <1>11, <1>19 DEF Unindex
<1>12. CASE CheckRead(c) /\ (Moved(c, "check", {"list"}) \/ Ended(c, "check"))
  BY <1>5, <1>6, <1>12, <1>19 DEF CheckRead, pool
<1>13. CASE Disconnect(c) /\ Moved(c, "list", {"requeue"})
  BY <1>5, <1>6, <1>13, <1>19 DEF Disconnect, pool
<1>14. CASE Requeue(c) /\ Moved(c, "requeue", {"requeue"})
  BY <1>5, <1>6, <1>14, <1>19 DEF Requeue, pool
<1>15. CASE Del(c) /\ Moved(c, "requeue", {"down"})
  <2>1. PICK v \in Workers : v = call[c].worker BY <1>1, <1>15, CallHas DEF Del
  <2>2. list' = [list EXCEPT ![v] = [t \in Tasks |-> 0]] /\ worker' = worker
    BY <1>15, <2>1 DEF Del
  <2>3. CASE w # v
    <3>1. Entries(w)' = Entries(w) BY <1>1, <2>2, <2>3, Cleared
    <3>2. /\ For(w, {"push"})' = For(w, {"push"})
          /\ For(w, {"remove"})' = For(w, {"remove"}) /\ For(w, Down)' = For(w, Down)
      BY <1>1, <1>15, <2>1, <2>3, ForMoved
    <3> QED BY <1>2, <2>2, <3>1, <3>2 DEF LoadOf, Expected
  <2>4. CASE w = v
    <3>1. "requeue" \notin Down /\ {"down"} \subseteq Down BY DEF Down
    <3>2. For(w, Down)' = For(w, Down) \cup {c}
      BY <1>1, <1>15, <2>1, <2>4, <3>1, ForMoved
    <3> QED BY <3>2 DEF LoadOf
  <2> QED BY <2>3, <2>4
<1>16. CASE DownRead(c) /\ Moved(c, "down", {"setDown"})
  <2>1. /\ For(w, {"push"})' = For(w, {"push"})
        /\ For(w, {"remove"})' = For(w, {"remove"})
    BY <1>1, <1>16, ForMoved
  <2>2. For(w, Down)' = For(w, Down)
    <3>1. "down" \in Down /\ {"setDown"} \subseteq Down BY DEF Down
    <3> QED BY <1>1, <1>16, <3>1, ForMoved
  <2>3. worker' = worker /\ list' = list BY <1>16 DEF DownRead, pool
  <2> QED BY <1>2, <2>1, <2>2, <2>3 DEF LoadOf, Expected, Entries
<1>17. CASE DownRead(c) /\ Ended(c, "down") /\ worker[call[c].worker] = None
  <2>1. worker' = worker /\ list' = list BY <1>17 DEF DownRead, pool
  <2>2. CASE w # call[c].worker
    <3>1. \A S \in SUBSET Between : For(w, S)' = For(w, S) BY <1>1, <1>17, <2>2, ForEnded
    <3> QED BY <1>1, <2>1, <3>1, LoadSame
  <2>3. CASE w = call[c].worker BY <1>17, <2>1, <2>3 DEF LoadOf
  <2> QED BY <2>2, <2>3
<1>18. CASE DownWrite(c) /\ Ended(c, "setDown")
  <2>1. "setDown" \in Copied BY DEF Copied
  <2>2. call[c].copy \in Record /\ call[c].worker \in Workers
    BY <1>1, <1>18, <2>1, CallHas DEF DownWrite
  <2>3. [call[c].copy EXCEPT !.load = 0].load = 0 BY <2>2, CopyChanged
  <2>4. worker' = [worker EXCEPT ![call[c].worker] = [call[c].copy EXCEPT !.load = 0]]
    BY <1>18 DEF DownWrite
  <2>5. list' = list BY <1>18 DEF DownWrite
  <2>6. CASE w # call[c].worker
    <3>1. \A S \in SUBSET Between : For(w, S)' = For(w, S) BY <1>1, <1>18, <2>6, ForEnded
    <3>2. worker'[w] = worker[w] BY <1>1, <2>4, <2>6 DEF TypeInv, TypeOK
    <3> QED BY <1>1, <2>5, <3>1, <3>2, LoadSame
  <2>7. CASE w = call[c].worker
    <3>1. Listed(w) = {} /\ For(w, InHand) = {} BY <1>18, <2>7 DEF DownWrite
    <3>2. For(w, {"push"}) = {} /\ For(w, {"remove"}) = {} BY <3>1 DEF For, InHand
    <3>3. For(w, {"push"})' = {} /\ For(w, {"remove"})' = {}
      BY <1>1, <1>18, <3>2, ForEnded
    <3>4. Entries(w)' = {}
      <4>1. \A t \in Tasks : ~(list[w][t] > 0) /\ list[w][t] \in Nat
        BY <1>1, <3>1 DEF Listed, TypeInv, TypeOK
      <4>2. \A t \in Tasks : 1 .. list[w][t] = {} BY <4>1
      <4> QED BY <2>5, <4>2 DEF Entries
    <3>5. Expected(w)' = 0 BY <3>3, <3>4, FS_EmptySet DEF Expected
    <3>6. worker'[w] = [call[c].copy EXCEPT !.load = 0]
      BY <1>1, <2>2, <2>4, <2>7 DEF TypeInv, TypeOK
    <3> QED BY <2>3, <3>5, <3>6 DEF LoadOf
  <2> QED BY <2>6, <2>7
<1> QED
  BY <1>1, KeepMoves, <1>7, <1>8, <1>9, <1>10, <1>11, <1>12, <1>13, <1>14, <1>15, <1>16,
     <1>17, <1>18

LEMMA LoadNext ==
  ASSUME Inv, Next
  PROVE  LoadIsExact'
<1>1. TypeInv /\ LoadIsExact BY DEF Inv
<1>2. blurred \subseteq blurred' BY <1>1, HistoryGrows
<1>3. SUFFICES ASSUME NEW w \in Workers \ blurred' PROVE LoadOf(w)'
  BY LoadIsLoadOf DEF LoadIsExact, LoadOf, Expected, Down
<1>4. ASSUME worker' = worker, list' = list, \A S \in SUBSET Between : For(w, S)' = For(w, S)
      PROVE  LoadOf(w)'
  BY <1>1, <1>2, <1>4, LoadSame
<1>5. CASE Tick
  <2>1. call' = call /\ worker' = worker /\ list' = list BY <1>5 DEF Tick, pool
  <2> QED BY <1>4, <2>1 DEF For
<1>6. ASSUME NEW c \in Calls, NEW v \in Workers, NEW t \in Tasks, Take(c, v, t)
      PROVE  LoadOf(w)'
  <2>1. Begun(c, "assign") /\ worker' = worker /\ list' = list
    BY <1>1, <1>6, TakeBegins DEF Take, pool
  <2>2. \A S \in SUBSET Between : For(w, S)' = For(w, S)
    BY <1>1, <2>1, ForBegun DEF Between
  <2> QED BY <1>4, <2>1, <2>2
<1>7. ASSUME NEW c \in Calls, NEW v \in Workers, NEW step \in {"beat", "leave", "check"},
             Ask(c, step, v)
      PROVE  LoadOf(w)'
  <2>1. Begun(c, step) /\ worker' = worker /\ list' = list
    BY <1>1, <1>7, AskBegins DEF Ask, pool
  <2>2. step \notin Between BY DEF Between
  <2>3. \A S \in SUBSET Between : For(w, S)' = For(w, S) BY <1>1, <2>1, <2>2, ForBegun
  <2> QED BY <1>4, <2>1, <2>3
<1>8. ASSUME NEW c \in Calls, Cut(c) PROVE LoadOf(w)'
  <2>1. Ended(c, call[c].step) /\ worker' = worker /\ list' = list
    BY <1>1, <1>8, CutEnds DEF Cut, pool
  <2>2. call[c].step \in Between => call[c].worker \in blurred'
    BY <1>8 DEF Cut, Between
  <2>3. \A S \in SUBSET Between : For(w, S)' = For(w, S)
    BY <1>1, <2>1, <2>2, ForEnded
  <2> QED BY <1>4, <2>1, <2>3
<1>9. index \subseteq Workers BY <1>1 DEF TypeInv, TypeOK
<1> QED BY <1>2, <1>5, <1>6, <1>7, <1>8, <1>9, LoadJob, LoadKeep DEF Next
-----------------------------------------------------------------------------
(* What has reached a list is found again.                                 *)

LEMMA SeenStays ==
  ASSUME NEW c \in Calls, Alone(c), ~(call'[c] # None /\ call'[c].step = "requeue"),
         NEW w, NEW t, Seen(w, t)
  PROVE  Seen(w, t)'
<1>1. \A d \in Calls \ {c} : call'[d] = call[d] BY DEF Alone
<1>2. ASSUME NEW d \in For(w, {"requeue"})' PROVE t \in call'[d].seen
  <2>1. d \in Calls \ {c} /\ call'[d] = call[d] BY <1>1, <1>2 DEF For
  <2>2. d \in For(w, {"requeue"}) BY <1>2, <2>1 DEF For
  <2> QED BY <2>1, <2>2 DEF Seen
<1> QED BY <1>2 DEF Seen

LEMMA SpareStays ==
  ASSUME TypeInv, NEW w \in Workers, NEW t \in Tasks, Spare(w, t),
         list'[w][t] = list[w][t], status'[t] = "queued" => status[t] = "queued",
         Having(w, t, Leaving)' \subseteq Having(w, t, Leaving),
         Having(w, t, Leaving \cup Running)' \subseteq Having(w, t, Leaving \cup Running)
  PROVE  Spare(w, t)'
<1>1. list[w][t] \in Nat BY DEF TypeInv, TypeOK
<1>2. /\ Cardinality(Having(w, t, Leaving)') =< Cardinality(Having(w, t, Leaving))
      /\ Cardinality(Having(w, t, Leaving)) \in Nat
      /\ Cardinality(Having(w, t, Leaving)') \in Nat
  BY HavingInCalls, CallSizes
<1>3. /\ Cardinality(Having(w, t, Leaving \cup Running)')
           =< Cardinality(Having(w, t, Leaving \cup Running))
      /\ Cardinality(Having(w, t, Leaving \cup Running)) \in Nat
      /\ Cardinality(Having(w, t, Leaving \cup Running)') \in Nat
  BY HavingInCalls, CallSizes
<1> QED BY <1>1, <1>2, <1>3 DEF Spare

\* A step that disturbs no list, and no job of t that the entries are counted for.
LEMMA KeptSame ==
  ASSUME TypeInv, NEW t \in Tasks, KeptOf(t), index' = index,
         \A w \in Workers : Seen(w, t) => Seen(w, t)',
         \A w \in Workers : Having(w, t, Carrying)' \subseteq Having(w, t, Carrying),
         Waiting(t)' => Waiting(t) /\ \A w \in Workers : Spare(w, t) => Spare(w, t)'
  PROVE  KeptOf(t)'
<1>1. ASSUME NEW w \in Workers, Having(w, t, Carrying)' # {} PROVE Seen(w, t)'
  BY <1>1 DEF KeptOf
<1>2. ASSUME Waiting(t)' PROVE \E w \in index' : Seen(w, t)' /\ Spare(w, t)'
  <2>1. PICK w \in index : Seen(w, t) /\ Spare(w, t) BY <1>2 DEF KeptOf
  <2>2. w \in Workers BY DEF TypeInv, TypeOK
  <2> QED BY <1>2, <2>1, <2>2
<1> QED BY <1>1, <1>2 DEF KeptOf

\* A step of a job changes nothing of another task.
LEMMA KeptOther ==
  ASSUME TypeInv, NEW c \in Calls, Job(c), NEW t \in Tasks, t # call[c].task, KeptOf(t),
         NEW from, NEW to, Moved(c, from, to) \/ Ended(c, from), "requeue" \notin to
  PROVE  KeptOf(t)'
<1>1. ASSUME NEW w \in Workers, NEW S
      PROVE  Having(w, t, S)' \subseteq Having(w, t, S)
  BY HavingMoved, HavingEnded
<1>2. \A w \in Workers : Seen(w, t) => Seen(w, t)'
  BY SeenStays DEF Moved, Ended
<1>3. /\ index' = index /\ (t \in assigned' <=> t \in assigned)
      /\ (t \in queue' <=> t \in queue) /\ status'[t] = status[t]
  BY DEF Job, AssignRead, AssignWrite, AssignPush, Start, BusyRead, BusyWrite, Work,
     DoneRead, DoneWrite, DoneRemove, Look, Settle, Retry, pool, tasks, history, TypeInv,
     TypeOK
<1>4. \A w \in Workers : list'[w][t] = list[w][t]
  BY DEF Job, AssignRead, AssignWrite, AssignPush, Start, BusyRead, BusyWrite, Work,
     DoneRead, DoneWrite, DoneRemove, Look, Settle, pool, TypeInv, TypeOK
<1>5. Waiting(t)' => Waiting(t) BY <1>3 DEF Waiting
<1>6. \A w \in Workers : Spare(w, t) => Spare(w, t)' BY <1>1, <1>3, <1>4, SpareStays
<1> QED BY <1>1, <1>2, <1>3, <1>5, <1>6, KeptSame

\* Three ways in which the step of a job concerns its own task: the task is on
\* its queue or completed now, the step is none that the entries are counted
\* for, or the job was running.
LEMMA KeptSettled ==
  ASSUME TypeInv, NEW c \in Calls, NEW t \in Tasks, KeptOf(t), index' = index,
         NEW from, NEW to, Moved(c, from, to), "requeue" \notin to,
         (from \in Carrying /\ to \subseteq Carrying) \/ to \cap Carrying = {},
         ~Waiting(t)'
  PROVE  KeptOf(t)'
<1>1. \A w \in Workers : Having(w, t, Carrying)' \subseteq Having(w, t, Carrying)
  BY HavingMoved
<1>2. \A w \in Workers : Seen(w, t) => Seen(w, t)' BY SeenStays DEF Moved
<1> QED BY <1>1, <1>2, KeptSame

LEMMA KeptQuiet ==
  ASSUME TypeInv, NEW c \in Calls, NEW t \in Tasks, KeptOf(t),
         index' = index, list' = list, status' = status, queue' = queue, assigned' = assigned,
         NEW from, NEW to, Moved(c, from, to) \/ Ended(c, from), "requeue" \notin to,
         \A S \in {Leaving, Leaving \cup Running, Carrying} :
           (from \in S /\ to \subseteq S) \/ to \cap S = {}
  PROVE  KeptOf(t)'
<1>1. ASSUME NEW w \in Workers, NEW S \in {Leaving, Leaving \cup Running, Carrying}
      PROVE  Having(w, t, S)' \subseteq Having(w, t, S)
  BY HavingMoved, HavingEnded
<1>2. \A w \in Workers : Seen(w, t) => Seen(w, t)' BY SeenStays DEF Moved, Ended
<1>3. Waiting(t)' => Waiting(t) BY DEF Waiting
<1>4. \A w \in Workers : Spare(w, t) => Spare(w, t)' BY <1>1, SpareStays
<1> QED BY <1>1, <1>2, <1>3, <1>4, KeptSame

LEMMA KeptPush ==
  ASSUME TypeInv, Lists, Own, NEW c \in Calls, AssignPush(c), Moved(c, "push", {"start"}),
         NEW t \in Tasks \ muddled', t = call[c].task, KeptOf(t)
  PROVE  KeptOf(t)'
<1>1. PICK v \in Workers : v = call[c].worker
  BY CallHas DEF AssignPush
<1>2. /\ list' = [list EXCEPT ![v][t] = list[v][t] + 1] /\ index' = index
      /\ v \in index /\ For(v, {"requeue"}) = {} /\ muddled' = muddled
  BY <1>1 DEF AssignPush
<1>3. list'[v][t] = list[v][t] + 1 /\ list[v][t] \in Nat BY <1>2 DEF TypeInv, TypeOK
<1>4. For(v, {"requeue"})' = {} BY <1>1, <1>2, ForMoved
<1>5. Seen(v, t)' BY <1>4 DEF Seen
<1>6. Cardinality(Having(v, t, Carrying)) =< list[v][t] BY <1>2 DEF Own
<1>7. ASSUME NEW S \in {Leaving, Leaving \cup Running}
      PROVE  Cardinality(Having(v, t, S))' < list'[v][t]
  <2>1. "push" \notin S /\ {"start"} \cap S = {} /\ S \subseteq Carrying
    BY DEF Leaving, Running, Carrying
  <2>2. Having(v, t, S)' = Having(v, t, S) BY <2>1, HavingMoved
  <2>3. Having(v, t, S) \subseteq Having(v, t, Carrying) BY <2>1 DEF Having, For
  <2>4. /\ Cardinality(Having(v, t, S)) =< Cardinality(Having(v, t, Carrying))
        /\ Cardinality(Having(v, t, S)) \in Nat
        /\ Cardinality(Having(v, t, Carrying)) \in Nat
    BY <2>3, HavingInCalls, CallSizes
  <2> QED BY <1>3, <1>6, <2>2, <2>4
<1>8. Spare(v, t)' BY <1>7 DEF Spare
<1>9. ASSUME NEW w \in Workers, Having(w, t, Carrying)' # {} PROVE Seen(w, t)'
  <2>1. CASE w = v BY <1>5, <2>1
  <2>2. CASE w # v
    <3>1. Having(w, t, Carrying)' = Having(w, t, Carrying) BY <1>1, <2>2, HavingMoved
    <3>2. Seen(w, t) BY <1>9, <3>1 DEF KeptOf
    <3> QED BY <3>2, SeenStays DEF Moved
  <2> QED BY <2>1, <2>2
<1> QED BY <1>2, <1>5, <1>8, <1>9 DEF KeptOf
LEMMA KeptRemove ==
  ASSUME TypeInv, Lists, Own, NEW c \in Calls, DoneRemove(c), Moved(c, "remove", {"look"}),
         NEW t \in Tasks \ muddled, t = call[c].task, KeptOf(t)
  PROVE  KeptOf(t)'
<1>1. PICK v \in Workers : v = call[c].worker
  BY CallHas DEF DoneRemove
<1>2. /\ list' = [list EXCEPT ![v][t] = Left(@)] /\ index' = index
      /\ status' = status /\ queue' = queue /\ assigned' = assigned
  BY <1>1 DEF DoneRemove, tasks, history
<1>3. /\ list'[v][t] = IF list[v][t] > 0 THEN list[v][t] - 1 ELSE 0
      /\ list[v][t] \in Nat
      /\ \A w \in Workers \ {v} : list'[w][t] = list[w][t]
  BY <1>2 DEF Left, TypeInv, TypeOK
<1>4. /\ "remove" \in Leaving /\ "remove" \in Leaving \cup Running /\ "remove" \in Carrying
      /\ {"look"} \cap Carrying = {} /\ {"look"} \cap Leaving = {}
      /\ {"look"} \cap (Leaving \cup Running) = {}
  BY DEF Leaving, Running, Carrying
<1>5. \A w \in Workers : Having(w, t, Carrying)' \subseteq Having(w, t, Carrying)
  BY <1>4, HavingMoved
<1>6. \A w \in Workers : Seen(w, t) => Seen(w, t)' BY SeenStays DEF Moved
<1>7. Waiting(t)' => Waiting(t) BY <1>2 DEF Waiting
<1>8. ASSUME NEW w \in Workers, Spare(w, t) PROVE Spare(w, t)'
  <2>1. CASE w # v
    <3>1. /\ Having(w, t, Leaving)' = Having(w, t, Leaving)
          /\ Having(w, t, Leaving \cup Running)' = Having(w, t, Leaving \cup Running)
      BY <1>1, <2>1, HavingMoved
    <3> QED BY <1>2, <1>3, <1>8, <2>1, <3>1, SpareStays
  <2>2. CASE w = v
    <3>1. ASSUME NEW S \in {Leaving, Leaving \cup Running},
                 Cardinality(Having(v, t, S)) < list[v][t]
          PROVE  Cardinality(Having(v, t, S))' < list'[v][t]
      <4>1. c \in Having(v, t, S) /\ Having(v, t, S)' = Having(v, t, S) \ {c}
        BY <1>1, <1>4, HavingMoved
      <4>2. /\ Cardinality(Having(v, t, S)') = Cardinality(Having(v, t, S)) - 1
            /\ Cardinality(Having(v, t, S)) \in Nat
        BY <4>1, HavingInCalls, CallSizes
      <4> QED BY <1>3, <3>1, <4>2
    <3> QED BY <1>2, <1>8, <2>2, <3>1 DEF Spare
  <2> QED BY <2>1, <2>2
<1> QED BY <1>2, <1>5, <1>6, <1>7, <1>8, KeptSame

\* A job that finds its task not processing leaves without settling it: it was
\* counted already when the task is queued again.
LEMMA KeptWorked ==
  ASSUME TypeInv, NEW c \in Calls, Work(c), Moved(c, "work", {"done"}),
         NEW t \in Tasks, t = call[c].task, status[t] # "processing", KeptOf(t)
  PROVE  KeptOf(t)'
<1>1. /\ index' = index /\ list' = list /\ status' = status /\ queue' = queue
      /\ assigned' = assigned
  BY DEF Work, pool, tasks, history
<1>2. /\ "work" \in Leaving \cup Running /\ {"done"} \subseteq Leaving \cup Running
      /\ "work" \in Carrying /\ {"done"} \subseteq Carrying
  BY DEF Leaving, Running, Carrying
<1>3. ASSUME NEW w \in Workers
      PROVE  /\ Having(w, t, Leaving \cup Running)' = Having(w, t, Leaving \cup Running)
             /\ Having(w, t, Carrying)' = Having(w, t, Carrying)
  BY <1>2, HavingMoved
<1>4. \A w \in Workers : Seen(w, t) => Seen(w, t)' BY SeenStays DEF Moved
<1>5. ASSUME Waiting(t)'
      PROVE  Waiting(t) /\ \A w \in Workers : Spare(w, t) => Spare(w, t)'
  <2>1. Waiting(t) BY <1>1, <1>5 DEF Waiting
  <2>2. status[t] = "queued" BY <2>1 DEF Waiting, TypeInv, TypeOK
  <2>3. ASSUME NEW w \in Workers, Spare(w, t) PROVE Spare(w, t)'
    <3>1. Cardinality(Having(w, t, Leaving \cup Running)) < list[w][t]
      BY <2>2, <2>3 DEF Spare
    <3>2. Having(w, t, Leaving)' \subseteq Having(w, t, Leaving \cup Running)'
      BY DEF Having, For
    <3>3. Having(w, t, Leaving)' \subseteq Having(w, t, Leaving \cup Running)
      BY <1>3, <3>2
    <3>4. /\ Cardinality(Having(w, t, Leaving)')
               =< Cardinality(Having(w, t, Leaving \cup Running))
          /\ Cardinality(Having(w, t, Leaving)') \in Nat
          /\ Cardinality(Having(w, t, Leaving \cup Running)) \in Nat
      BY <3>3, HavingInCalls, CallSizes
    <3>5. list[w][t] \in Nat BY DEF TypeInv, TypeOK
    <3> QED BY <1>1, <1>3, <3>1, <3>4, <3>5 DEF Spare
  <2> QED BY <2>1, <2>3
<1> QED BY <1>1, <1>3, <1>4, <1>5, KeptSame

LEMMA KeptStart ==
  ASSUME TypeInv, NEW c \in Calls, Start(c), Moved(c, "start", {"busy"}),
         NEW t \in Tasks, t = call[c].task, status[t] # "completed", KeptOf(t)
  PROVE  KeptOf(t)'
<1>1. /\ index' = index /\ list' = list /\ status' = [status EXCEPT ![t] = "processing"]
      /\ queue' = queue /\ assigned' = assigned
  BY DEF Start, pool, history
<1>2. status'[t] = "processing" BY <1>1 DEF TypeInv, TypeOK
<1>3. /\ "start" \notin Leaving /\ {"busy"} \cap Leaving = {}
      /\ "start" \in Carrying /\ {"busy"} \subseteq Carrying
  BY DEF Leaving, Running, Carrying
<1>4. ASSUME NEW w \in Workers
      PROVE  /\ Having(w, t, Leaving)' = Having(w, t, Leaving)
             /\ Having(w, t, Carrying)' = Having(w, t, Carrying)
  BY <1>3, HavingMoved
<1>5. \A w \in Workers : Seen(w, t) => Seen(w, t)' BY SeenStays DEF Moved
<1>6. Waiting(t)' => Waiting(t) BY <1>1 DEF Waiting
<1>7. \A w \in Workers : Spare(w, t) => Spare(w, t)' BY <1>1, <1>2, <1>4 DEF Spare
<1> QED BY <1>1, <1>4, <1>5, <1>6, <1>7, KeptSame

LEMMA KeptJob ==
  ASSUME Inv, NEW c \in Calls, Job(c), muddled \subseteq muddled', NEW t \in Tasks \ muddled'
  PROVE  KeptOf(t)'
<1>1. TypeInv /\ Lists /\ Own /\ Kept BY DEF Inv
<1>2. KeptOf(t) BY <1>1 DEF Kept
<1>3. CASE t # call[c].task
  <2>1. \E from, to : (Moved(c, from, to) \/ Ended(c, from)) /\ "requeue" \notin to
    <3>1. \A to \in {{"load"}, {"push"}, {"start"}, {"done"}, {"busy"}, {"doneAgain"},
                     {"setBusy"}, {"work"}, {"doneAgain", "unload"}, {"look", "unload"},
                     {"remove"}, {"look"}, {"settle"}, {"setSettled"}} : "requeue" \notin to
      OBVIOUS
    <3> QED BY <1>1, <3>1, JobMoves
  <2> QED BY <1>1, <1>2, <1>3, <2>1, KeptOther
<1>4. CASE t = call[c].task
  <2>1. ASSUME NEW from, NEW to, Moved(c, from, to) \/ Ended(c, from), "requeue" \notin to,
               \A S \in {Leaving, Leaving \cup Running, Carrying} :
                 (from \in S /\ to \subseteq S) \/ to \cap S = {},
               index' = index, list' = list, tasks' = tasks, assigned' = assigned
        PROVE  KeptOf(t)'
    BY <1>1, <1>2, <2>1, KeptQuiet DEF tasks
  <2>2. CASE AssignRead(c) /\ (Moved(c, "assign", {"load"}) \/ Ended(c, "assign"))
    <3>1. \A S \in {Leaving, Leaving \cup Running, Carrying} : {"load"} \cap S = {}
      BY DEF Leaving, Running, Carrying
    <3> QED BY <2>1, <2>2, <3>1 DEF AssignRead, pool, history
  <2>3. CASE AssignWrite(c) /\ Moved(c, "load", {"push"})
    <3>1. \A S \in {Leaving, Leaving \cup Running, Carrying} : {"push"} \cap S = {}
      BY DEF Leaving, Running, Carrying
    <3> QED BY <2>1, <2>3, <3>1 DEF AssignWrite
  <2>4. CASE AssignPush(c) /\ Moved(c, "push", {"start"})
    BY <1>1, <1>2, <1>4, <2>4, KeptPush
  <2>5. CASE Start(c) /\ (Moved(c, "start", {"done"}) \/ Moved(c, "start", {"busy"}))
    <3>1. CASE status[t] = "completed"
      <4>1. status' = status /\ index' = index
        BY <1>4, <2>5, <3>1 DEF Start, pool
      <4>2. ~Waiting(t)' BY <3>1, <4>1 DEF Waiting
      <4>3. "start" \in Carrying /\ {"done"} \subseteq Carrying /\ {"busy"} \subseteq Carrying
        BY DEF Leaving, Running, Carrying
      <4> QED BY <1>1, <1>2, <2>5, <4>1, <4>2, <4>3, KeptSettled
    <3>2. CASE status[t] # "completed"
      <4>1. Moved(c, "start", {"busy"})
        <5>1. Goto(c, "busy") /\ At(c, "start") BY <1>4, <2>5, <3>2 DEF Start
        <5>2. "busy" \in Steps /\ "start" \in JobSteps /\ "busy" \notin Copied
          BY DEF Steps, JobSteps, Copied
        <5> QED BY <1>1, <5>1, <5>2, GotoMoves
      <4> QED BY <1>1, <1>2, <1>4, <2>5, <3>2, <4>1, KeptStart
    <3> QED BY <3>1, <3>2
  <2>6. ASSUME NEW from, NEW to, Moved(c, from, to), "requeue" \notin to,
               (from \in Carrying /\ to \subseteq Carrying) \/ to \cap Carrying = {},
               Retry(t), index' = index
        PROVE  KeptOf(t)'
    <3>1. ~Waiting(t)' BY <2>6 DEF Retry, Waiting
    <3> QED BY <1>1, <1>2, <2>6, <3>1, KeptSettled
  <2>7. CASE BusyRead(c) /\ (\/ Moved(c, "busy", {"doneAgain"})
                             \/ Moved(c, "busy", {"setBusy"}))
    <3>1. CASE worker[call[c].worker] = None
      <4>1. /\ "busy" \in Carrying /\ {"doneAgain"} \subseteq Carrying
            /\ {"setBusy"} \subseteq Carrying
        BY DEF Leaving, Running, Carrying
      <4> QED BY <1>4, <2>6, <2>7, <3>1, <4>1 DEF BusyRead, pool
    <3>2. CASE worker[call[c].worker] # None
      <4>1. Moved(c, "busy", {"setBusy"})
        <5>1. Get(c, "setBusy") /\ At(c, "busy") BY <2>7, <3>2 DEF BusyRead
        <5>2. "setBusy" \in Steps /\ "busy" \in JobSteps BY DEF Steps, JobSteps
        <5> QED BY <1>1, <3>2, <5>1, <5>2, GetMoves
      <4>2. \A S \in {Leaving, Leaving \cup Running, Carrying} :
              ("busy" \in S /\ {"setBusy"} \subseteq S) \/ {"setBusy"} \cap S = {}
        BY DEF Leaving, Running, Carrying
      <4> QED BY <2>1, <2>7, <3>2, <4>1, <4>2 DEF BusyRead, pool, history
    <3> QED BY <3>1, <3>2
  <2>8. CASE BusyWrite(c) /\ Moved(c, "setBusy", {"work"})
    <3>1. \A S \in {Leaving, Leaving \cup Running, Carrying} :
            ("setBusy" \in S /\ {"work"} \subseteq S) \/ {"work"} \cap S = {}
      BY DEF Leaving, Running, Carrying
    <3> QED BY <2>1, <2>8, <3>1 DEF BusyWrite
  <2>9. CASE Work(c) /\ Moved(c, "work", {"done"})
    <3>1. "work" \in Carrying /\ {"done"} \subseteq Carrying
      BY DEF Leaving, Running, Carrying
    <3>2. index' = index BY <2>9 DEF Work, pool
    <3>3. CASE status[t] # "processing" BY <1>1, <1>2, <1>4, <2>9, <3>3, KeptWorked
    <3>4. CASE Retry(t) BY <2>6, <2>9, <3>1, <3>2, <3>4
    <3>5. CASE status' = [status EXCEPT ![t] = "completed"]
      <4>1. ~Waiting(t)' BY <1>1, <3>5 DEF Waiting, TypeInv, TypeOK
      <4> QED BY <1>1, <1>2, <2>9, <3>1, <3>2, <4>1, KeptSettled
    <3> QED BY <1>4, <2>9, <3>3, <3>4, <3>5 DEF Work
  <2>10. CASE DoneRead(c) /\ (\/ Moved(c, "done", {"doneAgain", "unload"})
                              \/ Moved(c, "doneAgain", {"look", "unload"}))
    <3>1. index' = index /\ list' = list /\ assigned' = assigned
      BY <2>10 DEF DoneRead, pool, history
    <3>2. CASE Retry(t)
      <4>1. \/ Moved(c, "done", {"doneAgain", "unload"})
            \/ Moved(c, "doneAgain", {"look"}) \/ Moved(c, "doneAgain", {"unload"})
        BY <2>10 DEF Moved
      <4>2. /\ "done" \in Carrying /\ {"doneAgain", "unload"} \subseteq Carrying
            /\ {"look"} \cap Carrying = {} /\ "doneAgain" \in Carrying
            /\ {"unload"} \subseteq Carrying
        BY DEF Leaving, Running, Carrying
      <4> QED BY <2>6, <3>1, <3>2, <4>1, <4>2
    <3>3. CASE tasks' = tasks
      <4>1. \/ Moved(c, "done", {"doneAgain", "unload"})
            \/ Moved(c, "doneAgain", {"look"}) \/ Moved(c, "doneAgain", {"unload"})
        BY <2>10 DEF Moved
      <4>2. \A S \in {Leaving, Leaving \cup Running, Carrying} :
              /\ "done" \in S /\ {"doneAgain", "unload"} \subseteq S
              /\ {"look"} \cap S = {} /\ "doneAgain" \in S /\ {"unload"} \subseteq S
        BY DEF Leaving, Running, Carrying
      <4> QED BY <2>1, <3>1, <3>3, <4>1, <4>2
    <3> QED BY <1>4, <2>10, <3>2, <3>3 DEF DoneRead
  <2>11. CASE DoneWrite(c) /\ Moved(c, "unload", {"remove"})
    <3>1. \A S \in {Leaving, Leaving \cup Running, Carrying} :
            "unload" \in S /\ {"remove"} \subseteq S
      BY DEF Leaving, Running, Carrying
    <3> QED BY <2>1, <2>11, <3>1 DEF DoneWrite
  <2>12. CASE DoneRemove(c) /\ Moved(c, "remove", {"look"})
    BY <1>1, <1>2, <1>4, <2>12, KeptRemove
  <2>13. CASE Look(c) /\ (\/ Moved(c, "look", {"settle"}) \/ Ended(c, "look")
                          \/ Moved(c, "settle", {"setSettled"}) \/ Ended(c, "settle"))
    <3>1. \A S \in {Leaving, Leaving \cup Running, Carrying} :
            {"settle"} \cap S = {} /\ {"setSettled"} \cap S = {}
      BY DEF Leaving, Running, Carrying
    <3> QED BY <2>1, <2>13, <3>1 DEF Look, pool, history
  <2>14. CASE Settle(c) /\ Ended(c, "setSettled")
    <3>1. \A S : {} \cap S = {} OBVIOUS
    <3>2. "requeue" \notin {} OBVIOUS
    <3> QED BY <2>1, <2>14, <3>1, <3>2 DEF Settle
  <2> QED
    BY <1>1, JobMoves, <2>2, <2>3, <2>4, <2>5, <2>7, <2>8, <2>9, <2>10, <2>11, <2>12,
       <2>13, <2>14
<1> QED BY <1>3, <1>4
\* The other calls own no entry.
LEMMA KeptBeside ==
  ASSUME TypeInv, NEW t \in Tasks, KeptOf(t), index' = index,
         \A w \in Workers : Seen(w, t) => Seen(w, t)',
         \A w \in Workers, S \in SUBSET Carrying :
           Having(w, t, S)' \subseteq Having(w, t, S),
         list' = list, ~Waiting(t)' \/ (Waiting(t) /\ status' = status)
  PROVE  KeptOf(t)'
<1>1. Leaving \in SUBSET Carrying /\ (Leaving \cup Running) \in SUBSET Carrying
      /\ Carrying \in SUBSET Carrying
  BY DEF Leaving, Running, Carrying
<1>2. ASSUME Waiting(t)', NEW w \in Workers, Spare(w, t) PROVE Spare(w, t)'
  BY <1>1, <1>2, SpareStays
<1> QED BY <1>1, <1>2, KeptSame

LEMMA KeptKeep ==
  ASSUME Inv, NEW c \in Calls, Keep(c), muddled \subseteq muddled', NEW t \in Tasks \ muddled'
  PROVE  KeptOf(t)'
<1>1. TypeInv /\ Lists /\ Own /\ Kept BY DEF Inv
<1>2. KeptOf(t) BY <1>1 DEF Kept
<1>3. KeepSteps \cap Carrying = {} BY DEF KeepSteps, Leaving, Running, Carrying
<1>4. ASSUME NEW from, NEW to \in SUBSET KeepSteps, Moved(c, from, to) \/ Ended(c, from)
      PROVE  \A w \in Workers, S \in SUBSET Carrying :
               Having(w, t, S)' \subseteq Having(w, t, S)
  <2>1. \A S \in SUBSET Carrying : to \cap S = {} BY <1>3
  <2> QED BY <1>1, <1>4, <2>1, HavingMoved, HavingEnded
<1>5. ASSUME NEW from, NEW to \in SUBSET KeepSteps, Moved(c, from, to) \/ Ended(c, from),
             "requeue" \notin to, index' = index, list' = list, tasks' = tasks,
             assigned' = assigned
      PROVE  KeptOf(t)'
  <2>1. \A w \in Workers : Seen(w, t) => Seen(w, t)' BY <1>5, SeenStays DEF Moved, Ended
  <2>2. ~Waiting(t)' \/ (Waiting(t) /\ status' = status) BY <1>5 DEF tasks, Waiting
  <2> QED BY <1>1, <1>2, <1>4, <1>5, <2>1, <2>2, KeptBeside
<1>6. {} \in SUBSET KeepSteps /\ "requeue" \notin {} OBVIOUS
<1>7. CASE BeatRead(c) /\ (Moved(c, "beat", {"setBeat"}) \/ Ended(c, "beat"))
  <2>1. {"setBeat"} \in SUBSET KeepSteps /\ "requeue" \notin {"setBeat"} BY DEF KeepSteps
  <2> QED BY <1>5, <1>7, <2>1 DEF BeatRead, pool, history
<1>8. CASE BeatWrite(c) /\ Ended(c, "setBeat") BY <1>5, <1>6, <1>8 DEF BeatWrite
<1>9. CASE Unregister(c) /\ (Moved(c, "leave", {"delete"}) \/ Ended(c, "leave"))
  <2>1. {"delete"} \in SUBSET KeepSteps /\ "requeue" \notin {"delete"} BY DEF KeepSteps
  <2> QED BY <1>5, <1>9, <2>1 DEF Unregister, pool, history
<1>10. CASE Delete(c) /\ Moved(c, "delete", {"unindex"})
  <2>1. {"unindex"} \in SUBSET KeepSteps /\ "requeue" \notin {"unindex"} BY DEF KeepSteps
  <2> QED BY <1>5, <1>10, <2>1 DEF Delete, history
<1>11. CASE Unindex(c) /\ Ended(c, "unindex")
  <2>1. PICK v \in Workers : v = call[c].worker BY <1>1, <1>11, CallHas DEF Unindex
  <2>2. /\ index' = index \ {v} /\ t \notin Listed(v) /\ list' = list
        /\ status' = status /\ queue' = queue /\ assigned' = assigned
    BY <1>11, <2>1 DEF Unindex, tasks
  <2>3. \A w \in Workers : Seen(w, t) => Seen(w, t)' BY <1>11, SeenStays DEF Ended
  <2>4. \A w \in Workers, S \in SUBSET Carrying : Having(w, t, S)' \subseteq Having(w, t, S)
    BY <1>4, <1>6, <1>11
  <2>5. /\ Leaving \in SUBSET Carrying /\ (Leaving \cup Running) \in SUBSET Carrying
        /\ Carrying \in SUBSET Carrying
    BY DEF Leaving, Running, Carrying
  <2>6. ASSUME NEW w \in Workers, Having(w, t, Carrying)' # {} PROVE Seen(w, t)'
    BY <1>2, <2>3, <2>4, <2>5, <2>6 DEF KeptOf
  <2>7. ASSUME Waiting(t)' PROVE \E w \in index' : Seen(w, t)' /\ Spare(w, t)'
    <3>1. Waiting(t) BY <2>2, <2>7 DEF Waiting
    <3>2. PICK w \in index : Seen(w, t) /\ Spare(w, t) BY <1>2, <3>1 DEF KeptOf
    <3>3. w \in Workers BY <1>1 DEF TypeInv, TypeOK
    <3>4. list[w][t] > 0
      <4>1. Cardinality(Having(w, t, Leaving)) \in Nat BY HavingInCalls, CallSizes
      <4>2. list[w][t] \in Nat BY <1>1, <3>3 DEF TypeInv, TypeOK
      <4> QED BY <3>2, <4>1, <4>2 DEF Spare
    <3>5. w # v BY <2>2, <3>4 DEF Listed
    <3>6. Spare(w, t)' BY <1>1, <2>2, <2>4, <2>5, <3>2, <3>3, SpareStays
    <3> QED BY <2>2, <2>3, <3>2, <3>3, <3>5, <3>6
  <2> QED BY <2>6, <2>7 DEF KeptOf
<1>12. CASE CheckRead(c) /\ (Moved(c, "check", {"list"}) \/ Ended(c, "check"))
  <2>1. {"list"} \in SUBSET KeepSteps /\ "requeue" \notin {"list"} BY DEF KeepSteps
  <2> QED BY <1>5, <1>12, <2>1 DEF CheckRead, pool, history
<1>13. CASE Disconnect(c) /\ Moved(c, "list", {"requeue"})
  <2>1. PICK v \in Workers : v = call[c].worker BY <1>1, <1>13, CallHas DEF Disconnect
  <2>2. /\ index' = index /\ list' = list /\ status' = status /\ queue' = queue
        /\ assigned' = assigned /\ muddled' = muddled
    BY <1>13 DEF Disconnect, pool, tasks, history
  <2>3. call'[c].seen = Listed(v)
    BY <1>1, <1>13, <2>1 DEF Disconnect, At, TypeInv, TypeOK, CallRecord
  <2>4. \A d \in Calls \ {c} : call'[d] = call[d] BY <1>13 DEF Moved, Alone
  <2>5. call'[c].worker = v BY <1>13, <2>1 DEF Moved
  <2>6. ASSUME NEW w \in Workers, Seen(w, t), list[w][t] > 0 PROVE Seen(w, t)'
    <3>1. ASSUME NEW d \in For(w, {"requeue"})' PROVE t \in call'[d].seen
      <4>1. CASE d = c
        <5>1. w = v BY <2>5, <3>1, <4>1 DEF For
        <5> QED BY <2>3, <2>6, <4>1, <5>1 DEF Listed
      <4>2. CASE d # c
        <5>1. d \in For(w, {"requeue"}) /\ call'[d] = call[d]
          BY <2>4, <3>1, <4>2 DEF For
        <5> QED BY <2>6, <5>1 DEF Seen
      <4> QED BY <4>1, <4>2
    <3> QED BY <3>1 DEF Seen
  <2>7. "requeue" \in KeepSteps BY DEF KeepSteps
  <2>8. \A w \in Workers, S \in SUBSET Carrying : Having(w, t, S)' \subseteq Having(w, t, S)
    BY <1>4, <1>13, <2>7
  <2>9. /\ Leaving \in SUBSET Carrying /\ (Leaving \cup Running) \in SUBSET Carrying
        /\ Carrying \in SUBSET Carrying
    BY DEF Leaving, Running, Carrying
  <2>10. ASSUME NEW w \in Workers, Having(w, t, Carrying)' # {} PROVE Seen(w, t)'
    <3>1. Having(w, t, Carrying) # {} BY <2>8, <2>9, <2>10
    <3>2. Cardinality(Having(w, t, Carrying)) \in Nat \ {0}
      BY <3>1, HavingInCalls, CallSizes
    <3>3. Cardinality(Having(w, t, Carrying)) =< list[w][t] BY <1>1, <2>2 DEF Own
    <3>4. list[w][t] \in Nat BY <1>1 DEF TypeInv, TypeOK
    <3>5. Seen(w, t) BY <1>2, <3>1 DEF KeptOf
    <3> QED BY <2>6, <3>2, <3>3, <3>4, <3>5
  <2>11. ASSUME Waiting(t)' PROVE \E w \in index' : Seen(w, t)' /\ Spare(w, t)'
    <3>1. Waiting(t) BY <2>2, <2>11 DEF Waiting
    <3>2. PICK w \in index : Seen(w, t) /\ Spare(w, t) BY <1>2, <3>1 DEF KeptOf
    <3>3. w \in Workers BY <1>1 DEF TypeInv, TypeOK
    <3>4. list[w][t] > 0
      <4>1. Cardinality(Having(w, t, Leaving)) \in Nat BY HavingInCalls, CallSizes
      <4>2. list[w][t] \in Nat BY <1>1, <3>3 DEF TypeInv, TypeOK
      <4> QED BY <3>2, <4>1, <4>2 DEF Spare
    <3>5. Spare(w, t)' BY <1>1, <2>2, <2>8, <2>9, <3>2, <3>3, SpareStays
    <3> QED BY <2>2, <2>6, <3>2, <3>3, <3>4, <3>5
  <2> QED BY <2>10, <2>11 DEF KeptOf
<1>14. CASE Requeue(c) /\ Moved(c, "requeue", {"requeue"})
  <2>1. PICK r \in call[c].seen :
          /\ Retry(r) /\ call' = [call EXCEPT ![c].seen = call[c].seen \ {r}]
          /\ muddled' = IF With(r) = {} THEN muddled ELSE muddled \cup {r}
    BY <1>14 DEF Requeue
  <2>2. call[c] \in CallRecord /\ call[c] # None /\ r \in Tasks
    BY <1>1, <1>14, CallHas DEF Requeue, At
  <2>3. /\ index' = index /\ list' = list /\ assigned' = assigned
    BY <1>14 DEF Requeue, pool
  <2>4. call'[c].seen = call[c].seen \ {r}
    BY <1>1, <2>1, <2>2 DEF TypeInv, TypeOK, CallRecord
  <2>5. \A d \in Calls \ {c} : call'[d] = call[d] BY <1>14 DEF Moved, Alone
  <2>6. "requeue" \in KeepSteps BY DEF KeepSteps
  <2>7. \A w \in Workers, S \in SUBSET Carrying : Having(w, t, S)' \subseteq Having(w, t, S)
    BY <1>4, <1>14, <2>6
  <2>8. CASE t = r
    <3>1. With(t) = {} BY <2>1, <2>8
    <3>2. \A w \in Workers : Having(w, t, Carrying) = {}
      BY <3>1 DEF Having, For, With
    <3>3. \A w \in Workers : Having(w, t, Carrying)' = {} BY <2>7, <3>2
    <3>4. ~Waiting(t)' BY <2>1, <2>8 DEF Retry, Waiting
    <3> QED BY <3>3, <3>4 DEF KeptOf
  <2>9. CASE t # r
    <3>1. ASSUME NEW w \in Workers, Seen(w, t) PROVE Seen(w, t)'
      <4>1. ASSUME NEW d \in For(w, {"requeue"})' PROVE t \in call'[d].seen
        <5>1. For(w, {"requeue"})' = For(w, {"requeue"}) BY <1>1, <1>14, ForMoved
        <5>2. t \in call[d].seen BY <3>1, <4>1, <5>1 DEF Seen
        <5> QED BY <2>4, <2>5, <2>9, <4>1, <5>2 DEF For
      <4> QED BY <4>1 DEF Seen
    <3>2. (t \in queue' <=> t \in queue) /\ status'[t] = status[t]
      BY <1>1, <2>1, <2>9 DEF Retry, TypeInv, TypeOK
    <3>3. Waiting(t)' => Waiting(t) BY <2>3, <3>2 DEF Waiting
    <3>4. /\ Leaving \in SUBSET Carrying /\ (Leaving \cup Running) \in SUBSET Carrying
          /\ Carrying \in SUBSET Carrying
      BY DEF Leaving, Running, Carrying
    <3>5. \A w \in Workers : Spare(w, t) => Spare(w, t)'
      BY <1>1, <2>3, <2>7, <3>2, <3>4, SpareStays
    <3> QED BY <1>1, <1>2, <2>3, <2>7, <3>1, <3>3, <3>4, <3>5, KeptSame
  <2> QED BY <2>8, <2>9
<1>15. CASE Del(c) /\ Moved(c, "requeue", {"down"})
  <2>1. PICK v \in Workers : v = call[c].worker /\ call[c].seen = {} /\ At(c, "requeue")
    BY <1>1, <1>15, CallHas DEF Del
  <2>2. /\ list' = [list EXCEPT ![v] = [s \in Tasks |-> 0]] /\ index' = index
        /\ status' = status /\ queue' = queue /\ assigned' = assigned
    BY <1>15, <2>1 DEF Del, tasks
  <2>3. ~Seen(v, t) BY <2>1 DEF Seen, For, At
  <2>4. \A w \in Workers \ {v} : list'[w] = list[w] BY <1>1, <2>2, Cleared
  <2>5. {"down"} \in SUBSET KeepSteps /\ "requeue" \notin {"down"} BY DEF KeepSteps
  <2>6. \A w \in Workers : Seen(w, t) => Seen(w, t)' BY <1>15, <2>5, SeenStays DEF Moved
  <2>7. \A w \in Workers, S \in SUBSET Carrying : Having(w, t, S)' \subseteq Having(w, t, S)
    BY <1>4, <1>15, <2>5
  <2>8. /\ Leaving \in SUBSET Carrying /\ (Leaving \cup Running) \in SUBSET Carrying
        /\ Carrying \in SUBSET Carrying
    BY DEF Leaving, Running, Carrying
  <2>9. ASSUME NEW w \in Workers, Having(w, t, Carrying)' # {} PROVE Seen(w, t)'
    BY <1>2, <2>6, <2>7, <2>8, <2>9 DEF KeptOf
  <2>10. ASSUME Waiting(t)' PROVE \E w \in index' : Seen(w, t)' /\ Spare(w, t)'
    <3>1. Waiting(t) BY <2>2, <2>10 DEF Waiting
    <3>2. PICK w \in index : Seen(w, t) /\ Spare(w, t) BY <1>2, <3>1 DEF KeptOf
    <3>3. w \in Workers \ {v} BY <1>1, <2>3, <3>2 DEF TypeInv, TypeOK
    <3>4. Spare(w, t)' BY <1>1, <2>2, <2>4, <2>7, <2>8, <3>2, <3>3, SpareStays
    <3> QED BY <2>2, <2>6, <3>2, <3>3, <3>4
  <2> QED BY <2>9, <2>10 DEF KeptOf
<1>16. CASE DownRead(c) /\ (Moved(c, "down", {"setDown"}) \/ Ended(c, "down"))
  <2>1. {"setDown"} \in SUBSET KeepSteps /\ "requeue" \notin {"setDown"} BY DEF KeepSteps
  <2> QED BY <1>5, <1>16, <2>1 DEF DownRead, pool, history
<1>17. CASE DownWrite(c) /\ Ended(c, "setDown") BY <1>5, <1>6, <1>17 DEF DownWrite
<1> QED
  BY <1>1, KeepMoves, <1>7, <1>8, <1>9, <1>10, <1>11, <1>12, <1>13, <1>14, <1>15, <1>16,
     <1>17

LEMMA KeptNext ==
  ASSUME Inv, Next
  PROVE  Kept'
<1>1. TypeInv /\ Kept BY DEF Inv
<1>2. muddled \subseteq muddled' BY <1>1, HistoryGrows
<1>3. SUFFICES ASSUME NEW t \in Tasks \ muddled' PROVE KeptOf(t)' BY DEF Kept
<1>4. KeptOf(t) BY <1>1, <1>2 DEF Kept
<1>5. CASE Tick
  <2>1. /\ call' = call /\ index' = index /\ list' = list /\ status' = status
        /\ queue' = queue /\ assigned' = assigned
    BY <1>5 DEF Tick, pool, tasks, history
  <2>2. \A w : Seen(w, t)' <=> Seen(w, t) BY <2>1 DEF Seen, For
  <2>3. \A w, S : Having(w, t, S)' = Having(w, t, S) BY <2>1 DEF Having, For
  <2>4. Waiting(t)' => Waiting(t) BY <2>1 DEF Waiting
  <2> QED BY <1>1, <1>4, <2>1, <2>2, <2>3, <2>4, KeptBeside
<1>6. ASSUME NEW c \in Calls, NEW step \in {"assign", "beat", "leave", "check"},
             Begun(c, step), index' = index, list' = list, status' = status,
             Waiting(t)' => Waiting(t)
      PROVE  KeptOf(t)'
  <2>1. \A w \in Workers : Seen(w, t) => Seen(w, t)' BY <1>6, SeenStays DEF Begun, At
  <2>2. step \notin Carrying BY DEF Leaving, Running, Carrying
  <2>3. \A w \in Workers, S \in SUBSET Carrying : Having(w, t, S)' = Having(w, t, S)
    BY <1>1, <1>6, <2>2, HavingBegun
  <2> QED BY <1>1, <1>4, <1>6, <2>1, <2>3, KeptBeside
<1>7. ASSUME NEW c \in Calls, NEW v \in Workers, NEW s \in Tasks, Take(c, v, s)
      PROVE  KeptOf(t)'
  <2>1. Begun(c, "assign") BY <1>1, <1>7, TakeBegins
  <2>2. index' = index /\ list' = list /\ status' = status BY <1>7 DEF Take, pool
  <2>3. Waiting(t)' => Waiting(t) BY <1>7 DEF Take, Waiting
  <2> QED BY <1>6, <2>1, <2>2, <2>3
<1>8. ASSUME NEW c \in Calls, NEW v \in Workers, NEW step \in {"beat", "leave", "check"},
             Ask(c, step, v)
      PROVE  KeptOf(t)'
  <2>1. Begun(c, step) BY <1>1, <1>8, AskBegins
  <2>2. index' = index /\ list' = list /\ status' = status
    BY <1>8 DEF Ask, pool, tasks
  <2>3. Waiting(t)' => Waiting(t) BY <1>8 DEF Ask, tasks, history, Waiting
  <2> QED BY <1>6, <2>1, <2>2, <2>3
<1>9. ASSUME NEW c \in Calls, Cut(c) PROVE KeptOf(t)'
  <2>1. Ended(c, call[c].step) BY <1>1, <1>9, CutEnds
  <2>2. /\ index' = index /\ list' = list /\ status' = status /\ queue' = queue
        /\ assigned' = assigned
    BY <1>9 DEF Cut, pool, tasks
  <2>3. \A w \in Workers : Seen(w, t) => Seen(w, t)' BY <2>1, SeenStays DEF Ended
  <2>4. \A w \in Workers, S \in SUBSET Carrying : Having(w, t, S)' \subseteq Having(w, t, S)
    BY <1>1, <2>1, HavingEnded
  <2>5. Waiting(t)' => Waiting(t) BY <2>2 DEF Waiting
  <2> QED BY <1>1, <1>4, <2>2, <2>3, <2>4, <2>5, KeptBeside
<1>10. index \subseteq Workers BY <1>1 DEF TypeInv, TypeOK
<1> QED BY <1>2, <1>5, <1>7, <1>8, <1>9, <1>10, KeptJob, KeptKeep DEF Next

-----------------------------------------------------------------------------

LEMMA InvInit == Init => Inv
<1> SUFFICES ASSUME Init PROVE Inv OBVIOUS
<1>1. TypeInv BY TypeInit
<1>2. /\ worker = [w \in Workers |-> [load |-> 0, beat |-> 0]]
      /\ list = [w \in Workers |-> [t \in Tasks |-> 0]]
      /\ call = [c \in Calls |-> None] /\ assigned = {}
  BY DEF Init
<1>3. \A w, S : For(w, S) = {} BY <1>2 DEF For
<1>4. \A w, t, S : Having(w, t, S) = {} BY <1>3 DEF Having
<1>5. ASSUME NEW w \in Workers PROVE Entries(w) = {}
  <2>1. \A t \in Tasks : 1 .. list[w][t] = {} BY <1>2
  <2> QED BY <2>1 DEF Entries
<1>6. Lists BY <1>5, FS_EmptySet DEF Lists
<1>7. Own
  <2>1. \A w \in Workers, t \in Tasks : list[w][t] = 0 BY <1>2
  <2>2. Cardinality({}) = 0 BY FS_EmptySet
  <2>3. \A w, t : Cardinality(Having(w, t, Carrying)) = 0 BY <1>4, <2>2
  <2>4. \A w \in Workers : Cardinality(For(w, Carrying)) = 0 /\ Cardinality(Entries(w)) = 0
    BY <1>3, <1>5, <2>2
  <2> QED BY <2>1, <2>3, <2>4 DEF Own
<1>8. LoadIsExact
  <2>1. \A w \in Workers : worker[w].load = 0 BY <1>2
  <2>2. Cardinality({}) = 0 BY FS_EmptySet
  <2> QED BY <1>3, <1>5, <2>1, <2>2 DEF LoadIsExact
<1>9. Kept BY <1>2, <1>4 DEF Kept, KeptOf, Waiting
<1> QED BY <1>1, <1>6, <1>7, <1>8, <1>9 DEF Inv

LEMMA InvNext == Inv /\ [Next]_vars => Inv'
<1> SUFFICES ASSUME Inv, [Next]_vars PROVE Inv' OBVIOUS
<1>1. CASE Next
  <2>1. TypeInv' BY TypeNext DEF Inv
  <2> QED BY <1>1, <2>1, OwnNext, LoadNext, KeptNext DEF Inv
<1>2. CASE UNCHANGED vars
  <2>1. TypeInv' BY <1>2, TypeNext DEF Inv
  <2>2. /\ worker' = worker /\ index' = index /\ list' = list /\ status' = status
        /\ queue' = queue /\ call' = call /\ blurred' = blurred /\ assigned' = assigned
        /\ muddled' = muddled
    BY <1>2 DEF vars, pool, tasks, history
  <2>3. \A w, S : For(w, S)' = For(w, S) BY <2>2 DEF For
  <2>4. \A w, t, S : Having(w, t, S)' = Having(w, t, S) BY <2>2, <2>3 DEF Having
  <2>5. \A w : Entries(w)' = Entries(w) BY <2>2 DEF Entries
  <2>6. \A w, t : (Seen(w, t)' <=> Seen(w, t)) /\ (Spare(w, t)' <=> Spare(w, t))
    BY <2>2, <2>3, <2>4 DEF Seen, Spare
  <2>7. Lists' BY <2>5 DEF Inv, Lists
  <2>8. Own' BY <2>2, <2>3, <2>4, <2>5 DEF Inv, Own
  <2>9. LoadIsExact' BY <2>2, <2>3, <2>5 DEF Inv, LoadIsExact
  <2>10. Kept' BY <2>2, <2>4, <2>6 DEF Inv, Kept, KeptOf, Waiting
  <2> QED BY <2>1, <2>7, <2>8, <2>9, <2>10 DEF Inv
<1> QED BY <1>1, <1>2

LEMMA InvAlways == Spec => []Inv
BY InvInit, InvNext, PTL DEF Spec

\* As long as no write to a worker's record was lost and no call for it ended
\* half-way, currentTasks is the length of its list, with the calls that have
\* changed one and not yet the other: "assignTask/completeTask keep it current".
THEOREM LoadsAreExact == Spec => []LoadIsExact
<1>1. Inv => LoadIsExact BY DEF Inv
<1> QED BY <1>1, InvAlways, PTL

\* A task that reached a worker's list and was not overtaken by a disconnect or
\* an unregister is completed, on the queue, or on the list of a worker that the
\* check for stale workers still looks at, whatever call dies and when.
THEOREM TasksAreFindable == Spec => []Findable
<1>1. ASSUME Inv PROVE Findable
  <2>1. SUFFICES ASSUME NEW t \in assigned \ muddled, status[t] # "completed", t \notin queue
                 PROVE  \E w \in index : t \in Listed(w)
    BY DEF Findable
  <2>2. t \in Tasks /\ Waiting(t) BY <1>1, <2>1 DEF Inv, TypeInv, TypeOK, Waiting
  <2>3. PICK w \in index : Spare(w, t) BY <1>1, <2>1, <2>2 DEF Inv, Kept, KeptOf
  <2>4. Cardinality(Having(w, t, Leaving)) \in Nat BY HavingInCalls, CallSizes
  <2>5. list[w][t] \in Nat BY <1>1, <2>2 DEF Inv, TypeInv, TypeOK
  <2>6. list[w][t] > 0 BY <2>3, <2>4, <2>5 DEF Spare
  <2> QED BY <2>2, <2>6 DEF Listed
<1> QED BY <1>1, InvAlways, PTL
=============================================================================

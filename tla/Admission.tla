------------------------------ MODULE Admission ------------------------------
(***************************************************************************)
(* Admission control, createTask and createTasksBatch of                   *)
(* src/services/task-queue.ts: createTask looks at the size of the queue   *)
(* and at the caller's budget many awaits before it adds the task and      *)
(* charges for it, and nothing holds other creators back.                  *)
(*                                                                         *)
(* One queue and one caller with a budget.  What TaskQueue says of a       *)
(* creation, command by command, is shortened here to the two writes that  *)
(* admission depends on: the SET of the record and the ZADD to the queue.  *)
(* Costs are counted in halves, because HINCRBY refuses a cost that is not *)
(* whole.                                                                  *)
(***************************************************************************)
EXTENDS Integers, Sequences, FiniteSets

CONSTANTS
  Creators,      \* createTask and createTasksBatch calls that may overlap
  None,          \* no call, no budget set
  MaxQueueSize,  \* the environment variable MAX_QUEUE_SIZE
  Costs,         \* metadata.cost, in halves, clamped by createTask to >= 0
  MaxCost,       \* the largest of them
  Budgets,       \* what setCallerBudget is called with, in halves
  MaxBatch,      \* bound: tasks in a batch (1000 in the code)
  MaxCalls,      \* bound: calls made
  MaxTakes,      \* bound: entries dispatched from the queue
  MaxCuts        \* bound: calls that die or lose Redis midway

Steps == {"size", "budget", "store", "enqueue", "balance", "charge"}
Call == [todo : Seq(Costs), billed : BOOLEAN, step : Steps]

ASSUME AdmissionAssumption ==
  /\ IsFiniteSet(Creators) /\ Creators # {}
  /\ MaxQueueSize \in Nat /\ MaxCost \in Nat /\ MaxBatch \in Nat
  /\ Costs \subseteq 0 .. MaxCost /\ Budgets \subseteq Nat
  /\ MaxCalls \in Nat /\ MaxTakes \in Nat /\ MaxCuts \in Nat
  /\ None \notin Int /\ None \notin Call

VARIABLES
  queue,     \* ZCARD of the queue
  budget,    \* "caller:budgets" of the caller, or None
  call,      \* the calls in progress: costs of the tasks still to create
  begun, taken, cuts,  \* counters of the bounds
  returned,  \* history: entries put back on the queue by retry and requeue
  worth,     \* history: what the caller's stored tasks cost
  charged    \* history: what the caller was charged

vars == <<queue, budget, call, begun, taken, cuts, returned, worth, charged>>
ledger == <<begun, taken, cuts, returned>>

Whole(cost) == cost % 2 = 0

Init ==
  /\ queue = 0 /\ budget = None
  /\ call = [c \in Creators |-> None]
  /\ begun = 0 /\ taken = 0 /\ cuts = 0 /\ returned = 0
  /\ worth = 0 /\ charged = 0

At(c, step) == call[c] # None /\ call[c].step = step
Cost(c) == Head(call[c].todo)
Goto(c, step) == call' = [call EXCEPT ![c].step = step]
Throw(c) == call' = [call EXCEPT ![c] = None]

\* The task is created: the next one of the batch, or the answer.
Created(c) ==
  LET k == call[c] IN
  call' = [call EXCEPT ![c] =
    IF Len(k.todo) = 1 THEN None
                       ELSE [k EXCEPT !.todo = Tail(k.todo), !.step = "size"]]

\* One task, or a batch whose tasks are all valid: createTasksBatch refuses
\* any other before it creates anything.  Who creates a task through the
\* library may name a caller to bill; the endpoints name none.
Begin(c) ==
  /\ call[c] = None /\ begun < MaxCalls
  /\ \E n \in 1 .. MaxBatch, billed \in BOOLEAN : \E costs \in [1 .. n -> Costs] :
       call' = [call EXCEPT ![c] = [todo |-> costs, billed |-> billed, step |-> "size"]]
  /\ begun' = begun + 1
  /\ UNCHANGED <<queue, budget, taken, cuts, returned, worth, charged>>

\* Mutant of CheckSize: the queue may already be full.
CheckSize_OneOver(c) ==
  /\ At(c, "size")
  /\ IF queue > MaxQueueSize THEN Throw(c) ELSE Goto(c, "budget")
  /\ UNCHANGED <<queue, budget, ledger, worth, charged>>

CheckSize(c) ==
  /\ At(c, "size")
  /\ IF queue >= MaxQueueSize THEN Throw(c) ELSE Goto(c, "budget")
  /\ UNCHANGED <<queue, budget, ledger, worth, charged>>

\* Mutants of CheckBudget: the comparison is swapped; the cost is deducted at
\* once.
CheckBudget_Swapped(c) ==
  /\ At(c, "budget")
  /\ IF call[c].billed /\ budget # None /\ budget > Cost(c) THEN Throw(c) ELSE Goto(c, "store")
  /\ UNCHANGED <<queue, budget, ledger, worth, charged>>

CheckBudget_Deduct(c) ==
  /\ At(c, "budget")
  /\ IF call[c].billed /\ budget # None
     THEN /\ budget >= Cost(c) /\ budget' = budget - Cost(c)
          /\ charged' = charged + Cost(c)
     ELSE UNCHANGED <<budget, charged>>
  /\ Goto(c, "store")
  /\ UNCHANGED <<queue, ledger, worth>>

\* A task without a caller, or whose caller has no budget set, is free.
CheckBudget(c) ==
  /\ At(c, "budget")
  /\ IF call[c].billed /\ budget # None /\ budget < Cost(c)
     THEN Throw(c)
     ELSE Goto(c, "store")
  /\ UNCHANGED <<queue, budget, ledger, worth, charged>>

\* SET of the record.
Store(c) ==
  /\ At(c, "store")
  /\ worth' = IF call[c].billed THEN worth + Cost(c) ELSE worth
  /\ Goto(c, "enqueue")
  /\ UNCHANGED <<queue, budget, ledger, charged>>

\* ZADD to the queue; only a caller is charged.
Enqueue(c) ==
  /\ At(c, "enqueue")
  /\ queue' = queue + 1
  /\ IF call[c].billed THEN Goto(c, "balance") ELSE Created(c)
  /\ UNCHANGED <<budget, ledger, worth, charged>>

ReadBalance(c) ==
  /\ At(c, "balance")
  /\ IF budget = None THEN Created(c) ELSE Goto(c, "charge")
  /\ UNCHANGED <<queue, budget, ledger, worth, charged>>

\* HINCRBY of minus the cost; it fails for a cost that is not whole, and
\* createTask throws although the task is stored and queued.
Charge(c) ==
  /\ At(c, "charge")
  /\ IF Whole(Cost(c))
     THEN /\ budget' = budget - Cost(c)
          /\ charged' = charged + Cost(c)
          /\ Created(c)
     ELSE Throw(c) /\ UNCHANGED <<budget, charged>>
  /\ UNCHANGED <<queue, ledger, worth>>

\* A command fails or the process dies: what was written stays.
Cut(c) ==
  /\ call[c] # None /\ cuts < MaxCuts
  /\ cuts' = cuts + 1
  /\ Throw(c)
  /\ UNCHANGED <<queue, budget, begun, taken, returned, worth, charged>>

SetBudget(b) ==
  /\ budget' = b
  /\ UNCHANGED <<queue, call, ledger, worth, charged>>

\* getNextTask takes an entry off the queue ...
Take ==
  /\ queue > 0 /\ taken < MaxTakes
  /\ queue' = queue - 1 /\ taken' = taken + 1
  /\ UNCHANGED <<budget, call, begun, cuts, returned, worth, charged>>

\* ... and retryTask, requeueTask and recoverStaleTasks put it back, without
\* a look at MAX_QUEUE_SIZE.
PutBack ==
  /\ returned < taken
  /\ queue' = queue + 1 /\ returned' = returned + 1
  /\ UNCHANGED <<budget, call, begun, taken, cuts, worth, charged>>

Step(c) == \/ CheckSize(c) \/ CheckBudget(c) \/ Store(c) \/ Enqueue(c)
           \/ ReadBalance(c) \/ Charge(c)

Next == \/ \E c \in Creators : Begin(c) \/ Step(c) \/ Cut(c)
        \/ \E b \in Budgets : SetBudget(b)
        \/ Take \/ PutBack

Spec == Init /\ [][Next]_vars

-----------------------------------------------------------------------------
(* Properties.                                                             *)

\* The state stays within its types.
TypeOK ==
  /\ queue \in Nat /\ budget \in Int \cup {None}
  /\ call \in [Creators -> Call \cup {None}]
  /\ \A c \in Creators : call[c] # None => Len(call[c].todo) > 0
  /\ begun \in 0 .. MaxCalls /\ taken \in 0 .. MaxTakes /\ cuts \in 0 .. MaxCuts
  /\ returned \in 0 .. taken
  /\ worth \in Nat /\ charged \in Nat

N == Cardinality(Creators)
Admitted == {c \in Creators : At(c, "budget") \/ At(c, "store") \/ At(c, "enqueue")}
Owing == {c \in Creators : /\ call[c] # None /\ call[c].billed
                           /\ call[c].step \in {"store", "enqueue", "balance", "charge"}}

\* Concurrent creations pass MAX_QUEUE_SIZE by less than their number, counting
\* the tasks admitted but not yet queued; only tasks that retry and requeue
\* put back come on top.  A batch, long as it may be, counts as one creation.
QueueBounded ==
  queue + Cardinality(Admitted) =< MaxQueueSize + N - 1 + returned

\* Concurrent creations overdraw a budget by at most one task each, those
\* admitted but not yet charged included, whenever the budget is set anew.
OverdraftBounded ==
  budget # None => budget >= -((N - Cardinality(Owing)) * MaxCost)

\* "A write failure never silently drains budget without creating the task":
\* wherever a creation is cut short, the caller has paid at most for the
\* tasks that are stored.
PaidIsStored == charged =< worth
=============================================================================

--------------------------- MODULE AdmissionProofs ---------------------------
(***************************************************************************)
(* What the limits let through.  For every number of overlapping           *)
(* creations, every queue size and every cost: by how much creations pass  *)
(* the queue's limit and the budget.  For every rate and number of         *)
(* callers: that a rate limit holds, and turns nobody away early.          *)
(***************************************************************************)
EXTENDS Admission, TokenBucket, FiniteSetTheorems, SequenceTheorems, TLAPS

-----------------------------------------------------------------------------
(* Types.                                                                  *)

LEMMA TypeInit == Init => TypeOK
BY AdmissionAssumption DEF Init, TypeOK

\* A call after it went to another step, or on to its next task.
LEMMA GotoOK ==
  ASSUME TypeOK, NEW c \in Creators, call[c] # None, NEW step \in Steps, Goto(c, step)
  PROVE  /\ call' \in [Creators -> Call \cup {None}]
         /\ \A d \in Creators : call'[d] # None => Len(call'[d].todo) > 0
<1>1. call[c] \in Call BY DEF TypeOK
<1>2. [call[c] EXCEPT !.step = step] \in Call /\ [call[c] EXCEPT !.step = step].todo = call[c].todo
  BY <1>1 DEF Call
<1>3. call' = [call EXCEPT ![c] = [call[c] EXCEPT !.step = step]] BY DEF Goto, TypeOK
<1> QED BY <1>2, <1>3 DEF TypeOK

LEMMA ThrowOK ==
  ASSUME TypeOK, NEW c \in Creators, Throw(c)
  PROVE  /\ call' \in [Creators -> Call \cup {None}]
         /\ \A d \in Creators : call'[d] # None => Len(call'[d].todo) > 0
BY DEF Throw, TypeOK

LEMMA TodoOK ==
  ASSUME TypeOK, NEW c \in Creators, call[c] # None
  PROVE  /\ call[c] \in Call
         /\ Head(call[c].todo) \in Costs
         /\ Len(call[c].todo) # 1 => /\ Tail(call[c].todo) \in Seq(Costs)
                                    /\ Len(Tail(call[c].todo)) > 0
<1> DEFINE todo == call[c].todo
<1>1. call[c] \in Call /\ todo \in Seq(Costs) /\ Len(todo) > 0 BY DEF TypeOK, Call
<1>2. Len(todo) \in Nat BY <1>1, LenProperties
<1>3. todo # <<>> BY <1>1, EmptySeq
<1>4. /\ Head(todo) \in Costs
      /\ Tail(todo) \in Seq(Costs)
      /\ Len(Tail(todo)) = Len(todo) - 1
  BY <1>1, <1>3, HeadTailProperties
<1> HIDE DEF todo
<1>5. ASSUME Len(todo) # 1 PROVE Len(Tail(todo)) > 0
  <2> DEFINE n == Len(todo)
             m == Len(Tail(todo))
  <2>1. n \in Nat /\ n > 0 /\ n # 1 /\ m = n - 1 BY <1>1, <1>2, <1>4, <1>5
  <2> HIDE DEF n, m
  <2>2. m > 0 BY <2>1
  <2> QED BY <2>2 DEF m
<1> QED BY <1>1, <1>4, <1>5 DEF todo

LEMMA CostOK ==
  ASSUME TypeOK, NEW c \in Creators, call[c] # None
  PROVE  Cost(c) \in Nat /\ Cost(c) =< MaxCost
<1>1. Head(call[c].todo) \in Costs BY TodoOK
<1>2. Head(call[c].todo) \in 0 .. MaxCost BY <1>1, AdmissionAssumption
<1> QED BY <1>2, AdmissionAssumption DEF Cost

LEMMA CreatedOK ==
  ASSUME TypeOK, NEW c \in Creators, call[c] # None, Created(c)
  PROVE  /\ call' \in [Creators -> Call \cup {None}]
         /\ \A d \in Creators : call'[d] # None => Len(call'[d].todo) > 0
<1> DEFINE k == call[c]
           rest == Tail(k.todo)
           n == IF Len(k.todo) = 1 THEN None
                ELSE [k EXCEPT !.todo = rest, !.step = "size"]
<1>1. k \in Call BY TodoOK
<1>2. CASE Len(k.todo) = 1
  BY <1>2 DEF Created, TypeOK
<1>3. CASE Len(k.todo) # 1
  <2>1. rest \in Seq(Costs) /\ Len(rest) > 0
    <3> HIDE DEF rest, n
    <3>1. Len(call[c].todo) # 1 BY <1>3
    <3> QED BY <3>1, TodoOK DEF rest
  <2> DEFINE m == [k EXCEPT !.todo = rest, !.step = "size"]
  <2>4. call' = [call EXCEPT ![c] = n] BY DEF Created
  <2>5. n = m BY <1>3
  <2> HIDE DEF n, m
  <2>2. call' = [call EXCEPT ![c] = m] BY <2>4, <2>5
  <2> USE DEF m
  <2> HIDE DEF rest
  <2>3. m \in Call /\ m.todo = rest BY <1>1, <2>1 DEF Call, Steps
  <2> HIDE DEF m
  <2> QED BY <2>1, <2>2, <2>3 DEF TypeOK
<1> QED BY <1>2, <1>3

\* The calls after any step of one of them.
LEMMA CallsNext ==
  ASSUME TypeOK, NEW c \in Creators, Step(c) \/ Cut(c)
  PROVE  /\ call' \in [Creators -> Call \cup {None}]
         /\ \A d \in Creators : call'[d] # None => Len(call'[d].todo) > 0
<1>1. call[c] # None
  BY DEF Step, Cut, CheckSize, CheckBudget, Store, Enqueue, ReadBalance, Charge, At
<1>2. {"budget", "store", "enqueue", "balance", "charge"} \subseteq Steps BY DEF Steps
<1>3. Throw(c) \/ Created(c) \/ \E step \in Steps : Goto(c, step)
  BY <1>2 DEF Step, Cut, CheckSize, CheckBudget, Store, Enqueue, ReadBalance, Charge
<1> QED BY <1>1, <1>3, GotoOK, ThrowOK, CreatedOK

\* Nothing takes a budget away once it is set.
HasBudget == \A c \in Creators : At(c, "charge") => budget # None

LEMMA TypeNext == TypeOK /\ HasBudget /\ [Next]_vars => TypeOK'
<1> SUFFICES ASSUME TypeOK, HasBudget, [Next]_vars PROVE TypeOK'
  OBVIOUS
<1>1. ASSUME NEW c \in Creators, Begin(c) PROVE TypeOK'
  <2>6. PICK n \in 1 .. MaxBatch, billed \in BOOLEAN : \E costs \in [1 .. n -> Costs] :
          call' = [call EXCEPT ![c] = [todo |-> costs, billed |-> billed, step |-> "size"]]
    BY <1>1 DEF Begin
  <2>1. PICK costs \in [1 .. n -> Costs] :
          call' = [call EXCEPT ![c] = [todo |-> costs, billed |-> billed, step |-> "size"]]
    BY <2>6
  <2>2. costs \in Seq(Costs) /\ Len(costs) = n /\ n > 0
    BY AdmissionAssumption
  <2> DEFINE k == [todo |-> costs, billed |-> billed, step |-> "size"]
  <2>3. k \in Call /\ k.todo = costs BY <2>2 DEF Call, Steps
  <2>4. /\ call' \in [Creators -> Call \cup {None}]
        /\ \A d \in Creators : call'[d] # None => Len(call'[d].todo) > 0
    <3>1. call' = [call EXCEPT ![c] = k] BY <2>1
    <3> HIDE DEF k
    <3> QED BY <2>2, <2>3, <3>1 DEF TypeOK
  <2>5. begun' \in 0 .. MaxCalls BY <1>1, AdmissionAssumption DEF Begin, TypeOK
  <2> QED BY <1>1, <2>4, <2>5 DEF Begin, TypeOK
<1>2. ASSUME NEW c \in Creators, Step(c) PROVE TypeOK'
  <2>1. call[c] # None
    BY <1>2 DEF Step, CheckSize, CheckBudget, Store, Enqueue, ReadBalance, Charge, At
  <2>2. Cost(c) \in Nat BY <2>1, CostOK
  <2>3. /\ queue' \in Nat /\ budget' \in Int \cup {None}
        /\ worth' \in Nat /\ charged' \in Nat
        /\ UNCHANGED ledger
    <3>1. CASE CheckSize(c) BY <3>1 DEF CheckSize, TypeOK
    <3>2. CASE CheckBudget(c) BY <3>2 DEF CheckBudget, TypeOK
    <3>3. CASE Store(c) BY <2>2, <3>3 DEF Store, TypeOK
    <3>4. CASE Enqueue(c) BY <3>4 DEF Enqueue, TypeOK
    <3>5. CASE ReadBalance(c) BY <3>5 DEF ReadBalance, TypeOK
    <3>6. CASE Charge(c)
      <4>1. budget \in Int BY <3>6 DEF Charge, HasBudget, TypeOK
      <4> QED BY <2>2, <3>6, <4>1 DEF Charge, TypeOK
    <3> QED BY <1>2, <3>1, <3>2, <3>3, <3>4, <3>5, <3>6 DEF Step
  <2> QED BY <1>2, <2>3, CallsNext DEF TypeOK, ledger
<1>3. ASSUME NEW c \in Creators, Cut(c) PROVE TypeOK'
  <2>1. cuts' \in 0 .. MaxCuts BY <1>3, AdmissionAssumption DEF Cut, TypeOK
  <2> QED BY <1>3, <2>1, CallsNext DEF Cut, TypeOK
<1>4. ASSUME NEW b \in Budgets, SetBudget(b) PROVE TypeOK'
  BY <1>4, AdmissionAssumption DEF SetBudget, ledger, TypeOK
<1>5. CASE Take BY <1>5, AdmissionAssumption DEF Take, TypeOK
<1>6. CASE PutBack BY <1>6, AdmissionAssumption DEF PutBack, TypeOK
<1>7. CASE UNCHANGED vars BY <1>7 DEF vars, TypeOK
<1> QED BY <1>1, <1>2, <1>3, <1>4, <1>5, <1>6, <1>7 DEF Next

LEMMA HasBudgetNext == TypeOK /\ HasBudget /\ [Next]_vars => HasBudget'
<1> SUFFICES ASSUME TypeOK, HasBudget, [Next]_vars, NEW c \in Creators, At(c, "charge")'
             PROVE  budget' # None
  BY DEF HasBudget
<1>1. budget # None => budget' # None
  <2>1. CASE \E d \in Creators : Charge(d)
    <3>1. PICK d \in Creators : Charge(d) BY <2>1
    <3>2. Cost(d) \in Nat BY <3>1, CostOK DEF Charge, At
    <3> QED BY <3>1, <3>2, AdmissionAssumption DEF Charge, TypeOK
  <2>2. CASE \E b \in Budgets : SetBudget(b)
    BY <2>2, AdmissionAssumption DEF SetBudget
  <2>3. CASE UNCHANGED budget BY <2>3
  <2> QED
    BY <2>1, <2>2, <2>3 DEF Next, Begin, Step, CheckSize, CheckBudget, Store, Enqueue,
       ReadBalance, Cut, Take, PutBack, vars
<1>2. CASE At(c, "charge") BY <1>1, <1>2 DEF HasBudget
<1>3. CASE ~At(c, "charge")
  <2>1. ASSUME NEW d \in Creators, Begin(d) \/ Throw(d) PROVE FALSE
    BY <1>3, <2>1 DEF Begin, Throw, At, TypeOK
  <2>6. ASSUME NEW d \in Creators, call[d] # None, Created(d) PROVE FALSE
    <3> DEFINE rest == Tail(call[d].todo)
               n == [call[d] EXCEPT !.todo = rest, !.step = "size"]
    <3>1. call[d] \in Call BY <2>6 DEF TypeOK
    <3>2. call'[d] = None \/ call'[d] = n BY <2>6 DEF Created, TypeOK
    <3>3. c # d => call'[c] = call[c] BY <2>6 DEF Created, TypeOK
    <3> HIDE DEF rest
    <3>4. n.step = "size" BY <3>1 DEF Call
    <3> HIDE DEF n
    <3> QED BY <1>3, <3>2, <3>3, <3>4 DEF At
  <2>2. ASSUME NEW d \in Creators, NEW step \in Steps \ {"charge"},
               call[d] # None, Goto(d, step)
        PROVE  FALSE
    <3>1. call[d] \in Call BY <2>2 DEF TypeOK
    <3>2. c # d => call'[c] = call[c] BY <2>2 DEF Goto, TypeOK
    <3>3. c = d => call'[c].step = step BY <2>2, <3>1 DEF Goto, TypeOK, Call
    <3> QED BY <1>3, <2>2, <3>2, <3>3 DEF At
  <2>3. ASSUME NEW d \in Creators, ReadBalance(d) PROVE budget # None
    BY <2>3, <2>6 DEF ReadBalance, At
  <2>4. ASSUME UNCHANGED call PROVE FALSE BY <1>3, <2>4 DEF At
  <2>5. \E d \in Creators : ReadBalance(d)
    BY <2>1, <2>2, <2>4, <2>6 DEF Next, At, Step, CheckSize, CheckBudget, Store, Enqueue,
       Charge, Cut, SetBudget, Take, PutBack, vars, Steps
  <2> QED BY <1>1, <2>3, <2>5
<1> QED BY <1>2, <1>3

LEMMA TypesAndBudget == Spec => [](TypeOK /\ HasBudget)
<1>1. Init => TypeOK /\ HasBudget BY TypeInit DEF Init, HasBudget, At
<1>2. TypeOK /\ HasBudget /\ [Next]_vars => (TypeOK /\ HasBudget)'
  BY TypeNext, HasBudgetNext
<1> QED BY <1>1, <1>2, PTL DEF Spec

\* The state of createTask and createTasksBatch stays within its types.
THEOREM TypesCorrect == Spec => []TypeOK
BY TypesAndBudget, PTL

-----------------------------------------------------------------------------
(* Where a call stands after a step of one of them.                        *)

LEMMA GotoMoves ==
  ASSUME TypeOK, NEW c \in Creators, call[c] # None, NEW step \in Steps, Goto(c, step)
  PROVE  /\ \A d \in Creators \ {c} : call'[d] = call[d]
         /\ call'[c] # None /\ call'[c].step = step /\ call'[c].billed = call[c].billed
<1> DEFINE n == [call[c] EXCEPT !.step = step]
<1>1. call[c] \in Call BY DEF TypeOK
<1>2. n \in Call /\ n.step = step /\ n.billed = call[c].billed BY <1>1 DEF Call
<1>3. call' = [call EXCEPT ![c] = n] BY DEF Goto
<1> HIDE DEF n
<1> QED BY <1>2, <1>3, AdmissionAssumption DEF TypeOK

LEMMA OtherMoves ==
  ASSUME TypeOK, NEW c \in Creators,
         Begin(c) \/ Throw(c) \/ (call[c] # None /\ Created(c))
  PROVE  /\ \A d \in Creators \ {c} : call'[d] = call[d]
         /\ call'[c] # None => call'[c].step = "size"
<1>1. CASE Begin(c) BY <1>1 DEF Begin, TypeOK
<1>2. CASE Throw(c) BY <1>2 DEF Throw, TypeOK
<1>3. CASE call[c] # None /\ Created(c)
  <2> DEFINE rest == Tail(call[c].todo)
             n == [call[c] EXCEPT !.todo = rest, !.step = "size"]
  <2>1. call[c] \in Call BY <1>3 DEF TypeOK
  <2>2. call'[c] = None \/ call'[c] = n BY <1>3 DEF Created, TypeOK
  <2>3. \A d \in Creators \ {c} : call'[d] = call[d] BY <1>3 DEF Created, TypeOK
  <2> HIDE DEF rest
  <2>4. n.step = "size" BY <2>1 DEF Call
  <2> HIDE DEF n
  <2> QED BY <2>2, <2>3, <2>4
<1> QED BY <1>1, <1>2, <1>3

LEMMA Sizes ==
  ASSUME NEW S \in SUBSET Creators, NEW T \in SUBSET Creators
  PROVE  /\ N \in Nat \ {0}
         /\ Cardinality(S) \in 0 .. N
         /\ S \subseteq T => Cardinality(S) =< Cardinality(T)
         /\ \A c \in T \ S : S \subseteq T => Cardinality(S) =< Cardinality(T) - 1
<1>1. IsFiniteSet(S) /\ IsFiniteSet(T) /\ N \in Nat /\ Cardinality(S) =< N
  BY FS_Subset, FS_CardinalityType, AdmissionAssumption DEF N
<1>2. N # 0 BY FS_EmptySet, AdmissionAssumption DEF N
<1>3. Cardinality(S) \in Nat /\ Cardinality(T) \in Nat BY <1>1, FS_CardinalityType
<1>4. S \subseteq T => Cardinality(S) =< Cardinality(T) BY <1>1, FS_Subset
<1>5. ASSUME NEW c \in T \ S, S \subseteq T PROVE Cardinality(S) =< Cardinality(T) - 1
  <2>1. IsFiniteSet(T \ {c}) /\ Cardinality(T \ {c}) = Cardinality(T) - 1
    BY <1>1, <1>5, FS_RemoveElement
  <2>2. S \subseteq T \ {c} BY <1>5
  <2> QED BY <2>1, <2>2, FS_Subset
<1> QED BY <1>1, <1>2, <1>3, <1>4, <1>5

-----------------------------------------------------------------------------
(* The size of the queue.                                                  *)

LEMMA QueueNext == TypeOK /\ TypeOK' /\ QueueBounded /\ [Next]_vars => QueueBounded'
<1> SUFFICES ASSUME TypeOK, TypeOK', QueueBounded, [Next]_vars PROVE QueueBounded'
  OBVIOUS
<1>1. /\ Admitted \in SUBSET Creators /\ Admitted' \in SUBSET Creators
      /\ N \in Nat \ {0} /\ N' = N
      /\ Cardinality(Admitted) \in 0 .. N /\ Cardinality(Admitted') \in 0 .. N
  BY Sizes DEF Admitted, N
<1>2. /\ queue \in Nat /\ queue' \in Nat /\ returned \in Nat /\ returned' \in Nat
      /\ MaxQueueSize \in Nat
  BY AdmissionAssumption DEF TypeOK
<1>3. ASSUME Admitted' \subseteq Admitted, queue' =< queue, returned' >= returned
      PROVE  QueueBounded'
  BY <1>1, <1>2, <1>3, Sizes DEF QueueBounded
<1>4. ASSUME NEW c \in Creators, Begin(c) \/ Throw(c) \/ (call[c] # None /\ Created(c))
      PROVE  Admitted' \subseteq Admitted \ {c}
  BY <1>4, OtherMoves DEF Admitted, At
<1>5. ASSUME NEW c \in Creators, call[c] # None, NEW step \in Steps, Goto(c, step)
      PROVE  /\ c \in Admitted \/ step \notin {"budget", "store", "enqueue"}
                  => Admitted' \subseteq Admitted
             /\ step \notin {"budget", "store", "enqueue"} => Admitted' \subseteq Admitted \ {c}
  BY <1>5, GotoMoves DEF Admitted, At
<1>6. ASSUME NEW c \in Creators, Step(c) PROVE QueueBounded'
  <2>1. call[c] # None
    BY <1>6 DEF Step, CheckSize, CheckBudget, Store, Enqueue, ReadBalance, Charge, At
  <2>2. CASE CheckSize(c)
    <3>1. CASE queue < MaxQueueSize
      BY <1>1, <1>2, <2>2, <3>1 DEF CheckSize, ledger, QueueBounded
    <3>2. CASE ~(queue < MaxQueueSize)
      BY <1>2, <1>3, <1>4, <2>2, <3>2 DEF CheckSize, ledger
    <3> QED BY <3>1, <3>2
  <2>3. CASE CheckBudget(c) \/ Store(c)
    <3>1. c \in Admitted BY <2>3 DEF CheckBudget, Store, Admitted
    <3>2. Admitted' \subseteq Admitted
      BY <1>4, <1>5, <2>1, <2>3, <3>1 DEF CheckBudget, Store, Steps
    <3> QED BY <1>2, <1>3, <2>3, <3>2 DEF CheckBudget, Store, ledger
  <2>4. CASE Enqueue(c)
    <3>1. c \in Admitted BY <2>4 DEF Enqueue, Admitted
    <3>2. Admitted' \subseteq Admitted \ {c} BY <1>4, <1>5, <2>1, <2>4 DEF Enqueue, Steps
    <3>3. Cardinality(Admitted') =< Cardinality(Admitted) - 1 BY <1>1, <3>1, <3>2, Sizes
    <3>4. queue' = queue + 1 /\ returned' = returned BY <2>4 DEF Enqueue, ledger
    <3> QED BY <1>1, <1>2, <3>3, <3>4 DEF QueueBounded
  <2>5. CASE ReadBalance(c) \/ Charge(c)
    <3>1. Admitted' \subseteq Admitted
      BY <1>4, <1>5, <2>1, <2>5 DEF ReadBalance, Charge, Steps
    <3> QED BY <1>2, <1>3, <2>5, <3>1 DEF ReadBalance, Charge, ledger
  <2> QED BY <1>6, <2>2, <2>3, <2>4, <2>5 DEF Step
<1>7. ASSUME NEW c \in Creators, Begin(c) \/ Cut(c) PROVE QueueBounded'
  BY <1>2, <1>3, <1>4, <1>7 DEF Begin, Cut
<1>8. CASE Take \/ (\E b \in Budgets : SetBudget(b)) \/ UNCHANGED vars
  BY <1>2, <1>3, <1>8 DEF Take, SetBudget, ledger, vars, Admitted, At
<1>9. CASE PutBack
  <2>1. Admitted' = Admitted BY <1>9 DEF PutBack, Admitted, At
  <2>2. queue' = queue + 1 /\ returned' = returned + 1 BY <1>9 DEF PutBack
  <2> QED BY <1>1, <1>2, <2>1, <2>2 DEF QueueBounded
<1> QED BY <1>6, <1>7, <1>8, <1>9 DEF Next

\* Overlapping creations pass MAX_QUEUE_SIZE by less than their number
\* (createTask compares zCard long before its zAdd).
THEOREM QueueIsBounded == Spec => []QueueBounded
<1>1. Init => QueueBounded
  <2> SUFFICES ASSUME Init PROVE QueueBounded
    OBVIOUS
  <2>1. Admitted = {} BY DEF Init, Admitted, At
  <2>2. Cardinality(Admitted) = 0 BY <2>1, FS_EmptySet
  <2>3. N \in Nat \ {0} BY Sizes
  <2> QED BY <2>2, <2>3, AdmissionAssumption DEF Init, QueueBounded
<1> QED BY <1>1, TypesCorrect, QueueNext, PTL DEF Spec

-----------------------------------------------------------------------------
(* The budget.                                                             *)

\* Only calls for a caller get as far as its budget.
Billed == \A c \in Creators : At(c, "balance") \/ At(c, "charge") => call[c].billed

LEMMA BilledNext == TypeOK /\ Billed /\ [Next]_vars => Billed'
<1> SUFFICES ASSUME TypeOK, Billed, [Next]_vars PROVE Billed'
  OBVIOUS
<1>1. ASSUME NEW c \in Creators, Begin(c) \/ Throw(c) \/ (call[c] # None /\ Created(c))
      PROVE  Billed'
  BY <1>1, OtherMoves DEF Billed, At
<1>2. ASSUME NEW c \in Creators, call[c] # None, NEW step \in Steps, Goto(c, step),
             call[c].billed \/ step \notin {"balance", "charge"}
      PROVE  Billed'
  BY <1>2, GotoMoves DEF Billed, At
<1>3. ASSUME NEW c \in Creators, Step(c) PROVE Billed'
  <2>1. call[c] # None
    BY <1>3 DEF Step, CheckSize, CheckBudget, Store, Enqueue, ReadBalance, Charge, At
  <2>2. CASE CheckSize(c) \/ CheckBudget(c) \/ Store(c)
    BY <1>1, <1>2, <2>1, <2>2 DEF CheckSize, CheckBudget, Store, Steps
  <2>3. CASE Enqueue(c) BY <1>1, <1>2, <2>1, <2>3 DEF Enqueue, Steps
  <2>4. CASE ReadBalance(c)
    <3>1. call[c].billed BY <2>4 DEF ReadBalance, Billed
    <3> QED BY <1>1, <1>2, <2>1, <2>4, <3>1 DEF ReadBalance, Steps
  <2>5. CASE Charge(c) BY <1>1, <2>1, <2>5 DEF Charge
  <2> QED BY <1>3, <2>2, <2>3, <2>4, <2>5 DEF Step
<1>4. ASSUME NEW c \in Creators, Begin(c) \/ Cut(c) PROVE Billed'
  BY <1>1, <1>4 DEF Cut
<1>5. CASE UNCHANGED call BY <1>5 DEF Billed, At
<1> QED BY <1>3, <1>4, <1>5 DEF Next, SetBudget, Take, PutBack, vars

\* The products that the bound is made of.
LEMMA Products ==
  ASSUME NEW i \in Nat, NEW j \in Nat, i =< j
  PROVE  /\ i * MaxCost \in Nat
         /\ i * MaxCost =< j * MaxCost
         /\ (i + 1) * MaxCost = i * MaxCost + MaxCost
<1>1. MaxCost \in Nat BY AdmissionAssumption
<1>2. PICK k \in Nat : j = i + k BY Z3
<1>3. (i + k) * MaxCost = i * MaxCost + k * MaxCost BY <1>1, Z3
<1>4. i * MaxCost \in Nat /\ k * MaxCost \in Nat BY <1>1, Z3
<1>5. (i + 1) * MaxCost = i * MaxCost + MaxCost BY <1>1, Z3
<1> QED BY <1>2, <1>3, <1>4, <1>5

LEMMA OverdraftNext ==
  TypeOK /\ TypeOK' /\ HasBudget /\ Billed /\ OverdraftBounded /\ [Next]_vars
    => OverdraftBounded'
<1> SUFFICES ASSUME TypeOK, TypeOK', HasBudget, Billed, OverdraftBounded, [Next]_vars
             PROVE  OverdraftBounded'
  OBVIOUS
<1> DEFINE Room == N - Cardinality(Owing)
           After == N - Cardinality(Owing')
<1>1. /\ Owing \in SUBSET Creators /\ Owing' \in SUBSET Creators
      /\ N \in Nat /\ N' = N /\ MaxCost \in Nat
      /\ Room \in Nat /\ After \in Nat
  <2>1. Owing \in SUBSET Creators /\ Owing' \in SUBSET Creators BY DEF Owing
  <2>2. N \in Nat /\ N' = N BY Sizes DEF N
  <2>3. Cardinality(Owing) \in 0 .. N /\ Cardinality(Owing') \in 0 .. N BY <2>1, Sizes
  <2> QED BY <2>1, <2>2, <2>3, AdmissionAssumption
<1>2. /\ budget # None => budget \in Int /\ budget >= -(Room * MaxCost)
      /\ OverdraftBounded' <=> (budget' # None => budget' >= -(After * MaxCost))
  <2>1. Cardinality(Owing)' = Cardinality(Owing') OBVIOUS
  <2> QED BY <1>1, <2>1 DEF OverdraftBounded, TypeOK
<1> HIDE DEF Room, After
<1>3. ASSUME budget' = budget, Owing' \subseteq Owing PROVE OverdraftBounded'
  <2>1. Room =< After
    <3>1. Cardinality(Owing') =< Cardinality(Owing) BY <1>1, <1>3, Sizes
    <3>2. Cardinality(Owing) \in 0 .. N /\ Cardinality(Owing') \in 0 .. N BY <1>1, Sizes
    <3> QED BY <1>1, <3>1, <3>2 DEF Room, After
  <2>2. /\ Room * MaxCost \in Nat /\ After * MaxCost \in Nat
        /\ Room * MaxCost =< After * MaxCost
    BY <1>1, <2>1, Products
  <2> QED BY <1>2, <1>3, <2>2
<1>4. ASSUME budget' \in Nat PROVE OverdraftBounded'
  <2>1. After * MaxCost \in Nat BY <1>1, Products
  <2> QED BY <1>2, <1>4, <2>1
<1>5. ASSUME NEW c \in Creators, Begin(c) \/ Throw(c) \/ (call[c] # None /\ Created(c))
      PROVE  Owing' \subseteq Owing \ {c}
  BY <1>5, OtherMoves DEF Owing
<1>6. ASSUME NEW c \in Creators, call[c] # None, NEW step \in Steps, Goto(c, step)
      PROVE  c \in Owing \/ ~call[c].billed \/ step = "budget" => Owing' \subseteq Owing
  BY <1>6, GotoMoves DEF Owing
<1>7. ASSUME NEW c \in Creators, Step(c) PROVE OverdraftBounded'
  <2>1. call[c] # None
    BY <1>7 DEF Step, CheckSize, CheckBudget, Store, Enqueue, ReadBalance, Charge, At
  <2>2. Cost(c) \in Nat /\ Cost(c) =< MaxCost BY <2>1, CostOK
  <2>3. CASE CheckSize(c)
    BY <1>3, <1>5, <1>6, <2>1, <2>3 DEF CheckSize, Steps
  <2>4. CASE CheckBudget(c)
    <3>1. CASE ~call[c].billed
      BY <1>3, <1>6, <2>1, <2>4, <3>1 DEF CheckBudget, Steps
    <3>2. CASE call[c].billed /\ budget # None /\ budget < Cost(c)
      BY <1>3, <1>5, <2>4, <3>2 DEF CheckBudget
    <3>3. CASE budget # None /\ ~(budget < Cost(c))
      BY <1>2, <1>4, <2>2, <2>4, <3>3 DEF CheckBudget
    <3>4. CASE budget = None BY <1>2, <2>4, <3>4 DEF CheckBudget
    <3> QED BY <3>1, <3>2, <3>3, <3>4
  <2>5. CASE Store(c) \/ Enqueue(c) \/ ReadBalance(c)
    <3>1. call[c].billed => c \in Owing
      BY <2>1, <2>5 DEF Store, Enqueue, ReadBalance, Owing, At
    <3>2. Owing' \subseteq Owing
      BY <1>5, <1>6, <2>1, <2>5, <3>1 DEF Store, Enqueue, ReadBalance, Steps
    <3> QED BY <1>3, <2>5, <3>2 DEF Store, Enqueue, ReadBalance
  <2>6. CASE Charge(c) /\ ~Whole(Cost(c))
    BY <1>3, <1>5, <2>6 DEF Charge
  <2>7. CASE Charge(c) /\ Whole(Cost(c))
    <3>1. c \in Owing BY <2>1, <2>7 DEF Charge, Billed, Owing, At
    <3>2. Owing' \subseteq Owing \ {c} BY <1>5, <2>1, <2>7 DEF Charge
    <3>3. Cardinality(Owing') =< Cardinality(Owing) - 1 BY <1>1, <3>1, <3>2, Sizes
    <3>4. Room + 1 =< After
      <4>1. Cardinality(Owing) \in 0 .. N /\ Cardinality(Owing') \in 0 .. N BY <1>1, Sizes
      <4> QED BY <1>1, <3>3, <4>1 DEF Room, After
    <3>5. /\ (Room + 1) * MaxCost =< After * MaxCost
          /\ (Room + 1) * MaxCost = Room * MaxCost + MaxCost
          /\ Room * MaxCost \in Nat /\ After * MaxCost \in Nat
      <4>1. Room + 1 \in Nat BY <1>1
      <4>2. (Room + 1) * MaxCost =< After * MaxCost BY <1>1, <3>4, <4>1, Products
      <4> QED BY <1>1, <4>2, Products
    <3>6. budget # None /\ budget' = budget - Cost(c) BY <2>7 DEF Charge, HasBudget
    <3> QED BY <1>1, <1>2, <2>2, <3>5, <3>6
  <2> QED BY <1>7, <2>3, <2>4, <2>5, <2>6, <2>7 DEF Step
<1>8. ASSUME NEW c \in Creators, Begin(c) \/ Cut(c) PROVE OverdraftBounded'
  BY <1>3, <1>5, <1>8 DEF Begin, Cut
<1>9. ASSUME NEW b \in Budgets, SetBudget(b) PROVE OverdraftBounded'
  BY <1>4, <1>9, AdmissionAssumption DEF SetBudget
<1>10. CASE Take \/ PutBack \/ UNCHANGED vars
  <2>1. Owing' = Owing BY <1>10 DEF Take, PutBack, vars, Owing
  <2> QED BY <1>3, <1>10, <2>1 DEF Take, PutBack, vars
<1> QED BY <1>7, <1>8, <1>9, <1>10 DEF Next

\* A budget is overdrawn by at most one task per overlapping creation
\* (createTask compares the balance long before it deducts the cost).
THEOREM OverdraftIsBounded == Spec => []OverdraftBounded
<1>1. Init => Billed /\ OverdraftBounded BY DEF Init, Billed, OverdraftBounded, At
<1> QED BY <1>1, TypesAndBudget, BilledNext, OverdraftNext, PTL DEF Spec

-----------------------------------------------------------------------------
(* What is paid.  A sum of costs is the size of a set: a pair for each half *)
(* that a call has stored but not yet charged.                             *)

Stored(c) == /\ call[c] # None /\ call[c].billed
             /\ call[c].step \in {"enqueue", "balance", "charge"}

Unpaid == {h \in Creators \X (1 .. MaxCost) : Stored(h[1]) /\ h[2] =< Cost(h[1])}

PaidInv == charged + Cardinality(Unpaid) =< worth

LEMMA UnpaidSize ==
  ASSUME NEW S \in SUBSET (Creators \X (1 .. MaxCost))
  PROVE  IsFiniteSet(S) /\ Cardinality(S) \in Nat
<1>1. IsFiniteSet(1 .. MaxCost) BY AdmissionAssumption, FS_Interval
<1>2. IsFiniteSet(Creators \X (1 .. MaxCost)) BY <1>1, AdmissionAssumption, FS_Product
<1> QED BY <1>2, FS_Subset, FS_CardinalityType

\* A call's halves come and go together.
LEMMA Halves ==
  ASSUME NEW S \in SUBSET (Creators \X (1 .. MaxCost)),
         NEW T \in SUBSET (Creators \X (1 .. MaxCost)),
         NEW c \in Creators, NEW k \in 0 .. MaxCost,
         \A i : <<c, i>> \notin S,
         T = S \cup ({c} \X (1 .. k))
  PROVE  Cardinality(T) = Cardinality(S) + k
<1> DEFINE H == {c} \X (1 .. k)
<1>1. IsFiniteSet(1 .. k) /\ Cardinality(1 .. k) = k
  BY AdmissionAssumption, FS_Interval
<1>2. IsFiniteSet({c}) /\ Cardinality({c}) = 1 BY FS_Singleton
<1>3. IsFiniteSet(H) /\ Cardinality(H) = 1 * k BY <1>1, <1>2, FS_Product
<1>4. S \cap H = {} OBVIOUS
<1>5. IsFiniteSet(S) /\ Cardinality(S) \in Nat BY UnpaidSize
<1>6. Cardinality(S \cap H) = 0 BY <1>4, FS_EmptySet
<1>7. Cardinality(T) = Cardinality(S) + Cardinality(H) - Cardinality(S \cap H)
  BY <1>3, <1>5, FS_Union
<1>8. k \in Nat BY AdmissionAssumption
<1> QED BY <1>3, <1>5, <1>6, <1>7, <1>8

\* What a step of c leaves of the halves of the others, and of its own.
LEMMA GotoCost ==
  ASSUME TypeOK, NEW c \in Creators, call[c] # None, NEW step \in Steps, Goto(c, step)
  PROVE  /\ \A d \in Creators : call'[d] # None => Cost(d)' = Cost(d)
         /\ \A d \in Creators \ {c} : Stored(d)' <=> Stored(d)
         /\ Stored(c)' <=> call[c].billed /\ step \in {"enqueue", "balance", "charge"}
<1> DEFINE n == [call[c] EXCEPT !.step = step]
<1>1. call[c] \in Call BY DEF TypeOK
<1>2. n.todo = call[c].todo BY <1>1 DEF Call
<1>3. call' = [call EXCEPT ![c] = n] BY DEF Goto
<1> HIDE DEF n
<1>4. call'[c].todo = call[c].todo /\ \A d \in Creators \ {c} : call'[d] = call[d]
  BY <1>2, <1>3 DEF TypeOK
<1>5. \A d \in Creators : call'[d] # None => call'[d].todo = call[d].todo BY <1>4
<1>6. \A d \in Creators : call'[d] # None => Cost(d)' = Cost(d) BY <1>5 DEF Cost
<1>7. /\ call'[c] # None /\ call'[c].step = step /\ call'[c].billed = call[c].billed
  BY GotoMoves
<1> QED BY <1>4, <1>6, <1>7 DEF Stored

LEMMA PaidNext == TypeOK /\ TypeOK' /\ HasBudget /\ Billed /\ PaidInv /\ [Next]_vars => PaidInv'
<1> SUFFICES ASSUME TypeOK, TypeOK', HasBudget, Billed, PaidInv, [Next]_vars PROVE PaidInv'
  OBVIOUS
<1>1. /\ Unpaid \in SUBSET (Creators \X (1 .. MaxCost))
      /\ Unpaid' \in SUBSET (Creators \X (1 .. MaxCost))
  BY DEF Unpaid
<1>2. /\ charged \in Nat /\ charged' \in Nat /\ worth \in Nat /\ worth' \in Nat
      /\ IsFiniteSet(Unpaid) /\ Cardinality(Unpaid) \in Nat
      /\ IsFiniteSet(Unpaid') /\ Cardinality(Unpaid') \in Nat
      /\ charged + Cardinality(Unpaid) =< worth
      /\ PaidInv' <=> charged' + Cardinality(Unpaid') =< worth'
  BY <1>1, UnpaidSize DEF TypeOK, PaidInv
<1>3. ASSUME Unpaid' \subseteq Unpaid, charged' = charged, worth' = worth PROVE PaidInv'
  <2>1. Cardinality(Unpaid') =< Cardinality(Unpaid) BY <1>2, <1>3, FS_Subset
  <2> QED BY <1>2, <1>3, <2>1
<1>4. ASSUME NEW c \in Creators, Begin(c) \/ Throw(c) \/ (call[c] # None /\ Created(c))
      PROVE  Unpaid' = {h \in Unpaid : h[1] # c}
  <2>1. /\ \A d \in Creators \ {c} : call'[d] = call[d]
        /\ call'[c] # None => call'[c].step = "size"
    BY <1>4, OtherMoves
  <2>2. \A d \in Creators : Stored(d)' <=> Stored(d) /\ d # c BY <2>1 DEF Stored
  <2>3. \A d \in Creators \ {c} : Cost(d)' = Cost(d) BY <2>1 DEF Cost
  <2> QED BY <2>2, <2>3 DEF Unpaid
<1>5. ASSUME NEW c \in Creators, call[c] # None, NEW step \in Steps, Goto(c, step),
             Stored(c) \/ ~call[c].billed \/ step \notin {"enqueue", "balance", "charge"}
      PROVE  Unpaid' \subseteq Unpaid
  <2>1. \A d \in Creators : Stored(d)' => Stored(d) /\ Cost(d)' = Cost(d)
    BY <1>5, GotoCost DEF Stored
  <2> QED BY <2>1 DEF Unpaid
<1>6. ASSUME NEW c \in Creators, Step(c) PROVE PaidInv'
  <2>1. call[c] # None
    BY <1>6 DEF Step, CheckSize, CheckBudget, Store, Enqueue, ReadBalance, Charge, At
  <2>2. Cost(c) \in 0 .. MaxCost BY <2>1, CostOK, AdmissionAssumption
  <2>3. CASE CheckSize(c) \/ CheckBudget(c)
    <3>1. Unpaid' \subseteq Unpaid
      BY <1>4, <1>5, <2>1, <2>3 DEF CheckSize, CheckBudget, Steps
    <3> QED BY <1>3, <2>3, <3>1 DEF CheckSize, CheckBudget
  <2>4. CASE Store(c) /\ ~call[c].billed
    <3>1. Unpaid' \subseteq Unpaid BY <1>5, <2>1, <2>4 DEF Store, Steps
    <3> QED BY <1>3, <2>4, <3>1 DEF Store
  <2>5. CASE Store(c) /\ call[c].billed
    <3>1. Goto(c, "enqueue") /\ worth' = worth + Cost(c) /\ charged' = charged
      BY <2>5 DEF Store
    <3>2. /\ \A d \in Creators : call'[d] # None => Cost(d)' = Cost(d)
          /\ \A d \in Creators \ {c} : Stored(d)' <=> Stored(d)
          /\ Stored(c)' /\ ~Stored(c)
      BY <2>1, <2>5, <3>1, GotoCost DEF Steps, Stored, Store, At
    <3>3. \A d \in Creators : Stored(d)' => Cost(d)' = Cost(d) BY <3>2 DEF Stored
    <3>4. \A d \in Creators : Stored(d)' <=> Stored(d) \/ d = c BY <3>2
    <3>5. \A i : <<c, i>> \notin Unpaid BY <3>2 DEF Unpaid
    <3>6. Unpaid' = Unpaid \cup ({c} \X (1 .. Cost(c)))
      <4>1. ASSUME NEW d \in Creators, NEW i \in 1 .. MaxCost
            PROVE  <<d, i>> \in Unpaid' <=>
                     <<d, i>> \in Unpaid \/ (d = c /\ i =< Cost(c))
        BY <3>3, <3>4 DEF Unpaid
      <4>2. \A i : i \in 1 .. Cost(c) <=> i \in 1 .. MaxCost /\ i =< Cost(c)
        BY <2>2, AdmissionAssumption
      <4> DEFINE R == Unpaid \cup ({c} \X (1 .. Cost(c)))
      <4>3. R \subseteq Creators \X (1 .. MaxCost) BY <1>1, <4>2
      <4>4. \A h \in Creators \X (1 .. MaxCost) : h \in Unpaid' <=> h \in R
        BY <4>1, <4>2
      <4> QED BY <1>1, <4>3, <4>4
    <3>7. Cardinality(Unpaid') = Cardinality(Unpaid) + Cost(c)
      BY <1>1, <2>2, <3>5, <3>6, Halves
    <3> QED BY <1>2, <2>2, <3>1, <3>7, AdmissionAssumption
  <2>6. CASE Enqueue(c) \/ ReadBalance(c)
    <3>1. Stored(c) \/ ~call[c].billed BY <2>1, <2>6 DEF Enqueue, ReadBalance, Stored, At
    <3>2. Unpaid' \subseteq Unpaid
      BY <1>4, <1>5, <2>1, <2>6, <3>1 DEF Enqueue, ReadBalance, Steps
    <3> QED BY <1>3, <2>6, <3>2 DEF Enqueue, ReadBalance
  <2>7. CASE Charge(c) /\ ~Whole(Cost(c))
    <3>1. Unpaid' \subseteq Unpaid BY <1>4, <2>7 DEF Charge
    <3> QED BY <1>3, <2>7, <3>1 DEF Charge
  <2>8. CASE Charge(c) /\ Whole(Cost(c))
    <3>1. Created(c) /\ charged' = charged + Cost(c) /\ worth' = worth
      BY <2>8 DEF Charge
    <3>2. Unpaid' = {h \in Unpaid : h[1] # c} BY <1>4, <2>1, <3>1
    <3>3. Stored(c) BY <2>1, <2>8 DEF Charge, Stored, At, Billed
    <3>4. \A i : <<c, i>> \notin Unpaid' BY <3>2
    <3>5. Unpaid = Unpaid' \cup ({c} \X (1 .. Cost(c)))
      <4>1. \A i : i \in 1 .. Cost(c) <=> i \in 1 .. MaxCost /\ i =< Cost(c)
        BY <2>2, AdmissionAssumption
      <4>2. \A i \in 1 .. MaxCost : <<c, i>> \in Unpaid <=> i =< Cost(c)
        BY <3>3 DEF Unpaid
      <4> DEFINE R == Unpaid' \cup ({c} \X (1 .. Cost(c)))
      <4>3. R \subseteq Creators \X (1 .. MaxCost) BY <1>1, <4>1
      <4>4. \A d \in Creators, i \in 1 .. MaxCost : <<d, i>> \in Unpaid <=> <<d, i>> \in R
        BY <3>2, <4>1, <4>2
      <4>5. \A h \in Creators \X (1 .. MaxCost) : h \in Unpaid <=> h \in R
        BY <4>4
      <4> QED BY <1>1, <4>3, <4>5
    <3>6. Cardinality(Unpaid) = Cardinality(Unpaid') + Cost(c)
      BY <1>1, <2>2, <3>4, <3>5, Halves
    <3> QED BY <1>2, <2>2, <3>1, <3>6, AdmissionAssumption
  <2> QED BY <1>6, <2>3, <2>4, <2>5, <2>6, <2>7, <2>8 DEF Step
<1>7. ASSUME NEW c \in Creators, Begin(c) \/ Cut(c) PROVE PaidInv'
  <2>1. Unpaid' \subseteq Unpaid BY <1>4, <1>7 DEF Cut
  <2> QED BY <1>3, <1>7, <2>1 DEF Begin, Cut
<1>8. CASE UNCHANGED <<call, charged, worth>>
  <2>1. Unpaid' = Unpaid BY <1>8 DEF Unpaid, Stored, Cost
  <2> QED BY <1>3, <1>8, <2>1
<1> QED BY <1>6, <1>7, <1>8 DEF Next, SetBudget, Take, PutBack, vars

\* "A write failure never silently drains budget without creating the task":
\* wherever a creation is cut short or refused, the caller has been charged at
\* most for the tasks that are stored (createTask charges last).
THEOREM OnlyStoredIsPaid == Spec => []PaidIsStored
<1>1. Init => Billed /\ PaidInv
  <2> SUFFICES ASSUME Init PROVE Billed /\ PaidInv
    OBVIOUS
  <2>1. Billed BY DEF Init, Billed, At
  <2>2. Unpaid = {} BY DEF Init, Unpaid, Stored
  <2>3. Cardinality(Unpaid) = 0 BY <2>2, FS_EmptySet
  <2> QED BY <2>1, <2>3 DEF Init, PaidInv
<1>2. TypeOK /\ PaidInv => PaidIsStored
  <2> SUFFICES ASSUME TypeOK, PaidInv PROVE PaidIsStored
    OBVIOUS
  <2>1. Cardinality(Unpaid) \in Nat BY UnpaidSize DEF Unpaid
  <2> QED BY <2>1 DEF TypeOK, PaidInv, PaidIsStored
<1> QED BY <1>1, <1>2, TypesAndBudget, BilledNext, PaidNext, PTL DEF Spec
-----------------------------------------------------------------------------
(* The rate limiter.                                                       *)

\* Calls reach Redis in the order of their clocks: there is one caller, or a
\* call takes no time.
InOrder == (\E p \in Processes : Processes = {p}) \/ MaxLag = 0

LEMMA CapacityType == Capacity \in Nat /\ Capacity >= Second /\ Capacity = Limit * Second
<1>1. Limit \in Nat /\ Second \in Nat /\ Limit >= 1 /\ Second >= 1 BY RateAssumption
<1>2. Limit * Second >= Second BY <1>1
<1> QED BY <1>1, <1>2 DEF Capacity

\* What Limit units a tick make of an interval.
LEMMA Times ==
  ASSUME NEW a \in Int, NEW b \in Int
  PROVE  /\ Limit * a \in Int
         /\ Limit * (a + b) = Limit * a + Limit * b
         /\ a =< b => Limit * a =< Limit * b
         /\ a >= 0 => Limit * a >= 0
<1>1. Limit \in Nat BY RateAssumption
<1>2. a =< b => Limit * a =< Limit * b
  <2> SUFFICES ASSUME a =< b PROVE Limit * a =< Limit * b
    OBVIOUS
  <2>1. Limit * (b - a) >= 0 BY <1>1
  <2>2. Limit * (b - a) = Limit * b - Limit * a BY <1>1
  <2> QED BY <1>1, <2>1, <2>2
<1> QED BY <1>1, <1>2

\* The script finds a number of tokens, no more than the refill of the time
\* since the last grant has brought.
LEMMA FilledType ==
  ASSUME BucketTypeOK, NEW n \in Int
  PROVE  /\ Filled(n) \in 0 .. Capacity
         /\ Expired => Filled(n) = Capacity
         /\ ~Expired /\ last =< n => Filled(n) =< tokens + Limit * (n - last)
<1>1. Limit * Larger(0, n - last) \in Nat /\ (last =< n => Larger(0, n - last) = n - last)
  <2>1. last \in Int BY DEF BucketTypeOK
  <2>2. Larger(0, n - last) \in Nat /\ (last =< n => Larger(0, n - last) = n - last)
    BY <2>1 DEF Larger
  <2> HIDE DEF Larger
  <2> QED BY <2>2, Times
<1>2. tokens \in Nat /\ Capacity \in Nat BY CapacityType DEF BucketTypeOK
<1> HIDE DEF Larger
<1> QED BY <1>1, <1>2 DEF Filled, Capped, Smaller, BucketTypeOK

LEMMA BucketTypeInit == BucketInit => BucketTypeOK
BY RateAssumption, TimeAssumption, CapacityType DEF BucketInit, BucketTypeOK

LEMMA BucketTypeNext == BucketTypeOK /\ [BucketNext]_bucketVars => BucketTypeOK'
<1> SUFFICES ASSUME BucketTypeOK, [BucketNext]_bucketVars PROVE BucketTypeOK'
  OBVIOUS
<1> USE TimeAssumption
<1>1. ASSUME NEW p \in Processes, Send(p) PROVE BucketTypeOK'
  BY <1>1 DEF Send, BucketTypeOK
<1>2. ASSUME NEW p \in Processes, Consume(p) PROVE BucketTypeOK'
  <2>1. sent[p] \in Int BY <1>2 DEF Consume, BucketTypeOK
  <2>2. tokens' \in 0 .. Capacity
    BY <1>2, <2>1, FilledType, CapacityType, RateAssumption DEF Consume
  <2> QED BY <1>2, <2>1, <2>2 DEF Consume, Granted, BucketTypeOK
<1>3. ASSUME NEW p \in Processes, Deny(p) PROVE BucketTypeOK'
  BY <1>3 DEF Deny, Refused, BucketTypeOK
<1>4. CASE Tick BY <1>4 DEF Tick, BucketTypeOK
<1>5. CASE Watch BY <1>5 DEF Watch, BucketTypeOK
<1>6. CASE UNCHANGED bucketVars BY <1>6 DEF bucketVars, BucketTypeOK
<1> QED BY <1>1, <1>2, <1>3, <1>4, <1>5, <1>6 DEF BucketNext

\* The bucket never holds more than its capacity, nor a debt.
THEOREM BucketHoldsItsCapacity == BucketSpec => []BucketTypeOK
BY BucketTypeInit, BucketTypeNext, PTL DEF BucketSpec

-----------------------------------------------------------------------------
(* The rate.                                                               *)

\* No call is older than MaxLag; the two keys were touched since the last
\* grant, which lies behind every call when calls come in order.
Timely ==
  /\ last =< clock /\ touched =< clock
  /\ granted > 0 => last =< touched
  /\ \A p \in Processes : sent[p] # NoCall =>
       sent[p] =< clock /\ clock - sent[p] =< MaxLag /\ last =< sent[p]

\* What was granted in the window and what is left are paid for by a full
\* bucket at the start and the refill up to the last grant.
GrantsPaid ==
  /\ granted > 0 => from =< last + MaxLag
  /\ granted > 0 => granted * Second + tokens =< Limit * (Second + MaxLag + last - from)

LEMMA TimelyNext ==
  ASSUME InOrder, BucketTypeOK, Timely, [BucketNext]_bucketVars
  PROVE  Timely'
<1> USE TimeAssumption, NoCallAssumption
<1>1. ASSUME NEW p \in Processes, Send(p) PROVE Timely'
  BY <1>1 DEF Send, BucketTypeOK, Timely
<1>2. ASSUME NEW p \in Processes, Consume(p) PROVE Timely'
  <2>1. sent[p] \in Int /\ sent[p] =< clock /\ clock - sent[p] =< MaxLag
    BY <1>2 DEF Consume, BucketTypeOK, Timely
  <2>2. ASSUME NEW q \in Processes, q # p, sent[q] # NoCall PROVE sent[p] =< sent[q]
    <3>1. MaxLag = 0 BY <2>2 DEF InOrder
    <3> QED BY <2>1, <2>2, <3>1 DEF BucketTypeOK, Timely
  <2> QED BY <1>2, <2>1, <2>2 DEF Consume, Granted, BucketTypeOK, Timely
<1>3. ASSUME NEW p \in Processes, Deny(p) PROVE Timely'
  BY <1>3 DEF Deny, Refused, BucketTypeOK, Timely
<1>4. CASE Tick BY <1>4 DEF Tick, BucketTypeOK, Timely
<1>5. CASE Watch BY <1>5 DEF Watch, BucketTypeOK, Timely
<1>6. CASE UNCHANGED bucketVars BY <1>6 DEF bucketVars, Timely
<1> QED BY <1>1, <1>2, <1>3, <1>4, <1>5, <1>6 DEF BucketNext

\* A grant is paid by the refill since the last one, by the full bucket the
\* window began with, or by the time the keys took to expire.
LEMMA OneGrantPaid ==
  ASSUME BucketTypeOK, Timely, GrantsPaid, NEW p \in Processes, Consume(p)
  PROVE  GrantsPaid'
<1> DEFINE n == sent[p]
<1> USE TimeAssumption, RateAssumption
<1>1. n \in Int /\ n =< clock /\ clock - n =< MaxLag /\ last =< n /\ from =< clock
  BY DEF Consume, BucketTypeOK, Timely
<1>2. /\ last' = n /\ from' = from /\ granted' = granted + 1
      /\ tokens' = Filled(n) - Second /\ Filled(n) \in 0 .. Capacity
  BY <1>1, FilledType DEF Consume, Granted
<1>3. granted \in Nat /\ last \in Int /\ tokens \in Nat /\ from \in Int /\ clock \in Int
  BY CapacityType DEF BucketTypeOK
<1> HIDE DEF n
<1>4. from =< n + MaxLag BY <1>1, <1>3
<1>5. granted * Second + Filled(n) =< Limit * (Second + MaxLag + n - from)
  <2>1. Capacity =< Limit * (Second + MaxLag + n - from)
    BY <1>1, <1>3, <1>4, CapacityType, Times
  <2>2. CASE granted = 0 BY <1>2, <2>1, <2>2, CapacityType, Times, <1>1, <1>3
  <2>3. CASE granted > 0 /\ ~Expired
    <3>1. Filled(n) =< tokens + Limit * (n - last) BY <1>1, <2>3, FilledType
    <3>2. Limit * (Second + MaxLag + n - from)
            = Limit * (Second + MaxLag + last - from) + Limit * (n - last)
      BY <1>1, <1>3
    <3>3. granted * Second + tokens =< Limit * (Second + MaxLag + last - from)
      BY <2>3 DEF GrantsPaid
    <3>4. /\ Limit * (n - last) \in Int /\ Limit * (Second + MaxLag + last - from) \in Int
          /\ granted * Second \in Int /\ Filled(n) \in Int
      BY <1>1, <1>2, <1>3, CapacityType
    <3> QED BY <1>3, <3>1, <3>2, <3>3, <3>4
  <2>4. CASE granted > 0 /\ Expired
    <3>1. last + Second =< n
      BY <1>1, <1>3, <2>4 DEF Expired, Timely, BucketTypeOK
    <3>2. granted * Second + tokens =< Limit * (Second + MaxLag + last - from)
      BY <2>4 DEF GrantsPaid
    <3>3. Limit * (Second + MaxLag + last - from) =< Limit * (MaxLag + n - from)
      BY <1>1, <1>3, <3>1, Times
    <3>4. Limit * (Second + MaxLag + n - from) = Capacity + Limit * (MaxLag + n - from)
      BY <1>1, <1>3, CapacityType
    <3>5. /\ Limit * (MaxLag + n - from) \in Int
          /\ Limit * (Second + MaxLag + last - from) \in Int /\ granted * Second \in Int
      BY <1>1, <1>3
    <3>6. Filled(n) = Capacity BY <1>1, <2>4, FilledType
    <3> QED BY <1>3, <3>2, <3>3, <3>4, <3>5, <3>6, CapacityType
  <2> QED BY <1>3, <2>2, <2>3, <2>4
<1>6. granted' * Second + tokens' = granted * Second + Filled(n)
  BY <1>2, <1>3, CapacityType
<1> QED BY <1>2, <1>4, <1>5, <1>6 DEF GrantsPaid

LEMMA GrantsPaidNext ==
  ASSUME BucketTypeOK, Timely, GrantsPaid, [BucketNext]_bucketVars
  PROVE  GrantsPaid'
<1>1. ASSUME NEW p \in Processes, Send(p) \/ Deny(p) PROVE GrantsPaid'
  BY <1>1 DEF Send, Deny, Refused, GrantsPaid
<1>2. CASE Tick \/ UNCHANGED bucketVars BY <1>2 DEF Tick, bucketVars, GrantsPaid
<1>3. CASE Watch BY <1>3 DEF Watch, GrantsPaid
<1> QED BY <1>1, <1>2, <1>3, OneGrantPaid DEF BucketNext

LEMMA GrantsPaidSuffices == BucketTypeOK /\ Timely /\ GrantsPaid => RateBound
<1> SUFFICES ASSUME BucketTypeOK, Timely, GrantsPaid PROVE RateBound
  OBVIOUS
<1> USE TimeAssumption, RateAssumption
<1>1. granted \in Nat /\ last \in Int /\ tokens \in Nat /\ from \in Int /\ clock \in Int
      /\ from =< clock /\ last =< clock
  BY CapacityType DEF BucketTypeOK, Timely
<1>2. CASE granted = 0
  BY <1>1, <1>2, Times DEF RateBound
<1>3. CASE granted > 0
  <2>1. granted * Second + tokens =< Limit * (Second + MaxLag + last - from)
    BY <1>3 DEF GrantsPaid
  <2>2. Limit * (Second + MaxLag + last - from) =< Limit * (Second + MaxLag + clock - from)
    BY <1>1, Times
  <2>3. /\ Limit * (Second + MaxLag + last - from) \in Int /\ granted * Second \in Int
        /\ Limit * (Second + MaxLag + clock - from) \in Int
    BY <1>1
  <2> QED BY <1>1, <2>1, <2>2, <2>3 DEF RateBound
<1> QED BY <1>1, <1>2, <1>3

\* "Max tasks per second", for any rate, any expiry and any delay of the
\* calls, as long as they reach Redis in the order of their clocks.
THEOREM RateIsBounded ==
  ASSUME InOrder
  PROVE  BucketSpec => []RateBound
<1>1. BucketInit => Timely /\ GrantsPaid
  BY TimeAssumption, RateAssumption, NoCallAssumption DEF BucketInit, Timely, GrantsPaid
<1>2. BucketTypeOK /\ Timely /\ GrantsPaid /\ [BucketNext]_bucketVars => Timely' /\ GrantsPaid'
  BY TimelyNext, GrantsPaidNext
<1> QED
  BY <1>1, <1>2, BucketTypeInit, BucketTypeNext, GrantsPaidSuffices, PTL DEF BucketSpec

\* A denial means the rate is used up, for any number of callers in any order:
\* the timestamp is that of the latest grant ("On denial, does NOT update the
\* timestamp").
THEOREM DenialsAreDue == BucketSpec => DeniedOnlyWhenSpent
<1> DEFINE Stamped == last = spent
<1>1. BucketInit => Stamped BY DEF BucketInit
<1>2. Stamped /\ [BucketNext]_bucketVars => Stamped'
  BY DEF BucketNext, Send, Consume, Deny, Tick, Watch, bucketVars, Granted, Refused
<1>3. ASSUME BucketTypeOK, Stamped, [BucketNext]_bucketVars, NEW p \in Processes,
             denied' > denied, sent[p] # sent'[p]
      PROVE  Limit * (sent[p] - spent) < Second
  <2>1. PICK q \in Processes : Deny(q)
    BY <1>3 DEF BucketNext, Send, Consume, Tick, Watch, bucketVars, BucketTypeOK
  <2>2. p = q BY <1>3, <2>1 DEF Deny, BucketTypeOK
  <2>3. sent[p] \in Int /\ Filled(sent[p]) < Second
    BY <1>3, <2>1, <2>2 DEF Deny, BucketTypeOK
  <2> DEFINE idle == Larger(0, sent[p] - last)
  <2>4. idle \in Int /\ sent[p] - last =< idle BY <1>3, <2>3 DEF Larger, BucketTypeOK
  <2>5. tokens + Limit * idle < Second
    BY <1>3, <2>3, <2>4, CapacityType, RateAssumption, Times
       DEF Filled, Capped, Smaller, BucketTypeOK
  <2> HIDE DEF idle
  <2>6. Limit * (sent[p] - last) =< Limit * idle
    <3>1. sent[p] - last \in Int BY <1>3, <2>3 DEF BucketTypeOK
    <3> QED BY <2>4, <3>1, Times
  <2>7. Limit * idle \in Int /\ Limit * (sent[p] - last) \in Int /\ tokens \in Nat
    BY <1>3, <2>3, <2>4, Times, CapacityType DEF BucketTypeOK
  <2> QED BY <1>3, <2>5, <2>6, <2>7, RateAssumption
<1>4. BucketTypeOK /\ Stamped /\ [BucketNext]_bucketVars =>
        [\A p \in Processes : (denied' > denied /\ sent[p] # sent'[p]) =>
           Limit * (sent[p] - spent) < Second]_bucketVars
  BY <1>3
<1> QED
  BY <1>1, <1>2, <1>4, BucketTypeInit, BucketTypeNext, PTL
     DEF BucketSpec, DeniedOnlyWhenSpent
=============================================================================

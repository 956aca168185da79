--------------------------- MODULE DispatchProofs ---------------------------
(***************************************************************************)
(* What TLAPS proves of Dispatch for any number of tasks and pollers, any  *)
(* dependencies and any page size: only runnable tasks are taken, an       *)
(* ordinary task once per put, and a single call that nobody disturbs      *)
(* takes the first of them.                                                *)
(***************************************************************************)
EXTENDS Dispatch, SequenceTheorems, FiniteSetTheorems, WellFoundedInduction, TLAPS

\* What is left of a call after its candidate is a call, and either it reads
\* an entry next or it needs none.
LEMMA AdvanceIsCall ==
  ASSUME NEW k \in Call, Len(k.page) > 0
  PROVE  Advance(k) \in Call /\ InOrder(Advance(k)) /\ Advance(k).step # "acquire"
<1> DEFINE rest == Tail(k.page)
<1>1. rest \in Seq(Tasks)
  BY LenProperties, HeadTailProperties DEF Call
<1>2. k.offset + CHUNK_SIZE \in Nat
  BY DispatchAssumption DEF Call
<1>3. Done(k) \in Call /\ Done(k).step = "answer"
  BY EmptySeq DEF Call, Done, Step
<1> HIDE DEF rest
<1>4. CASE k.left = 0 \/ (Len(rest) = 0 /\ ~k.full)
  BY <1>3, <1>4 DEF Advance, rest, InOrder
<1>5. CASE k.left # 0 /\ Len(rest) > 0
  <2>1. Advance(k) = [k EXCEPT !.step = "read", !.page = rest]
    <3>1. Len(rest) # 0
      BY <1>5, <1>1, LenProperties
    <3> QED
      BY <1>5, <3>1, Zenon DEF Advance, rest
  <2> DEFINE m == [k EXCEPT !.step = "read", !.page = rest]
  <2>2. k.left \in Nat /\ 0 \in Nat /\ "read" \in Step
    BY DEF Call, Step
  <2>3. m \in Call /\ m.step = "read" /\ m.page = rest /\ m.left = k.left
    BY <2>2, <1>1 DEF Call
  <2> HIDE DEF m
  <2>4. Len(m.page) > 0 /\ m.left > 0
    BY <2>2, <2>3, <1>5
  <2> QED
    BY <2>1, <2>3, <2>4 DEF m, InOrder
<1>6. CASE k.left # 0 /\ ~(Len(rest) > 0) /\ ~(Len(rest) = 0 /\ ~k.full)
  <2>1. Advance(k) =
          [k EXCEPT !.step = "fetch", !.page = rest, !.offset = k.offset + CHUNK_SIZE]
    BY <1>6, Zenon DEF Advance, rest
  <2> DEFINE m == [k EXCEPT !.step = "fetch", !.page = rest, !.offset = k.offset + CHUNK_SIZE]
  <2>2. "fetch" \in Step
    BY DEF Step
  <2>3. m \in Call /\ m.step = "fetch" /\ m.left = k.left /\ k.left \in Nat
    BY <2>2, <1>1, <1>2 DEF Call
  <2> HIDE DEF m
  <2> QED
    BY <2>1, <2>3, <1>6 DEF m, InOrder
<1> QED
  BY <1>4, <1>5, <1>6

\* The candidate of a call at work is a task.
LEMMA CandidateIsTask ==
  ASSUME TypeOK, NEW p \in Pollers, call[p] # None,
         call[p].step \notin {"fetch", "answer"}
  PROVE  /\ call[p] \in Call /\ Len(call[p].page) > 0 /\ call[p].left > 0
         /\ Candidate(p) \in Tasks
<1>1. call[p] \in Call /\ Len(call[p].page) > 0 /\ call[p].left > 0
  BY DEF TypeOK, InOrder
<1>2. call[p].page \in Seq(Tasks)
  BY <1>1 DEF Call
<1> QED
  BY <1>1, <1>2 DEF Candidate

\* Skipping and handing out move the call on.
LEMMA SkipIsCall ==
  ASSUME TypeOK, NEW p \in Pollers, call[p] # None,
         call[p].step \notin {"fetch", "answer"}, Skip(p) \/ (\E t \in Tasks : Hand(p, t))
  PROVE  \E k \in Call :
           call' = [call EXCEPT ![p] = k] /\ InOrder(k) /\ k.step # "acquire"
<1>1. call[p] \in Call /\ Len(call[p].page) > 0 /\ call[p].left > 0
  BY CandidateIsTask
<1>2. CASE Skip(p)
  BY <1>1, <1>2, AdvanceIsCall DEF Skip
<1>3. CASE \E t \in Tasks : Hand(p, t)
  <2> DEFINE k == [call[p] EXCEPT !.left = call[p].left - 1]
  <2>1. k \in Call /\ Len(k.page) > 0
    BY <1>1 DEF Call
  <2>2. call' = [call EXCEPT ![p] = Advance(k)]
    BY <1>3 DEF Hand
  <2> HIDE DEF k
  <2> QED
    BY <2>1, <2>2, AdvanceIsCall
<1> QED
  BY <1>2, <1>3

\* Every step of a poller changes its own call: it ends it, or it moves it to
\* another command, and never to the acquiring of a task it has not checked.
LEMMA PollerMoves ==
  ASSUME TypeOK, NEW p \in Pollers, Poll(p)
  PROVE  \E k \in Call \cup {None} :
           /\ call' = [call EXCEPT ![p] = k]
           /\ k # None =>
                /\ InOrder(k)
                /\ k.step = "acquire" =>
                     /\ \A d \in DependsOn[Head(k.page)] : status[d] = "completed"
                     /\ Head(k.page) \in due /\ Head(k.page) \in Tasks
<1>1. CASE Begin(p)
  <2>1. PICK size \in BatchSizes \cup {0} :
          call' = [call EXCEPT ![p] =
            [single |-> size = 0, left |-> IF size = 0 THEN 1 ELSE size,
             step |-> "fetch", offset |-> 0, page |-> <<>>, full |-> TRUE]]
    BY <1>1 DEF Begin
  <2> DEFINE k == [single |-> size = 0, left |-> IF size = 0 THEN 1 ELSE size,
                   step |-> "fetch", offset |-> 0, page |-> <<>>, full |-> TRUE]
  <2>2. k \in Call /\ k.step = "fetch" /\ k.left > 0
    BY EmptySeq, DispatchAssumption DEF Call, Step
  <2> HIDE DEF k
  <2> QED
    BY <2>1, <2>2 DEF k, InOrder
<1>2. CASE Fetch(p)
  <2>1. PICK page \in Pages(call[p].offset) :
          call' = [call EXCEPT ![p] =
            IF Len(page) = 0 THEN Done(call[p])
            ELSE [call[p] EXCEPT !.step = "read", !.page = page,
                                 !.full = Len(page) = CHUNK_SIZE]]
    BY <1>2 DEF Fetch
  <2>2. call[p] \in Call /\ call[p].step = "fetch" /\ call[p].left > 0
    BY <1>2 DEF Fetch, At, TypeOK, InOrder
  <2>3. page \in Seq(Tasks)
    <3>1. InPage(call[p].offset) \subseteq Tasks
      BY DEF InPage, Queued
    <3>2. Cardinality(InPage(call[p].offset)) \in Nat
      BY <3>1, FS_Subset, FS_CardinalityType, DispatchAssumption
    <3>3. page \in [1 .. Cardinality(InPage(call[p].offset)) -> Tasks]
      BY <3>1 DEF Pages
    <3> QED
      BY <3>2, <3>3
  <2>4. CASE Len(page) = 0
    <3> DEFINE k == Done(call[p])
    <3>1. k \in Call /\ k.step = "answer"
      BY <2>2, EmptySeq DEF Done, Call, Step
    <3> HIDE DEF k
    <3> QED
      BY <2>1, <2>4, <3>1 DEF k, InOrder
  <2>5. CASE Len(page) # 0
    <3> DEFINE k == [call[p] EXCEPT !.step = "read", !.page = page,
                                    !.full = Len(page) = CHUNK_SIZE]
    <3>1. k \in Call /\ k.step = "read" /\ k.page = page /\ k.left = call[p].left
      BY <2>2, <2>3 DEF Call, Step
    <3>2. Len(page) > 0
      BY <2>3, <2>5, LenProperties
    <3>3. call' = [call EXCEPT ![p] = k]
      BY <2>1, <2>5, Zenon
    <3>4. InOrder(k)
      BY <2>2, <3>1, <3>2 DEF InOrder
    <3> HIDE DEF k
    <3> QED
      BY <3>1, <3>3, <3>4
  <2> QED
    BY <2>4, <2>5
<1>3. ASSUME call[p] # None, call[p].step \notin {"fetch", "answer"},
             Skip(p) \/ (\E t \in Tasks : Hand(p, t))
      PROVE  \E k \in Call \cup {None} :
           /\ call' = [call EXCEPT ![p] = k]
           /\ k # None =>
                InOrder(k) /\ k.step # "acquire"
  BY <1>3, SkipIsCall
<1>4. ASSUME NEW step \in Step, Goto(p, step), call[p] # None,
             call[p].step \notin {"fetch", "answer"}
      PROVE  \E k \in Call :
           /\ call' = [call EXCEPT ![p] = k]
           /\ k.step = step /\ k.page = call[p].page
           /\ step # "unqueue" \/ Voters[Candidate(p)] > 0 => InOrder(k)
  <2> DEFINE k == [call[p] EXCEPT !.step = step]
  <2>1. call[p] \in Call /\ Len(call[p].page) > 0 /\ call[p].left > 0
    BY <1>4, CandidateIsTask
  <2>2. k \in Call /\ k.step = step /\ k.page = call[p].page /\ k.left = call[p].left
    BY <2>1 DEF Call
  <2>3. call' = [call EXCEPT ![p] = k]
    BY <1>4 DEF Goto
  <2> HIDE DEF k
  <2> QED
    BY <2>1, <2>2, <2>3 DEF InOrder, Candidate
<1>5. CASE Read(p)
  <2>1. call[p] # None /\ call[p].step = "read" /\ Candidate(p) \in Tasks
    BY <1>5, CandidateIsTask DEF Read, At
  <2>2. \/ Skip(p) \/ Goto(p, "resolve")
        \/ Goto(p, "acquire") /\ DependsOn[Candidate(p)] = {} /\ Candidate(p) \in due
    BY <1>5, Zenon DEF Read
  <2> QED
    BY <2>1, <2>2, <1>3, <1>4 DEF Step, Candidate
<1>6. CASE Resolve(p)
  <2>1. call[p] # None /\ call[p].step = "resolve" /\ Candidate(p) \in Tasks
    BY <1>6, CandidateIsTask DEF Resolve, At
  <2>2. \/ Skip(p)
        \/ Goto(p, "acquire") /\ Resolves(Candidate(p)) /\ Candidate(p) \in due
    BY <1>6, Zenon DEF Resolve
  <2> QED
    BY <2>1, <2>2, <1>3, <1>4 DEF Step, Candidate, Resolves
<1>7. CASE Acquire(p) \/ Unqueue(p)
  <2>1. /\ call[p] # None /\ call[p].step \in {"acquire", "unqueue"}
        /\ Candidate(p) \in Tasks
    BY <1>7, CandidateIsTask DEF Acquire, Unqueue, At
  <2>2. Skip(p) \/ Hand(p, Candidate(p))
    BY <1>7, Zenon DEF Acquire, Unqueue
  <2> QED
    BY <2>1, <2>2, <1>3
<1>8. CASE Pick(p)
  <2>1. call[p] # None /\ call[p].step = "acquire" /\ Candidate(p) \in Tasks
    BY <1>8, CandidateIsTask DEF Pick, At
  <2>2. /\ Skip(p) \/ Hand(p, Candidate(p)) \/ Goto(p, "unqueue")
        /\ Voters[Candidate(p)] > 0
    BY <1>8, Zenon DEF Pick
  <2> QED
    BY <2>1, <2>2, <1>3, <1>4 DEF Step
<1>9. CASE Answer(p) \/ Cut(p)
  BY <1>9 DEF Answer, Cut, Return
<1> QED
  BY <1>1, <1>2, <1>5, <1>6, <1>7, <1>8, <1>9 DEF Poll

LEMMA PollerSteps ==
  ASSUME TypeOK, [Next]_vars
  PROVE  \/ \E p \in Pollers : Poll(p)
         \/ UNCHANGED call
BY DEF Next, Change, vars, Create, Requeue, Put, Complete, Cancel, Cleanup, ComesDue

\* The calls stay typed and in order, whoever moves.
LEMMA CallsKept ==
  ASSUME TypeOK, [Next]_vars
  PROVE  /\ call' \in [Pollers -> Call \cup {None}]
         /\ \A p \in Pollers : call'[p] # None => InOrder(call'[p])
<1>1. CASE UNCHANGED call
  BY <1>1 DEF TypeOK
<1>2. ASSUME NEW p \in Pollers, Poll(p)
      PROVE  /\ call' \in [Pollers -> Call \cup {None}]
             /\ \A q \in Pollers : call'[q] # None => InOrder(call'[q])
  <2>1. PICK k \in Call \cup {None} :
          call' = [call EXCEPT ![p] = k] /\ (k # None => InOrder(k))
    BY <1>2, PollerMoves
  <2> QED
    BY <2>1 DEF TypeOK
<1> QED
  BY <1>1, <1>2, PollerSteps

LEMMA TypesKept == TypeOK /\ [Next]_vars => TypeOK'
<1> SUFFICES ASSUME TypeOK, [Next]_vars PROVE TypeOK'
  OBVIOUS
<1>1. /\ call' \in [Pollers -> Call \cup {None}]
      /\ \A p \in Pollers : call'[p] # None => InOrder(call'[p])
  BY CallsKept
<1> DEFINE Rest ==
      /\ score' \in [Tasks -> Nat]
      /\ status' \in [Tasks -> {"none", "queued", "completed", "cancelled", "gone"}]
      /\ spare' \in [Tasks -> Int]
      /\ \A t \in Tasks : status'[t] = "completed" => t \in finished'
<1>2. ASSUME NEW p \in Pollers, Begin(p) \/ Fetch(p) \/ Read(p) \/ Resolve(p)
                                  \/ Answer(p) \/ Cut(p)
      PROVE  Rest
  BY <1>2 DEF TypeOK, Begin, Fetch, Read, Resolve, Answer, Cut, queue, history
<1>3. ASSUME NEW p \in Pollers, Acquire(p) \/ Pick(p) \/ Unqueue(p)
      PROVE  Rest
  <2>1. /\ UNCHANGED score \/ score' = [score EXCEPT ![Candidate(p)] = 0]
        /\ UNCHANGED <<status, finished>>
        /\ UNCHANGED spare \/ Hand(p, Candidate(p))
    BY <1>3 DEF Acquire, Pick, Unqueue
  <2>2. Candidate(p) \in Tasks
    BY <1>3, CandidateIsTask DEF Acquire, Pick, Unqueue, At
  <2> QED
    BY <2>1, <2>2 DEF TypeOK, Hand
<1>4. ASSUME NEW t \in Tasks, Create(t) \/ Requeue(t)
      PROVE  Rest
  <2>1. Put(t)
    BY <1>4 DEF Create, Requeue
  <2>2. PICK s \in Scores[t] : score' = [score EXCEPT ![t] = s]
    BY <2>1 DEF Put
  <2>3. s \in Nat
    BY <2>2, DispatchAssumption
  <2> QED
    BY <2>1, <2>2, <2>3 DEF TypeOK, Put
<1>5. ASSUME NEW t \in Tasks, Complete(t) \/ Cancel(t) \/ Cleanup(t) \/ ComesDue(t)
      PROVE  Rest
  <2>1. CASE Complete(t)
    BY <2>1 DEF TypeOK, Complete
  <2>2. CASE Cancel(t)
    BY <2>2 DEF TypeOK, Cancel, history
  <2>3. CASE Cleanup(t)
    BY <2>3 DEF TypeOK, Cleanup, history
  <2>4. CASE ComesDue(t)
    BY <2>4 DEF TypeOK, ComesDue, queue, history
  <2> QED
    BY <1>5, <2>1, <2>2, <2>3, <2>4
<1>6. ASSUME UNCHANGED vars PROVE Rest
  BY <1>6 DEF TypeOK, vars, queue, history
<1> HIDE DEF Rest
<1>7. Rest
  BY <1>2, <1>3, <1>4, <1>5, <1>6 DEF Next, Poll, Change
<1> QED
  BY <1>1, <1>7 DEF TypeOK, Rest

\* What is due stays due, and what once completed stays in `finished`.
LEMMA Growing ==
  ASSUME [Next]_vars
  PROVE  due \subseteq due' /\ finished \subseteq finished'
BY DEF Next, Poll, Change, vars, Begin, Fetch, Read, Resolve, Acquire, Pick, Unqueue, Answer, Cut,
       Create, Requeue, Put, Complete, Cancel, Cleanup, ComesDue, history

LEMMA RunnableKept == TypeOK /\ OnlyRunnable /\ [Next]_vars => OnlyRunnable'
<1> SUFFICES ASSUME TypeOK, OnlyRunnable, [Next]_vars PROVE OnlyRunnable'
  OBVIOUS
<1>1. CASE UNCHANGED call
  BY <1>1, Growing DEF OnlyRunnable, At, Candidate
<1>2. ASSUME NEW p \in Pollers, Poll(p)
      PROVE  OnlyRunnable'
  <2>1. PICK k \in Call \cup {None} :
          /\ call' = [call EXCEPT ![p] = k]
          /\ k # None /\ k.step = "acquire" =>
               /\ \A d \in DependsOn[Head(k.page)] : status[d] = "completed"
               /\ Head(k.page) \in due /\ Head(k.page) \in Tasks
    BY <1>2, PollerMoves
  <2>2. k # None /\ k.step = "acquire" => DependsOn[Head(k.page)] \subseteq finished
    BY <2>1, DispatchAssumption DEF TypeOK
  <2> QED
    BY <2>1, <2>2, Growing DEF TypeOK, OnlyRunnable, At, Candidate
<1> QED
  BY <1>1, <1>2, PollerSteps

LEMMA OnceKept == TypeOK /\ HandedOnce /\ [Next]_vars => HandedOnce'
<1> SUFFICES ASSUME TypeOK, HandedOnce, [Next]_vars,
                    NEW t \in Tasks, Voters[t] = 0
             PROVE  spare'[t] >= IF score'[t] # 0 THEN 1 ELSE 0
  BY DEF HandedOnce, Queued
<1> USE DEF TypeOK
<1>1. spare[t] \in Int /\ spare[t] >= IF score[t] # 0 THEN 1 ELSE 0
  BY DEF HandedOnce, Queued
<1>2. CASE UNCHANGED <<score, spare>>
  BY <1>1, <1>2
<1>3. ASSUME NEW p \in Pollers, Acquire(p) PROVE spare'[t] >= IF score'[t] # 0 THEN 1 ELSE 0
  <2>1. Candidate(p) \in Tasks
    BY <1>3, CandidateIsTask DEF Acquire, At
  <2>2. CASE Candidate(p) \in Queued
    BY <1>1, <1>3, <2>1, <2>2 DEF Acquire, Hand, Queued
  <2>3. CASE Candidate(p) \notin Queued
    BY <1>2, <1>3, <2>3 DEF Acquire
  <2> QED
    BY <2>2, <2>3
<1>4. ASSUME NEW p \in Pollers, Pick(p) \/ Unqueue(p)
      PROVE  spare'[t] >= IF score'[t] # 0 THEN 1 ELSE 0
  <2>1. Candidate(p) # t
    BY <1>4 DEF Pick, Unqueue, At, InOrder, Candidate
  <2> QED
    BY <1>1, <1>4, <2>1 DEF Pick, Unqueue, Hand
<1>5. ASSUME NEW u \in Tasks, Create(u) \/ Requeue(u)
      PROVE  spare'[t] >= IF score'[t] # 0 THEN 1 ELSE 0
  BY <1>1, <1>5 DEF Create, Requeue, Put
<1>6. ASSUME NEW u \in Tasks, Cancel(u)
      PROVE  spare'[t] >= IF score'[t] # 0 THEN 1 ELSE 0
  BY <1>1, <1>6 DEF Cancel, history
<1> QED
  BY <1>2, <1>3, <1>4, <1>5, <1>6
     DEF Next, Poll, Change, vars, queue, history, Begin, Fetch, Read, Resolve, Answer, Cut,
         Complete, Cleanup, ComesDue

IInv == TypeOK /\ OnlyRunnable /\ HandedOnce

\* The three invariants together are inductive: a candidate is a task because
\* the calls are typed, and a completed record is of a finished task.
THEOREM Inductive == Spec => []IInv
<1>1. Init => IInv
  BY DEF Init, IInv, TypeOK, OnlyRunnable, HandedOnce, At, Queued
<1>2. IInv /\ [Next]_vars => IInv'
  BY TypesKept, RunnableKept, OnceKept DEF IInv
<1> QED
  BY <1>1, <1>2, PTL DEF Spec

\* However many pollers page through a queue that changes under them, none is
\* ever about to take a task that is not due or whose dependencies have not
\* all completed (getNextTask, getNextBatch).
THEOREM TakenIsRunnable == Spec => []OnlyRunnable
BY Inductive, PTL DEF IInv

\* The ZREM that a poller checks gives an ordinary task to one of them: it is
\* handed out no more often than it was put on the queue.
THEOREM EachPutIsHandedOnce == Spec => []HandedOnce
BY Inductive, PTL DEF IInv

\* The types of the queue, the records and the calls.
THEOREM TypesCorrect == Spec => []TypeOK
BY Inductive, PTL DEF IInv
---------------------------------------------------------------------------
(* Ranks and pages.                                                        *)

\* No two entries of the queue have the same score.
Distinct == \A t, u \in Queued : score[t] = score[u] => t = u

LEMMA Least ==
  ASSUME NEW S \in SUBSET Nat, S # {}
  PROVE  \E m \in S : \A k \in S : m =< k
<1> DEFINE R == OpToRel(<, Nat)
<1>1. IsWellFoundedOn(R, Nat) BY NatLessThanWellFounded
<1>2. \A i, j \in Nat : i < j => <<i, j>> \in R BY DEF OpToRel
<1> HIDE DEF R
<1>3. PICK m \in S : \A k \in S : <<k, m>> \notin R BY <1>1, WFMin
<1>4. \A k \in S : ~(k < m) BY <1>2, <1>3
<1>5. \A k \in S : m =< k BY <1>4
<1> QED BY <1>5

LEMMA QueuedSizes ==
  ASSUME NEW S \in SUBSET Queued
  PROVE  /\ IsFiniteSet(S) /\ Cardinality(S) \in Nat
         /\ \A T \in SUBSET S :
              /\ Cardinality(T) \in Nat /\ Cardinality(T) =< Cardinality(S)
              /\ T # S => Cardinality(T) < Cardinality(S)
<1>1. IsFiniteSet(S) /\ Cardinality(S) \in Nat
  BY DispatchAssumption, FS_Subset, FS_CardinalityType DEF Queued
<1>2. ASSUME NEW T \in SUBSET S
      PROVE  /\ Cardinality(T) \in Nat /\ Cardinality(T) =< Cardinality(S)
             /\ T # S => Cardinality(T) < Cardinality(S)
  <2>1. /\ IsFiniteSet(T) /\ Cardinality(T) =< Cardinality(S)
        /\ Cardinality(S) = Cardinality(T) => S = T
    BY <1>1, FS_Subset
  <2>2. Cardinality(T) \in Nat BY <2>1, FS_CardinalityType
  <2> QED BY <1>1, <2>1, <2>2
<1> QED BY <1>1, <1>2

\* An entry of a higher score has a lower rank.
LEMMA RankOrder ==
  ASSUME TypeOK, NEW t \in Tasks
  PROVE  /\ Rank(t) \in Nat
         /\ \A u \in Queued : score[u] > score[t] => Rank(u) < Rank(t)
<1> DEFINE Above(u) == {v \in Queued : score[v] > score[u]}
<1>1. Rank(t) \in Nat BY QueuedSizes DEF Rank
<1>2. ASSUME NEW u \in Queued, score[u] > score[t] PROVE Rank(u) < Rank(t)
  <2>1. u \in Tasks /\ score[u] \in Nat /\ score[t] \in Nat BY DEF Queued, TypeOK
  <2>2. Above(u) \subseteq Above(t) BY <1>2, <2>1 DEF TypeOK, Queued
  <2>3. u \in Above(t) /\ u \notin Above(u) BY <1>2, <2>1
  <2>4. Above(u) # Above(t) BY <2>3
  <2> HIDE DEF Above
  <2>5. Cardinality(Above(u)) < Cardinality(Above(t))
    <3>1. Above(t) \in SUBSET Queued BY DEF Above
    <3> QED BY <2>2, <2>4, <3>1, QueuedSizes
  <2> QED BY <2>5 DEF Rank, Above
<1> QED BY <1>1, <1>2

First(m) == {u \in Queued : Rank(u) < m}

\* As long as there are that many entries, m of them have a rank below m.
LEMMA FirstSizes ==
  ASSUME TypeOK, Distinct, NEW m \in Nat
  PROVE  /\ Cardinality(First(m)) =< m
         /\ Cardinality(Queued) >= m => Cardinality(First(m)) >= m
<1>1. /\ First(m) \in SUBSET Queued /\ IsFiniteSet(First(m))
      /\ Cardinality(First(m)) \in Nat
  BY QueuedSizes DEF First
<1>2. \A u \in Queued : u \in Tasks /\ score[u] \in Nat /\ Rank(u) \in Nat
  BY RankOrder DEF Queued, TypeOK
<1>3. Cardinality(First(m)) =< m
  <2>1. CASE First(m) = {} BY <2>1, FS_EmptySet
  <2>2. CASE First(m) # {}
    <3> DEFINE lows == {score[u] : u \in First(m)}
    <3>1. lows \in SUBSET Nat /\ lows # {} BY <1>1, <1>2, <2>2
    <3>2. PICK low \in lows : \A i \in lows : low =< i
      <4> HIDE DEF lows
      <4> QED BY <3>1, Least
    <3>3. PICK u \in First(m) : low = score[u] BY <3>2
    <3>4. \A v \in First(m) \ {u} : score[v] > score[u]
      BY <1>1, <1>2, <3>2, <3>3 DEF Distinct
    <3>5. First(m) \ {u} \subseteq {v \in Queued : score[v] > score[u]} BY <1>1, <3>4
    <3>6. Cardinality(First(m) \ {u}) =< Rank(u) BY <3>5, QueuedSizes DEF Rank
    <3>7. Cardinality(First(m) \ {u}) = Cardinality(First(m)) - 1 BY <1>1, FS_RemoveElement
    <3>8. Rank(u) < m /\ Rank(u) \in Nat BY <1>1, <1>2 DEF First
    <3> QED BY <1>1, <3>6, <3>7, <3>8
  <2> QED BY <2>1, <2>2
<1>4. ASSUME Cardinality(Queued) >= m, ~(Cardinality(First(m)) >= m) PROVE FALSE
  <2>1. Queued \ First(m) # {}
    <3>1. Queued # First(m) BY <1>4
    <3> QED BY <1>1, <3>1
  <2> DEFINE ranks == {Rank(u) : u \in Queued \ First(m)}
  <2>2. ranks \in SUBSET Nat /\ ranks # {} BY <1>2, <2>1
  <2>3. PICK low \in ranks : \A i \in ranks : low =< i
    <3> HIDE DEF ranks
    <3> QED BY <2>2, Least
  <2>4. PICK u \in Queued \ First(m) : low = Rank(u) BY <2>3
  <2>5. ASSUME NEW v \in Queued, score[v] > score[u] PROVE v \in First(m)
    <3>1. Rank(v) < Rank(u) BY <1>2, <2>4, <2>5, RankOrder
    <3>2. ~(Rank(u) =< Rank(v)) BY <1>2, <2>4, <3>1
    <3> QED BY <2>3, <2>4, <2>5, <3>2
  <2>6. {v \in Queued : score[v] > score[u]} \subseteq First(m) BY <2>5
  <2>7. Rank(u) =< Cardinality(First(m)) BY <1>1, <2>6, QueuedSizes DEF Rank
  <2>8. Rank(u) \in Nat /\ ~(Rank(u) < m) BY <1>2, <2>4 DEF First
  <2> QED BY <1>1, <1>4, <2>7, <2>8
<1> QED BY <1>3, <1>4

\* A page with entries behind it is full, and no fuller.
LEMMA PageIsFull ==
  ASSUME TypeOK, Distinct, NEW offset \in Nat, NEW t \in Queued,
         Rank(t) >= offset + CHUNK_SIZE
  PROVE  Cardinality(InPage(offset)) = CHUNK_SIZE
<1> DEFINE below == First(offset)
           both == First(offset + CHUNK_SIZE)
<1>1. CHUNK_SIZE \in Nat /\ offset + CHUNK_SIZE \in Nat BY DispatchAssumption
<1>2. \A u \in Queued : Rank(u) \in Nat BY RankOrder DEF Queued
<1>3. Rank(t) =< Cardinality(Queued) /\ Cardinality(Queued) \in Nat
  BY QueuedSizes DEF Rank
<1>4. Rank(t) \in Nat BY <1>2
<1>5. /\ Cardinality(both) >= offset + CHUNK_SIZE /\ Cardinality(both) =< offset + CHUNK_SIZE
      /\ Cardinality(below) >= offset /\ Cardinality(below) =< offset
  <2>1. Cardinality(Queued) >= offset + CHUNK_SIZE /\ Cardinality(Queued) >= offset
    BY <1>1, <1>3, <1>4
  <2> QED BY <1>1, <2>1, FirstSizes
<1>6. both \cap below = below BY <1>1, <1>2 DEF First
<1>7. InPage(offset) = both \ below
  <2>1. InPage(offset) = {u \in Queued : Rank(u) >= offset /\ Rank(u) < offset + CHUNK_SIZE}
    BY <1>1, <1>2 DEF InPage, Queued
  <2> QED BY <1>1, <1>2, <2>1 DEF First
<1>8. /\ both \in SUBSET Queued /\ below \in SUBSET Queued BY DEF First
<1> HIDE DEF both, below
<1>9. /\ IsFiniteSet(both) /\ Cardinality(both) \in Nat /\ Cardinality(below) \in Nat
  BY <1>8, QueuedSizes
<1>10. Cardinality(InPage(offset)) = Cardinality(both) - Cardinality(below)
  BY <1>6, <1>7, <1>9, FS_Difference
<1> QED BY <1>1, <1>5, <1>9, <1>10

Inside(k, t) == \E i \in DOMAIN k.page : k.page[i] = t

\* The entries of a page are all those of its ranks.
LEMMA PageIsComplete ==
  ASSUME TypeOK, NEW offset \in Nat, NEW page \in Pages(offset)
  PROVE  /\ page \in Seq(Tasks) /\ Len(page) = Cardinality(InPage(offset))
         /\ \A i \in DOMAIN page : page[i] \in InPage(offset)
         /\ \A t \in InPage(offset) : \E i \in DOMAIN page : page[i] = t
<1> DEFINE n == Cardinality(InPage(offset))
<1>1. InPage(offset) \in SUBSET Queued /\ InPage(offset) \subseteq Tasks
  BY DEF InPage, Queued
<1>2. IsFiniteSet(InPage(offset)) /\ n \in Nat BY <1>1, QueuedSizes
<1>3. page \in [1 .. n -> InPage(offset)] BY DEF Pages
<1>4. page \in Injection(1 .. n, InPage(offset))
  <2>1. ASSUME NEW i \in 1 .. n, NEW j \in 1 .. n, i < j PROVE page[i] # page[j]
    <3>1. score[page[i]] > score[page[j]] BY <1>3, <2>1 DEF Pages
    <3>2. score[page[i]] \in Nat BY <1>1, <1>3, <2>1 DEF TypeOK
    <3> QED BY <3>1, <3>2
  <2>2. ASSUME NEW i \in 1 .. n, NEW j \in 1 .. n, page[i] = page[j] PROVE i = j
    BY <1>2, <2>1, <2>2
  <2> QED BY <1>3, <2>2 DEF Injection, IsInjective
<1>5. Cardinality(1 .. n) = n BY <1>2, FS_Interval
<1>6. page \in Surjection(1 .. n, InPage(offset)) BY <1>2, <1>4, <1>5, FS_Injection
<1>7. page \in Seq(Tasks) /\ Len(page) = n /\ DOMAIN page = 1 .. n
  <2>1. page \in [1 .. n -> Tasks] BY <1>1, <1>3
  <2> QED BY <1>2, <2>1
<1> QED BY <1>3, <1>6, <1>7 DEF Surjection

---------------------------------------------------------------------------
(* Nothing runnable is overlooked.                                         *)

\* A page that is being gone through is in order.
Steep(k) ==
  /\ \A i, j \in DOMAIN k.page : i < j => score[k.page[i]] > score[k.page[j]]
  /\ \A i \in DOMAIN k.page : k.page[i] \in Queued /\ Rank(k.page[i]) < k.offset + CHUNK_SIZE

\* What is left to look at has all of S: the rest of the page and, behind a
\* full one, the pages after it.
Awaits(k, S) ==
  /\ k.step = "answer" => S = {}
  /\ k.step = "fetch" => \A t \in S : Rank(t) >= k.offset
  /\ k.step \notin {"fetch", "answer"} =>
       /\ Steep(k)
       /\ \A t \in S : Inside(k, t) \/ (k.full /\ Rank(t) >= k.offset + CHUNK_SIZE)

\* A call at this step takes t when it gets to it, or is just taking it.
MayTake(t, step) ==
  /\ t \in Queued /\ Stored(t) /\ t \in due /\ Resolves(t)
  /\ Voters[t] = 0 \/ dispatched[t] < Voters[t] \/ step = "unqueue"

Looking(p) == call[p] # None /\ call[p].single /\ call[p].left # 0 /\ sure[p] # {}

Expects(p) ==
  Looking(p) => /\ Awaits(call[p], sure[p])
                /\ \A t \in sure[p] : MayTake(t, call[p].step)

Kinds == /\ dispatched \in [Tasks -> Nat] /\ due \subseteq Tasks
         /\ sure \in [Pollers -> SUBSET Tasks]

OneLeft == \A p \in Pollers : call[p] # None /\ call[p].single => call[p].left =< 1

PageInv == Kinds /\ Distinct /\ OneLeft /\ \A p \in Pollers : Expects(p)

LEMMA AdvanceAwaits ==
  ASSUME TypeOK, NEW k \in Call, Len(k.page) > 0, k.step \notin {"fetch", "answer"},
         k.left # 0, NEW S \in SUBSET Tasks, Awaits(k, S), Head(k.page) \notin S
  PROVE  Awaits(Advance(k), S)
<1> DEFINE rest == Tail(k.page)
<1>1. /\ rest \in Seq(Tasks) /\ Len(rest) = Len(k.page) - 1
      /\ \A i \in 1 .. Len(rest) : rest[i] = k.page[i + 1]
      /\ Head(k.page) = k.page[1]
      /\ k.page \in Seq(Tasks) /\ Len(k.page) \in Nat /\ Len(rest) \in Nat
      /\ DOMAIN k.page = 1 .. Len(k.page) /\ DOMAIN rest = 1 .. Len(rest)
  BY LenProperties, HeadTailProperties DEF Call
<1>2. /\ Steep(k)
      /\ \A t \in S : Inside(k, t) \/ (k.full /\ Rank(t) >= k.offset + CHUNK_SIZE)
  BY DEF Awaits
<1>3. ASSUME NEW t \in S, Inside(k, t) PROVE \E i \in DOMAIN rest : rest[i] = t
  <2>1. PICK i \in DOMAIN k.page : k.page[i] = t BY <1>3 DEF Inside
  <2>2. i # 1 BY <1>1, <2>1
  <2>3. i - 1 \in DOMAIN rest /\ rest[i - 1] = k.page[i] BY <1>1, <2>1, <2>2
  <2> QED BY <2>1, <2>3
<1> HIDE DEF rest
<1>4. CASE Len(rest) = 0 /\ ~k.full
  <2>1. S = {} BY <1>1, <1>2, <1>3, <1>4
  <2>2. Advance(k) = Done(k) BY <1>4, Zenon DEF Advance, rest
  <2>3. Done(k).step = "answer" BY DEF Done, Call
  <2> QED BY <2>1, <2>2, <2>3 DEF Awaits
<1>5. CASE Len(rest) > 0
  <2> DEFINE m == [k EXCEPT !.step = "read", !.page = rest]
  <2>1. Advance(k) = m
    <3>1. Len(rest) # 0 BY <1>1, <1>5
    <3> QED BY <1>5, <3>1, Zenon DEF Advance, rest
  <2>2. m.step = "read" /\ m.page = rest /\ m.full = k.full /\ m.offset = k.offset
    BY DEF Call
  <2> HIDE DEF m
  <2>3. \A i \in DOMAIN rest : rest[i] = k.page[i + 1] /\ i + 1 \in DOMAIN k.page
    BY <1>1
  <2>4. Steep(m)
    <3>1. \A i, j \in DOMAIN rest : i < j => score[rest[i]] > score[rest[j]]
      <4> SUFFICES ASSUME NEW i \in DOMAIN rest, NEW j \in DOMAIN rest, i < j
                   PROVE  score[rest[i]] > score[rest[j]]
        OBVIOUS
      <4>1. i + 1 \in DOMAIN k.page /\ j + 1 \in DOMAIN k.page /\ i + 1 < j + 1
        BY <1>1, <2>3
      <4>2. score[k.page[i + 1]] > score[k.page[j + 1]] BY <1>2, <4>1 DEF Steep
      <4> QED BY <2>3, <4>2
    <3>2. \A i \in DOMAIN rest : rest[i] \in Queued /\ Rank(rest[i]) < k.offset + CHUNK_SIZE
      BY <1>2, <2>3 DEF Steep
    <3> QED BY <2>2, <3>1, <3>2 DEF Steep
  <2> QED BY <1>2, <1>3, <2>1, <2>2, <2>4 DEF Awaits, Inside
<1>6. CASE Len(rest) = 0 /\ k.full
  <2> DEFINE m == [k EXCEPT !.step = "fetch", !.page = rest, !.offset = k.offset + CHUNK_SIZE]
  <2>1. Advance(k) = m
    <3>1. ~(Len(rest) > 0) BY <1>1, <1>6
    <3> QED BY <1>6, <3>1, Zenon DEF Advance, rest
  <2>2. m.step = "fetch" /\ m.offset = k.offset + CHUNK_SIZE BY DEF Call
  <2> HIDE DEF m
  <2>3. \A t \in S : Rank(t) >= k.offset + CHUNK_SIZE BY <1>1, <1>2, <1>3, <1>6
  <2> QED BY <2>1, <2>2, <2>3 DEF Awaits
<1>7. Len(rest) = 0 \/ Len(rest) > 0
  <2>1. Len(rest) \in Nat BY <1>1
  <2> QED BY <2>1
<1> QED BY <1>4, <1>5, <1>6, <1>7, Zenon

LEMMA FetchAwaits ==
  ASSUME TypeOK, Distinct, NEW k \in Call, k.step = "fetch",
         NEW page \in Pages(k.offset), NEW S \in SUBSET Queued, Awaits(k, S)
  PROVE  Awaits(IF Len(page) = 0 THEN Done(k)
                ELSE [k EXCEPT !.step = "read", !.page = page,
                               !.full = Len(page) = CHUNK_SIZE], S)
<1>1. k.offset \in Nat /\ CHUNK_SIZE \in Nat \ {0} BY DispatchAssumption DEF Call
<1>2. /\ page \in Seq(Tasks) /\ Len(page) = Cardinality(InPage(k.offset))
      /\ \A i \in DOMAIN page : page[i] \in InPage(k.offset)
      /\ \A t \in InPage(k.offset) : \E i \in DOMAIN page : page[i] = t
  BY <1>1, PageIsComplete
<1>3. Len(page) \in Nat /\ DOMAIN page = 1 .. Len(page) BY <1>2, LenProperties
<1>4. \A t \in Queued : t \in Tasks /\ Rank(t) \in Nat BY RankOrder DEF Queued
<1>5. ASSUME NEW t \in S, t \notin InPage(k.offset)
      PROVE  Rank(t) >= k.offset + CHUNK_SIZE
  BY <1>1, <1>4, <1>5 DEF Awaits, InPage, Queued
<1>6. ASSUME NEW t \in S, t \notin InPage(k.offset) PROVE Len(page) = CHUNK_SIZE
  BY <1>1, <1>2, <1>5, <1>6, PageIsFull
<1>7. CASE Len(page) = 0
  <2>1. S = {}
    <3> SUFFICES ASSUME NEW t \in S PROVE FALSE OBVIOUS
    <3>1. t \in InPage(k.offset) BY <1>1, <1>6, <1>7
    <3> QED BY <1>2, <1>3, <1>7, <3>1
  <2>2. Done(k).step = "answer" BY DEF Done, Call
  <2> QED BY <1>7, <2>1, <2>2 DEF Awaits
<1>8. CASE Len(page) # 0
  <2> DEFINE m == [k EXCEPT !.step = "read", !.page = page, !.full = Len(page) = CHUNK_SIZE]
  <2>1. /\ m.step = "read" /\ m.page = page /\ m.offset = k.offset
        /\ m.full <=> Len(page) = CHUNK_SIZE
    BY DEF Call
  <2> HIDE DEF m
  <2>2. Steep(m)
    <3>1. \A i, j \in DOMAIN page : i < j => score[page[i]] > score[page[j]]
      BY DEF Pages
    <3>2. \A i \in DOMAIN page : page[i] \in Queued /\ Rank(page[i]) < k.offset + CHUNK_SIZE
      BY <1>1, <1>2, <1>4 DEF InPage
    <3> QED BY <2>1, <3>1, <3>2 DEF Steep
  <2>3. \A t \in S : Inside(m, t) \/ (m.full /\ Rank(t) >= m.offset + CHUNK_SIZE)
    BY <1>2, <1>5, <1>6, <2>1 DEF Inside
  <2>4. Awaits(m, S) BY <2>1, <2>2, <2>3 DEF Awaits
  <2> QED BY <1>8, <2>4 DEF m
<1> QED BY <1>7, <1>8

\* Awaiting and being there to be taken depend on the store only.
LEMMA Stays ==
  ASSUME UNCHANGED score, NEW k, NEW S
  PROVE  Awaits(k, S) => Awaits(k, S)'
BY DEF Awaits, Steep, Inside, Rank, Queued

LEMMA MayStillTake ==
  ASSUME UNCHANGED <<score, status, dispatched, due>>, NEW t, NEW step, NEW next,
         step # "unqueue", MayTake(t, step)
  PROVE  MayTake(t, next)'
BY DEF MayTake, Queued, Stored, Resolves

\* Somebody else's step leaves what a call awaits as it is, or ends its being
\* sure of anything.
LEMMA OthersLeaveIt ==
  ASSUME TypeOK, Kinds, [Next]_vars, NEW p \in Pollers, ~Poll(p), sure'[p] # {}
  PROVE  /\ call'[p] = call[p] /\ sure'[p] = sure[p] /\ score' = score
         /\ \A t \in Tasks, step \in Step : MayTake(t, step) => MayTake(t, step)'
<1> DEFINE Left == /\ call'[p] = call[p] /\ sure'[p] = sure[p]
                   /\ score' = score /\ dispatched' = dispatched
                   /\ due \subseteq due'
                   /\ \A t \in Tasks : /\ Stored(t) => status'[t] \notin {"none", "gone"}
                                       /\ status[t] = "completed" => status'[t] = "completed"
<1> USE DEF TypeOK, Kinds
<1>1. ASSUME NEW q \in Pollers, Poll(q) PROVE Left
  <2>1. q # p BY <1>1
  <2>2. ASSUME NEW k, call' = [call EXCEPT ![q] = k] PROVE call'[p] = call[p]
    BY <2>1, <2>2
  <2>3. call'[p] = call[p] BY <1>1, <2>2, PollerMoves
  <2>4. UNCHANGED <<score, status, dispatched, due>> /\ sure'[p] = sure[p]
    <3>1. CASE Begin(q) \/ Answer(q) \/ Cut(q)
      BY <2>1, <3>1 DEF Begin, Answer, Cut, Return, queue
    <3>2. CASE Fetch(q) \/ Read(q) \/ Resolve(q)
      BY <3>2 DEF Fetch, Read, Resolve, queue
    <3>3. CASE Acquire(q)
      BY <2>1, <3>3 DEF Acquire, Hand
    <3>4. CASE Pick(q)
      BY <2>1, <3>4, Zenon DEF Pick, Hand, Disturb
    <3>5. CASE Unqueue(q)
      BY <2>1, <3>5 DEF Unqueue, Hand
    <3> QED BY <1>1, <3>1, <3>2, <3>3, <3>4, <3>5 DEF Poll
  <2> QED BY <2>3, <2>4 DEF Stored
<1>2. ASSUME NEW t \in Tasks, Change(t) PROVE Left
  <2>1. p # None BY NoneAssumption
  <2>2. CASE Complete(t) BY <2>2 DEF Complete, Stored
  <2>3. CASE ComesDue(t) BY <2>3 DEF ComesDue, queue, Stored
  <2>4. CASE Create(t) \/ Requeue(t) \/ Cancel(t) \/ Cleanup(t)
    BY <2>1, <2>4 DEF Create, Requeue, Put, Cancel, Cleanup, Disturb
  <2> QED BY <1>2, <2>2, <2>3, <2>4 DEF Change
<1>3. ASSUME UNCHANGED vars PROVE Left BY <1>3 DEF vars, queue, Stored
<1>4. Left BY <1>1, <1>2, <1>3 DEF Next
<1> HIDE DEF Left
<1>5. \A t \in Tasks, step \in Step : MayTake(t, step) => MayTake(t, step)'
  BY <1>4, DispatchAssumption DEF Left, MayTake, Queued, Stored, Resolves
<1> QED BY <1>4, <1>5 DEF Left

LEMMA DistinctNext == TypeOK /\ Distinct /\ [Next]_vars => Distinct'
<1> SUFFICES ASSUME TypeOK, Distinct, [Next]_vars PROVE Distinct'
  OBVIOUS
<1> USE DEF TypeOK, Distinct, Queued
<1>1. ASSUME UNCHANGED score PROVE Distinct' BY <1>1
<1>2. ASSUME NEW t \in Tasks, score' = [score EXCEPT ![t] = 0] PROVE Distinct'
  BY <1>2
<1>3. ASSUME NEW t \in Tasks, Put(t) PROVE Distinct' BY <1>3 DEF Put
<1>4. ASSUME NEW p \in Pollers, Acquire(p) \/ Unqueue(p) PROVE Distinct'
  BY <1>1, <1>2, <1>4, CandidateIsTask DEF Acquire, Unqueue, At
<1> QED
  BY <1>1, <1>2, <1>3, <1>4 DEF Next, Poll, Change, vars, queue, Begin, Fetch, Read, Resolve, Pick,
     Answer, Cut, Create, Requeue, Complete, Cancel, Cleanup, ComesDue

LEMMA KindsNext == TypeOK /\ Kinds /\ [Next]_vars => Kinds'
<1> SUFFICES ASSUME TypeOK, Kinds, [Next]_vars PROVE Kinds'
  OBVIOUS
<1> USE DEF Kinds
<1>1. ASSUME NEW p \in Pollers, Poll(p) PROVE Kinds'
  <2>1. due' = due
    BY <1>1 DEF Poll, Begin, Fetch, Read, Resolve, Acquire, Pick, Unqueue, Answer, Cut
  <2>2. dispatched' \in [Tasks -> Nat]
    <3>1. CASE Pick(p)
      <4>1. Candidate(p) \in Tasks BY <3>1, CandidateIsTask DEF Pick, At
      <4> QED BY <3>1, <4>1 DEF Pick
    <3> QED
      BY <1>1, <3>1 DEF Poll, Begin, Fetch, Read, Resolve, Acquire, Unqueue, Answer, Cut, queue
  <2>3. sure' \in [Pollers -> SUBSET Tasks]
    <3>1. CASE Begin(p) BY <3>1 DEF Begin
    <3>2. CASE Pick(p) BY <3>2, Zenon DEF Pick, Hand, Disturb
    <3>3. CASE Acquire(p) \/ Unqueue(p) BY <3>3 DEF Acquire, Unqueue, Hand
    <3>4. CASE Answer(p) \/ Cut(p) BY <3>4 DEF Answer, Cut, Return
    <3> QED BY <1>1, <3>1, <3>2, <3>3, <3>4 DEF Poll, Fetch, Read, Resolve
  <2> QED BY <2>1, <2>2, <2>3
<1>2. ASSUME NEW t \in Tasks, Change(t) PROVE Kinds'
  BY <1>2 DEF Change, Create, Requeue, Put, Complete, Cancel, Cleanup, ComesDue, Disturb, queue
<1>3. CASE UNCHANGED vars BY <1>3 DEF vars, queue
<1> QED BY <1>1, <1>2, <1>3 DEF Next

\* What a step leaves of the call in progress: nothing, or it looks for no
\* more tasks than before.
LEMMA CallGoesOn ==
  ASSUME TypeOK, NEW p \in Pollers, Poll(p), ~Begin(p)
  PROVE  /\ call[p] # None /\ call[p] \in Call
         /\ call'[p] # None => /\ call'[p].single = call[p].single
                              /\ call'[p].left =< call[p].left
<1>1. call[p] # None /\ call[p] \in Call /\ call[p].left \in Nat
  BY DEF Poll, Fetch, Read, Resolve, Acquire, Pick, Unqueue, Answer, Cut, At, TypeOK, Call
<1>2. ASSUME NEW k \in Call
      PROVE  Advance(k).single = k.single /\ Advance(k).left = k.left
  BY DEF Advance, Done, Call
<1>3. ASSUME Skip(p) PROVE call'[p].single = call[p].single /\ call'[p].left = call[p].left
  BY <1>1, <1>2, <1>3 DEF Skip, TypeOK
<1>4. ASSUME NEW t, Hand(p, t), call[p].left > 0
      PROVE  call'[p].single = call[p].single /\ call'[p].left =< call[p].left
  <2> DEFINE k == [call[p] EXCEPT !.left = call[p].left - 1]
  <2>1. k \in Call /\ k.single = call[p].single /\ k.left =< call[p].left
    BY <1>1, <1>4 DEF Call
  <2>2. call'[p] = Advance(k) BY <1>4 DEF Hand, TypeOK
  <2> HIDE DEF k
  <2> QED BY <1>2, <2>1, <2>2
<1>5. ASSUME NEW step, Goto(p, step)
      PROVE  call'[p].single = call[p].single /\ call'[p].left = call[p].left
  BY <1>1, <1>5 DEF Goto, TypeOK, Call
<1>6. CASE Fetch(p)
  BY <1>1, <1>6 DEF Fetch, Done, TypeOK, Call
<1>7. CASE Read(p) \/ Resolve(p)
  BY <1>1, <1>3, <1>5, <1>7 DEF Read, Resolve
<1>8. CASE Acquire(p) \/ Pick(p) \/ Unqueue(p)
  <2>1. call[p].left > 0 BY <1>8, CandidateIsTask DEF Acquire, Pick, Unqueue, At
  <2>2. \/ Skip(p) \/ Goto(p, "unqueue") \/ \E t : Hand(p, t)
    BY <1>8, Zenon DEF Acquire, Pick, Unqueue
  <2> QED BY <1>1, <1>3, <1>4, <1>5, <2>1, <2>2
<1>9. CASE Answer(p) \/ Cut(p)
  BY <1>1, <1>9 DEF Answer, Cut, Return, TypeOK
<1> QED BY <1>1, <1>6, <1>7, <1>8, <1>9 DEF Poll

LEMMA OneLeftNext == TypeOK /\ OneLeft /\ [Next]_vars => OneLeft'
<1> SUFFICES ASSUME TypeOK, OneLeft, [Next]_vars, NEW p \in Pollers,
                    call'[p] # None, call'[p].single
             PROVE  call'[p].left =< 1
  BY DEF OneLeft
<1>1. CASE UNCHANGED call BY <1>1 DEF OneLeft
<1>2. ASSUME NEW q \in Pollers, Poll(q), q # p PROVE call'[p].left =< 1
  <2>1. call'[p] = call[p] BY <1>2, PollerMoves DEF TypeOK
  <2> QED BY <2>1 DEF OneLeft
<1>3. CASE Begin(p)
  <2>1. PICK size \in BatchSizes \cup {0} :
          call'[p] = [single |-> size = 0, left |-> IF size = 0 THEN 1 ELSE size,
                      step |-> "fetch", offset |-> 0, page |-> <<>>, full |-> TRUE]
    BY <1>3 DEF Begin, TypeOK
  <2> DEFINE one == size = 0
             many == IF size = 0 THEN 1 ELSE size
  <2>2. call'[p] = [single |-> one, left |-> many, step |-> "fetch", offset |-> 0,
                    page |-> <<>>, full |-> TRUE]
    BY <2>1
  <2>3. one => many =< 1 OBVIOUS
  <2> HIDE DEF one, many
  <2>4. one /\ call'[p].left = many BY <2>2
  <2> QED BY <2>3, <2>4
<1>4. CASE Poll(p) /\ ~Begin(p)
  <2>1. /\ call[p] # None /\ call[p] \in Call /\ call[p].single
        /\ call'[p].left =< call[p].left
    BY <1>4, CallGoesOn
  <2>2. call[p].left =< 1 BY <2>1 DEF OneLeft
  <2>3. call[p].left \in Nat /\ call'[p].left \in Nat
    <3>1. call'[p] \in Call BY CallsKept
    <3> QED BY <2>1, <3>1 DEF Call
  <2> QED BY <2>1, <2>2, <2>3
<1> QED BY <1>1, <1>2, <1>3, <1>4, PollerSteps

\* Every step of a poller keeps what its call awaits ahead of it.
LEMMA PollerExpects ==
  ASSUME TypeOK, PageInv, NEW p \in Pollers, Poll(p), Looking(p)'
  PROVE  (Awaits(call[p], sure[p]) /\ \A t \in sure[p] : MayTake(t, call[p].step))'
<1> DEFINE Goal == (Awaits(call[p], sure[p]) /\ \A t \in sure[p] : MayTake(t, call[p].step))'
<1>0. /\ call[p] \in Call \cup {None} /\ sure[p] \in SUBSET Tasks
      /\ p \in DOMAIN call /\ p \in DOMAIN sure
  BY DEF TypeOK, PageInv, Kinds
<1>1. ASSUME NEW k, call'[p] = k, NEW S, sure'[p] = S, UNCHANGED score, Awaits(k, S),
             \A t \in S : MayTake(t, k.step)'
      PROVE  Goal
  BY <1>1, Stays
<1>2. CASE Begin(p)
  <2>1. PICK size \in BatchSizes \cup {0} :
          call'[p] = [single |-> size = 0, left |-> IF size = 0 THEN 1 ELSE size,
                      step |-> "fetch", offset |-> 0, page |-> <<>>, full |-> TRUE]
    BY <1>0, <1>2 DEF Begin
  <2>2. PICK k : call'[p] = k OBVIOUS
  <2>3. PICK S : S = {t \in Tasks : Runnable(t)} OBVIOUS
  <2>4. sure'[p] = S BY <1>0, <1>2, <2>3 DEF Begin
  <2>5. UNCHANGED <<score, status, dispatched, due>> BY <1>2 DEF Begin, queue
  <2>6. k.step = "fetch" /\ k.offset = 0 BY <2>1, <2>2
  <2>7. \A t \in Tasks : Rank(t) >= 0 BY RankOrder
  <2>8. Awaits(k, S) BY <2>3, <2>6, <2>7 DEF Awaits
  <2>9. \A t \in S : MayTake(t, "read")
    BY <2>3 DEF Runnable, MayTake, Resolves
  <2>10. \A t \in S : MayTake(t, k.step)' BY <2>5, <2>9, MayStillTake
  <2> QED BY <1>1, <2>2, <2>4, <2>5, <2>8, <2>10
<1>3. CASE ~Begin(p)
  <2>1. /\ Poll(p) /\ ~Begin(p)
        /\ call'[p] # None /\ call'[p].single /\ call'[p].left # 0 /\ sure'[p] # {}
    BY <1>3 DEF Looking
  <2>2. /\ call[p] # None /\ call[p] \in Call /\ call[p].single
        /\ call'[p].left =< call[p].left
    BY <2>1, CallGoesOn
  <2>3. call'[p] \in Call BY <2>1, CallsKept DEF Next
  <2>4. call[p].left = 1 /\ call'[p].left = 1
    <3>1. call[p].left =< 1 BY <2>2 DEF PageInv, OneLeft
    <3>2. call[p].left \in Nat /\ call'[p].left \in Nat BY <2>2, <2>3 DEF Call
    <3> QED BY <2>1, <2>2, <3>1, <3>2
\* A task that is handed out ends the search.
  <2>5. ASSUME NEW t, Hand(p, t) PROVE FALSE
    <3> DEFINE k == [call[p] EXCEPT !.left = call[p].left - 1]
    <3>1. k.left = 0 BY <2>2, <2>4 DEF Call
    <3>2. call'[p] = Advance(k) BY <1>0, <2>5 DEF Hand
    <3> HIDE DEF k
    <3>3. Advance(k) = Done(k) BY <3>1 DEF Advance
    <3>4. k \in Call BY <2>2, <2>4 DEF k, Call
    <3>5. Done(k).left = 0 BY <3>1, <3>4 DEF Done, Call
    <3> QED BY <2>4, <3>2, <3>3, <3>5
  <2>6. sure'[p] = sure[p] /\ UNCHANGED <<score, status, due>>
    <3>1. CASE Fetch(p) \/ Read(p) \/ Resolve(p)
      BY <3>1 DEF Fetch, Read, Resolve, queue
    <3>2. CASE Acquire(p) BY <2>5, <3>2 DEF Acquire
    <3>3. CASE Pick(p)
      <4>1. Disturb(p) BY <2>5, <3>3 DEF Pick
      <4> QED BY <3>3, <4>1 DEF Pick, Disturb
    <3>4. CASE Unqueue(p) BY <2>5, <3>4 DEF Unqueue
    <3>5. CASE Answer(p) \/ Cut(p) BY <1>0, <2>1, <3>5 DEF Answer, Cut, Return
    <3> QED BY <2>1, <3>1, <3>2, <3>3, <3>4, <3>5 DEF Poll
  <2>7. PICK k \in Call : k = call[p] BY <2>2
  <2>8. PICK S \in SUBSET Tasks : S = sure[p] BY <1>0
  <2>9. Awaits(k, S) /\ \A t \in S : MayTake(t, k.step)
    BY <2>1, <2>2, <2>4, <2>6, <2>7, <2>8 DEF PageInv, Expects, Looking
  <2>10. CASE Fetch(p)
    <3>1. PICK page \in Pages(k.offset) :
            call'[p] = IF Len(page) = 0 THEN Done(k)
                       ELSE [k EXCEPT !.step = "read", !.page = page,
                                      !.full = Len(page) = CHUNK_SIZE]
      BY <1>0, <2>7, <2>10 DEF Fetch
    <3>2. S \in SUBSET Queued BY <2>9 DEF MayTake
    <3>3. k.step = "fetch" BY <2>7, <2>10 DEF Fetch, At
    <3>4. PICK n : n = call'[p] OBVIOUS
    <3>5. Awaits(n, S) BY <2>9, <3>1, <3>2, <3>3, <3>4, FetchAwaits DEF PageInv
    <3>6. UNCHANGED dispatched BY <2>10 DEF Fetch, queue
    <3>7. \A t \in S : MayTake(t, n.step)' BY <2>6, <2>9, <3>3, <3>6, MayStillTake
    <3> QED BY <1>1, <2>6, <2>8, <3>4, <3>5, <3>7
\* Anything but taking the candidate is going past one that is not in S.
  <2>11. ASSUME Skip(p), k.step \notin {"fetch", "answer", "unqueue"}, Candidate(p) \notin S,
                \A t \in Tasks \ {Candidate(p)} : dispatched'[t] = dispatched[t]
         PROVE  Goal
    <3>1. call'[p] = Advance(k) BY <1>0, <2>7, <2>11 DEF Skip
    <3>2. Len(k.page) > 0 BY <2>2, <2>7, <2>11, CandidateIsTask
    <3>3. Awaits(Advance(k), S) BY <2>4, <2>7, <2>9, <2>11, <3>2, AdvanceAwaits DEF Candidate
    <3>4. PICK n : n = Advance(k) OBVIOUS
    <3>5. ASSUME NEW t \in S PROVE MayTake(t, n.step)'
      <4>1. MayTake(t, k.step) /\ dispatched'[t] = dispatched[t] BY <2>9, <2>11, <3>5
      <4> QED BY <2>6, <2>11, <4>1 DEF MayTake, Queued, Stored, Resolves
    <3> QED BY <1>1, <2>6, <2>8, <3>1, <3>3, <3>4, <3>5
  <2>12. ASSUME NEW step \in Step \ {"fetch", "answer"}, Goto(p, step),
                k.step \notin {"fetch", "answer", "unqueue"},
                dispatched' = dispatched \/ step = "unqueue"
         PROVE  Goal
    <3> DEFINE m == [k EXCEPT !.step = step]
    <3>1. call'[p] = m BY <1>0, <2>7, <2>12 DEF Goto
    <3>2. /\ m.step = step /\ m.page = k.page /\ m.full = k.full /\ m.offset = k.offset
      BY DEF Call
    <3>3. PICK n : n = m OBVIOUS
    <3> HIDE DEF m
    <3>4. Awaits(n, S) BY <2>9, <2>12, <3>2, <3>3 DEF Awaits, Steep, Inside
    <3>5. ASSUME NEW t \in S PROVE MayTake(t, n.step)'
      BY <2>6, <2>9, <2>12, <3>2, <3>3 DEF MayTake, Queued, Stored, Resolves
    <3> QED BY <1>1, <2>6, <2>8, <3>1, <3>3, <3>4, <3>5
  <2>13. {"resolve", "acquire", "unqueue"} \subseteq Step \ {"fetch", "answer"} BY DEF Step
  <2>14. CASE Read(p)
    <3>1. k.step = "read" /\ dispatched' = dispatched BY <2>7, <2>14 DEF Read, At, queue
    <3>2. \/ Goto(p, "resolve") \/ Goto(p, "acquire")
          \/ Skip(p) /\ (~Stored(Candidate(p)) \/ Candidate(p) \notin due)
      BY <2>14, Zenon DEF Read
    <3>3. CASE Skip(p) /\ (~Stored(Candidate(p)) \/ Candidate(p) \notin due)
      BY <2>9, <2>11, <3>1, <3>3 DEF MayTake
    <3> QED BY <2>12, <2>13, <3>1, <3>2, <3>3
  <2>15. CASE Resolve(p)
    <3>1. k.step = "resolve" /\ dispatched' = dispatched BY <2>7, <2>15 DEF Resolve, At, queue
    <3>2. \/ Goto(p, "acquire")
          \/ Skip(p) /\ ~(Resolves(Candidate(p)) /\ Candidate(p) \in due)
      BY <2>15, Zenon DEF Resolve
    <3> QED BY <2>9, <2>11, <2>12, <2>13, <3>1, <3>2 DEF MayTake
  <2>16. CASE Acquire(p)
    <3>1. k.step = "acquire" /\ dispatched' = dispatched BY <2>7, <2>16 DEF Acquire, At
    <3>2. Skip(p) /\ Candidate(p) \notin Queued BY <2>5, <2>16 DEF Acquire
    <3> QED BY <2>9, <2>11, <3>1, <3>2 DEF MayTake
  <2>17. CASE Pick(p)
    <3>1. k.step = "acquire" /\ Voters[Candidate(p)] > 0 BY <2>7, <2>17 DEF Pick, At
    <3>2. Candidate(p) \in Tasks
      BY <2>2, <2>7, <3>1, CandidateIsTask
    <3>3. PICK count \in Nat : count = dispatched[Candidate(p)]
      BY <3>2 DEF PageInv, Kinds
    <3>4. PICK voters \in Nat : voters = Voters[Candidate(p)] BY <3>2, DispatchAssumption
    <3>5. /\ dispatched' = [dispatched EXCEPT ![Candidate(p)] = count + 1]
          /\ ~(count + 1 < voters)
          /\ count + 1 = voters => Goto(p, "unqueue")
          /\ count + 1 # voters => Skip(p)
      BY <2>5, <2>17, <3>3, <3>4 DEF Pick
    <3>6. CASE count + 1 = voters
      BY <2>12, <2>13, <3>1, <3>5, <3>6
    <3>7. CASE count + 1 # voters
      <4>1. ~(count < voters) /\ voters > 0 BY <3>1, <3>4, <3>5, <3>7
      <4>2. Candidate(p) \notin S BY <2>9, <3>1, <3>3, <3>4, <4>1 DEF MayTake
      <4>3. \A t \in Tasks \ {Candidate(p)} : dispatched'[t] = dispatched[t]
        BY <3>5 DEF PageInv, Kinds
      <4> QED BY <2>11, <3>1, <3>5, <3>7, <4>2, <4>3
    <3> QED BY <3>6, <3>7
  <2>18. CASE Unqueue(p) BY <2>5, <2>18 DEF Unqueue
  <2>19. CASE Answer(p) \/ Cut(p) BY <1>0, <2>1, <2>19 DEF Answer, Cut, Return
  <2> QED BY <2>1, <2>10, <2>14, <2>15, <2>16, <2>17, <2>18, <2>19 DEF Poll
<1> QED BY <1>2, <1>3

LEMMA PageNext == TypeOK /\ PageInv /\ [Next]_vars => PageInv'
<1> SUFFICES ASSUME TypeOK, PageInv, [Next]_vars PROVE PageInv'
  OBVIOUS
<1>1. Kinds' /\ Distinct' /\ OneLeft'
  BY KindsNext, DistinctNext, OneLeftNext DEF PageInv
<1>2. ASSUME NEW p \in Pollers, Looking(p)'
      PROVE  (Awaits(call[p], sure[p]) /\ \A t \in sure[p] : MayTake(t, call[p].step))'
  <2>1. CASE Poll(p) BY <1>2, <2>1, PollerExpects
  <2>2. CASE ~Poll(p)
    <3>1. /\ call'[p] = call[p] /\ sure'[p] = sure[p] /\ score' = score
          /\ \A t \in Tasks, step \in Step : MayTake(t, step) => MayTake(t, step)'
      BY <1>2, <2>2, OthersLeaveIt DEF PageInv, Looking
    <3>2. Looking(p) BY <1>2, <3>1 DEF Looking
    <3>3. PICK k \in Call : k = call[p] BY <3>2 DEF Looking, TypeOK
    <3>4. PICK S \in SUBSET Tasks : S = sure[p] BY DEF PageInv, Kinds
    <3>5. Awaits(k, S) /\ \A t \in S : MayTake(t, k.step)
      BY <3>2, <3>3, <3>4 DEF PageInv, Expects
    <3>6. Awaits(k, S)' BY <3>1, <3>5, Stays
    <3>7. k.step \in Step BY DEF Call
    <3>8. \A t \in S : MayTake(t, k.step)' BY <3>1, <3>5, <3>7
    <3> QED BY <3>1, <3>3, <3>4, <3>6, <3>8
  <2> QED BY <2>1, <2>2
<1>3. \A p \in Pollers : Expects(p)' BY <1>2 DEF Expects
<1> QED BY <1>1, <1>3 DEF PageInv

\* A call of getNextTask that nobody else disturbs takes the first task that
\* was runnable when it began and answers null only when there was none, for
\* every page size and number of entries.
THEOREM FirstRunnableIsFound == Spec => []NothingOverlooked
<1>1. Init => PageInv
  BY DispatchAssumption DEF Init, PageInv, Kinds, Distinct, OneLeft, Expects, Looking, Queued
<1>2. IInv /\ PageInv => NothingOverlooked
  <2> SUFFICES ASSUME TypeOK, PageInv, NEW p \in Pollers, call[p] # None, call[p].single
               PROVE  /\ At(p, "acquire") => \A t \in sure[p] : score[t] =< score[Candidate(p)]
                      /\ At(p, "answer") => sure[p] = {} \/ call[p].left = 0
    BY DEF IInv, NothingOverlooked
  <2>1. ASSUME At(p, "answer"), sure[p] # {} PROVE call[p].left = 0
    BY <2>1 DEF At, PageInv, Expects, Looking, Awaits
  <2>2. ASSUME At(p, "acquire"), NEW t \in sure[p] PROVE score[t] =< score[Candidate(p)]
    <3>1. PICK k \in Call : k = call[p] BY DEF TypeOK
    <3>2. k.step = "acquire" /\ k.left > 0 /\ Len(k.page) > 0 /\ Candidate(p) = k.page[1]
          /\ Candidate(p) \in Tasks
      BY <2>2, <3>1, CandidateIsTask, LenProperties DEF At, Candidate, Call
    <3>3. Looking(p) BY <2>2, <3>1, <3>2 DEF Looking
    <3>4. Awaits(k, sure[p]) /\ MayTake(t, k.step) BY <2>2, <3>1, <3>3 DEF PageInv, Expects
    <3>5. /\ Steep(k)
          /\ Inside(k, t) \/ Rank(t) >= k.offset + CHUNK_SIZE
      BY <2>2, <3>2, <3>4 DEF Awaits
    <3>6. DOMAIN k.page = 1 .. Len(k.page) /\ Len(k.page) \in Nat BY LenProperties DEF Call
    <3>7. t \in Queued /\ t \in Tasks /\ score[t] \in Nat /\ score[Candidate(p)] \in Nat
      BY <3>2, <3>4 DEF MayTake, Queued, TypeOK
    <3>8. CASE Inside(k, t)
      <4>1. PICK i \in DOMAIN k.page : k.page[i] = t BY <3>8 DEF Inside
      <4>2. i = 1 \/ (1 \in DOMAIN k.page /\ 1 < i) BY <3>6, <4>1
      <4>3. i = 1 \/ score[k.page[1]] > score[k.page[i]] BY <3>5, <4>2 DEF Steep
      <4> QED BY <3>2, <3>7, <4>1, <4>3
    <3>9. CASE Rank(t) >= k.offset + CHUNK_SIZE
      <4>1. Rank(Candidate(p)) < k.offset + CHUNK_SIZE
        BY <3>2, <3>5, <3>6 DEF Steep
      <4>2. k.offset \in Nat /\ CHUNK_SIZE \in Nat BY DispatchAssumption DEF Call
      <4>3. Rank(t) \in Nat /\ Rank(Candidate(p)) \in Nat
            /\ (score[t] > score[Candidate(p)] => Rank(t) < Rank(Candidate(p)))
        BY <3>2, <3>7, RankOrder
      <4> QED BY <3>7, <3>9, <4>1, <4>2, <4>3
    <3> QED BY <3>5, <3>8, <3>9
  <2> QED BY <2>1, <2>2
<1>3. IInv => TypeOK BY DEF IInv
<1> QED BY <1>1, <1>2, <1>3, PageNext, Inductive, PTL DEF Spec
=============================================================================

--------------------------- MODULE ConsensusProofs ---------------------------
(***************************************************************************)
(* Proofs about Consensus for any workers, answers and quorum: with        *)
(* strategy "all" or "majority" a task completes only with a result that   *)
(* enough workers gave, whatever crashes, recoveries and late runs do to   *)
(* the round; before a recovery no more than the quorum run it, they agree *)
(* on one outcome, and it fails only for a reason.  (With "weighted" the   *)
(* first vote decides.)                                                    *)
(***************************************************************************)
EXTENDS Consensus, FiniteSetTheorems, TLAPS

-----------------------------------------------------------------------------
(* Types.                                                                  *)

LEMMA JudgeType ==
  ASSUME NEW seen, NEW a \in Answers
  PROVE  Judge(seen, a) \in Answers \cup {Disagree, None}
  BY DEF Judge

LEMMA TypeNext == TypeOK /\ [Next]_vars => TypeOK'
<1> SUFFICES ASSUME TypeOK, [Next]_vars PROVE TypeOK'
  OBVIOUS
<1>1. ASSUME NEW w \in Workers, Scan(w) PROVE TypeOK'
  BY <1>1 DEF TypeOK, Scan, Goto, store, recover, counters, history
<1>2. ASSUME NEW w \in Workers, Dispatch(w) PROVE TypeOK'
  <2>1. pc' \in [Workers -> {"idle", "dispatch", "unqueue", "check", "start", "handler",
                             "vote", "count", "latest", "decide"}]
        /\ \A v \in Workers : pc'[v] = "vote" => pc[v] = "vote"
    BY <1>2 DEF TypeOK, Dispatch, Goto
  <2>2. takes' \in [Workers -> Nat] /\ dispatched' \in Nat
    BY <1>2 DEF TypeOK, Dispatch
  <2> QED
    BY <1>2, <2>1, <2>2 DEF TypeOK, Dispatch, recover, history
<1>3. ASSUME NEW w \in Workers, Unqueue(w) PROVE TypeOK'
  BY <1>3 DEF TypeOK, Unqueue, Goto, recover, counters, history
<1>4. ASSUME NEW w \in Workers, Check(w) PROVE TypeOK'
  BY <1>4 DEF TypeOK, Check, Goto, store, recover, counters, history
<1>5. ASSUME NEW w \in Workers, Start(w) PROVE TypeOK'
  BY <1>5 DEF TypeOK, Start, Goto, recover, counters, history
<1>6. ASSUME NEW w \in Workers, Answer(w) PROVE TypeOK'
  BY <1>6 DEF TypeOK, Answer, Goto, store, recover, counters, history
<1>7. ASSUME NEW w \in Workers, Vote(w) PROVE TypeOK'
  BY <1>7 DEF TypeOK, Vote, Goto, recover, counters
<1>8. ASSUME NEW w \in Workers, Count(w) PROVE TypeOK'
  <2>1. PICK a \in MostFrequent(votes) :
          /\ verdict' = [verdict EXCEPT ![w] = Judge(votes, a)]
          /\ Goto(w, IF Judge(votes, a) = None THEN "idle" ELSE "latest")
    BY <1>8 DEF Count, Seen
  <2>2. Judge(votes, a) \in Answers \cup {Disagree, None}
    BY <2>1, JudgeType DEF MostFrequent
  <2> QED
    BY <1>8, <2>1, <2>2 DEF TypeOK, Count, Seen, Goto, store, recover, counters, history
<1>9. ASSUME NEW w \in Workers, Latest(w) PROVE TypeOK'
  BY <1>9 DEF TypeOK, Latest, Goto, store, recover, counters, history
<1>10. ASSUME NEW w \in Workers, Decide(w) PROVE TypeOK'
  BY <1>10 DEF TypeOK, Decide, Goto, recover, counters, Answers
<1>11. ASSUME NEW w \in Workers, Crash(w) PROVE TypeOK'
  BY <1>11 DEF TypeOK, Crash, Goto, store, recover, history
<1>12. CASE Recover
  <2>1. CASE RecoverRead
    BY <2>1 DEF TypeOK, RecoverRead, store, runs, history
  <2>2. CASE RecoverWrite
    BY <2>2 DEF TypeOK, RecoverWrite, runs, counters, history
  <2>3. CASE RecoverQueue
    BY <2>3 DEF TypeOK, RecoverQueue, runs, counters, history
  <2>4. CASE RecoverClear
    BY <2>4 DEF TypeOK, RecoverClear, runs, counters, history
  <2> QED
    BY <1>12, <2>1, <2>2, <2>3, <2>4 DEF Recover
<1>13. CASE UNCHANGED vars
  BY <1>13 DEF TypeOK, vars, store, runs, recover, counters, history
<1> QED
  BY <1>1, <1>2, <1>3, <1>4, <1>5, <1>6, <1>7, <1>8, <1>9, <1>10, <1>11, <1>12, <1>13
     DEF Next, Step

LEMMA TypeInit == Init => TypeOK
  BY DEF Init, TypeOK

\* The record, the votes and every run keep their types.
THEOREM TypeCorrect == Spec => []TypeOK
<1>1. Init => TypeOK
  BY TypeInit
<1>2. TypeOK /\ [Next]_vars => TypeOK'
  BY TypeNext
<1> QED
  BY <1>1, <1>2, PTL DEF Spec

-----------------------------------------------------------------------------
(* Agreement.                                                              *)

Enough(a) == Cardinality(Backers(a)) >= Needed

\* Every vote that can be counted was cast, and whatever result a run, the
\* record or recovery holds was backed when it was found, hence ever since.
BackedInv ==
  /\ TypeOK
  /\ \A w \in Workers : votes[w] # None => <<w, votes[w]>> \in cast
  /\ \A w \in Workers : verdict[w] \in Results => Enough(verdict[w])
  /\ result \in Results => Enough(result)
  /\ kept \in Results => Enough(kept)
  /\ status = "completed" => result \in Results

\* More votes do not take backing away.
LEMMA EnoughStays ==
  ASSUME cast \subseteq cast', strategy' = strategy, NEW a, Enough(a)
  PROVE  Enough(a)'
<1>1. Backers(a) \subseteq Backers(a)' /\ Backers(a)' \subseteq Workers
  BY DEF Backers
<1>2. IsFiniteSet(Backers(a)')
  BY <1>1, WorkersAssumption, FS_Subset
<1>3. Cardinality(Backers(a)) =< Cardinality(Backers(a)')
      /\ Cardinality(Backers(a)) \in Nat /\ Cardinality(Backers(a)') \in Nat
  BY <1>1, <1>2, FS_Subset, FS_CardinalityType
<1>4. Needed \in Nat /\ Needed' = Needed
  BY QuorumAssumption DEF Needed
<1> QED
  BY <1>3, <1>4 DEF Enough

\* An answer that wins the count is backed.
LEMMA WinnerBacked ==
  ASSUME BackedInv, strategy # "weighted", NEW a \in Answers, Wins(votes, a)
  PROVE  Enough(a)
<1>1. For(votes, a) \subseteq Backers(a) /\ Backers(a) \subseteq Workers
  BY AnswersAssumption DEF BackedInv, For, Backers
<1>2. IsFiniteSet(Backers(a))
  BY <1>1, WorkersAssumption, FS_Subset
<1>3. Cardinality(For(votes, a)) =< Cardinality(Backers(a))
      /\ Cardinality(For(votes, a)) \in Nat /\ Cardinality(Backers(a)) \in Nat
  BY <1>1, <1>2, FS_Subset, FS_CardinalityType
<1>4. Tally(votes, a) = Cardinality(For(votes, a))
  BY DEF Tally
<1>5. CASE strategy = "all"
  BY <1>3, <1>4, <1>5, QuorumAssumption DEF Wins, Enough, Needed
<1>6. CASE strategy = "majority"
  BY <1>3, <1>4, <1>6, QuorumAssumption DEF Wins, Enough, Needed, Majority
<1> QED
  BY <1>5, <1>6, StrategyAssumption DEF BackedInv, TypeOK

LEMMA JudgeBacked ==
  ASSUME BackedInv, strategy # "weighted", NEW a \in Answers,
         Judge(votes, a) \in Results
  PROVE  Enough(Judge(votes, a))
<1>1. Disagree \notin Results /\ None \notin Results
  BY AnswersAssumption DEF Answers
<1>2. Wins(votes, a) /\ Judge(votes, a) = a
  BY <1>1 DEF Judge
<1> QED
  BY <1>2, WinnerBacked

LEMMA BackedInit == Init => BackedInv
  BY TypeInit, AnswersAssumption DEF Init, BackedInv, Answers

LEMMA BackedNext ==
  ASSUME BackedInv, "weighted" \notin Strategies, [Next]_vars
  PROVE  BackedInv'
<1>1. TypeOK'
  BY TypeNext DEF BackedInv
<1>2. cast \subseteq cast' /\ strategy' = strategy
  BY DEF Next, Step, Scan, Dispatch, Unqueue, Check, Start, Answer, Vote, Count, Latest,
         Decide, Crash, Recover, RecoverRead, RecoverWrite, RecoverQueue, RecoverClear,
         vars, store, history
<1>3. \A a : Enough(a) => Enough(a)'
  BY <1>2, EnoughStays
<1>4. ASSUME NEW w \in Workers, Vote(w) PROVE BackedInv'
  <2>1. UNCHANGED <<status, result, verdict, kept>>
    BY <1>4 DEF Vote, recover
  <2>2. \A v \in Workers : votes'[v] # None => <<v, votes'[v]>> \in cast'
    BY <1>4 DEF Vote, BackedInv, TypeOK
  <2> QED
    BY <1>1, <1>3, <2>1, <2>2 DEF BackedInv
<1>5. ASSUME NEW w \in Workers, Count(w) PROVE BackedInv'
  <2>1. PICK a \in Answers : verdict' = [verdict EXCEPT ![w] = Judge(votes, a)]
    BY <1>5 DEF Count, Seen, MostFrequent
  <2>2. UNCHANGED <<store, kept, cast>>
    BY <1>5 DEF Count, recover, history
  <2>3. \A v \in Workers : verdict'[v] \in Results => Enough(verdict'[v])
    <3>1. strategy # "weighted"
      BY DEF BackedInv, TypeOK
    <3> QED
      BY <2>1, <3>1, JudgeBacked DEF BackedInv, TypeOK
  <2> QED
    BY <1>1, <1>3, <2>2, <2>3 DEF BackedInv, store
<1>6. ASSUME NEW w \in Workers, Decide(w) PROVE BackedInv'
  <2>1. UNCHANGED <<votes, verdict, kept, cast>>
    BY <1>6 DEF Decide, recover
  <2>2. /\ result' \in Results => result' = result \/ result' = verdict[w]
        /\ status' = "completed" => result' \in Results
    BY <1>6 DEF Decide
  <2> QED
    BY <1>1, <1>3, <2>1, <2>2 DEF BackedInv
<1>7. CASE Recover
  <2>1. UNCHANGED <<votes, verdict, cast>>
    BY <1>7 DEF Recover, RecoverRead, RecoverWrite, RecoverQueue, RecoverClear, store,
                runs, history
  <2>2. /\ result' \in {result, kept} /\ kept' \in {result, kept}
        /\ status' = "completed" => status = "completed" /\ result' = result
    BY <1>7 DEF Recover, RecoverRead, RecoverWrite, RecoverQueue, RecoverClear, store
  <2> QED
    BY <1>1, <1>3, <2>1, <2>2 DEF BackedInv
<1>8. ASSUME NEW w \in Workers,
             \/ Scan(w) \/ Dispatch(w) \/ Unqueue(w) \/ Check(w) \/ Start(w)
             \/ Answer(w) \/ Latest(w) \/ Crash(w)
      PROVE  BackedInv'
  <2>1. UNCHANGED <<result, votes, verdict, kept, cast>>
        /\ (status' = status \/ status' = "processing")
    BY <1>8 DEF Scan, Dispatch, Unqueue, Check, Start, Answer, Latest, Crash, store,
                recover, history
  <2> QED
    BY <1>1, <1>3, <2>1 DEF BackedInv
<1>9. CASE UNCHANGED vars
  BY <1>1, <1>3, <1>9 DEF BackedInv, vars, store, runs, recover, history
<1> QED
  BY <1>4, <1>5, <1>6, <1>7, <1>8, <1>9 DEF Next, Step

\* "Mark success only if quorum agrees", for strategies all and majority: a
\* completed task's result was given by that many different workers.
THEOREM Agreement ==
  ASSUME "weighted" \notin Strategies
  PROVE  Spec => []QuorumAgrees
<1>1. Init => BackedInv
  BY BackedInit
<1>2. BackedInv /\ [Next]_vars => BackedInv'
  BY BackedNext
<1>3. BackedInv => QuorumAgrees
  BY DEF BackedInv, QuorumAgrees, Enough
<1> QED
  BY <1>1, <1>2, <1>3, PTL DEF Spec

-----------------------------------------------------------------------------
(* The first round: as long as recovery has not run.                       *)

Takers == {w \in Workers : takes[w] > 0}

\* Those who count themselves within the quorum are no more than it; only
\* they run the task and vote.
TakerInv ==
  recoveries = 0 =>
    /\ recovery = "off"
    /\ Cardinality(Takers) =< dispatched /\ Cardinality(Takers) =< Quorum
    /\ \A w \in Workers : pc[w] \notin {"idle", "dispatch"} \/ votes[w] # None => takes[w] > 0

LEMMA WorkerSizes ==
  ASSUME NEW S \in SUBSET Workers
  PROVE  /\ IsFiniteSet(S) /\ Cardinality(S) \in Nat
         /\ \A T \in SUBSET S : Cardinality(T) \in Nat /\ Cardinality(T) =< Cardinality(S)
  BY WorkersAssumption, FS_Subset, FS_CardinalityType

LEMMA TakerInit == Init => TakerInv
<1> SUFFICES ASSUME Init PROVE TakerInv
  OBVIOUS
<1>1. Takers = {} BY DEF Init, Takers
<1>2. Cardinality(Takers) = 0 BY <1>1, FS_EmptySet
<1> QED BY <1>2, QuorumAssumption DEF Init, TakerInv

LEMMA TakerNext == TypeOK /\ TakerInv /\ [Next]_vars => TakerInv'
<1> SUFFICES ASSUME TypeOK, TakerInv, [Next]_vars, recoveries' = 0 PROVE TakerInv'
  BY DEF TakerInv
<1>1. recoveries = 0
  BY BoundsAssumption DEF TypeOK, Next, Step, Scan, Dispatch, Unqueue, Check, Start, Answer, Vote,
     Count, Latest, Decide, Crash, Recover, RecoverRead, RecoverWrite, RecoverQueue, RecoverClear,
     vars, counters
<1>2. /\ recovery = "off" /\ Cardinality(Takers) =< dispatched /\ Cardinality(Takers) =< Quorum
      /\ \A w \in Workers : pc[w] \notin {"idle", "dispatch"} \/ votes[w] # None => takes[w] > 0
  BY <1>1 DEF TakerInv
<1>3. ~Recover
  BY <1>1, <1>2 DEF TypeOK, Recover, RecoverRead, RecoverWrite, RecoverQueue, RecoverClear
<1>4. ASSUME UNCHANGED <<takes, dispatched, recovery>>,
             \A w \in Workers : pc'[w] \notin {"idle", "dispatch"} \/ votes'[w] # None =>
               pc[w] \notin {"idle", "dispatch"} \/ votes[w] # None
      PROVE  TakerInv'
  <2>1. Takers' = Takers BY <1>4 DEF Takers
  <2> QED BY <1>2, <1>4, <2>1 DEF TakerInv
<1>5. ASSUME NEW w \in Workers, Dispatch(w) PROVE TakerInv'
  <2>1. CASE Wanted
    <3>1. takes' = [takes EXCEPT ![w] = @ + 1] /\ dispatched' = dispatched + 1
      BY <1>5, <2>1 DEF Dispatch
    <3>2. Takers' = Takers \cup {w} BY <3>1 DEF TypeOK, Takers
    <3>3. IsFiniteSet(Takers) /\ Cardinality(Takers) \in Nat BY WorkerSizes DEF Takers
    <3>4. /\ Cardinality(Takers') =< Cardinality(Takers) + 1 /\ Cardinality(Takers') \in Nat
      <4>1. /\ Cardinality(Takers \cup {w}) = Cardinality(Takers)
               \/ Cardinality(Takers \cup {w}) = Cardinality(Takers) + 1
        BY <3>3, FS_AddElement
      <4>2. Cardinality(Takers') = Cardinality(Takers \cup {w}) BY <3>2
      <4> QED BY <3>3, <4>1, <4>2
    <3>5. Cardinality(Takers) + 1 =< dispatched + 1 /\ dispatched + 1 =< Quorum
      BY <1>2, <2>1, <3>3, QuorumAssumption DEF TypeOK, Wanted
    <3>6. Cardinality(Takers') =< dispatched' /\ Cardinality(Takers') =< Quorum
      BY <3>1, <3>3, <3>4, <3>5, QuorumAssumption DEF TypeOK
    <3>7. \A v \in Workers : pc'[v] \notin {"idle", "dispatch"} \/ votes'[v] # None => takes'[v] > 0
      BY <1>2, <1>5, <3>1 DEF TypeOK, Dispatch, Goto
    <3>8. recovery' = "off" BY <1>2, <1>5 DEF Dispatch, recover
    <3> QED BY <3>6, <3>7, <3>8 DEF TakerInv
  <2>2. CASE ~Wanted
    <3>1. UNCHANGED <<takes, votes, recovery>> /\ dispatched' = dispatched + 1
          /\ pc' = [pc EXCEPT ![w] = "idle"]
      BY <1>5, <2>2 DEF Dispatch, Goto, recover
    <3>2. Takers' = Takers /\ Cardinality(Takers) \in Nat BY <3>1, WorkerSizes DEF Takers
    <3> QED BY <1>2, <3>1, <3>2 DEF TypeOK, TakerInv
  <2> QED BY <2>1, <2>2
<1>6. ASSUME NEW w \in Workers,
             \/ Scan(w) \/ Unqueue(w) \/ Check(w) \/ Start(w) \/ Answer(w) \/ Vote(w)
             \/ Count(w) \/ Latest(w) \/ Decide(w) \/ Crash(w)
      PROVE  TakerInv'
  <2>1. UNCHANGED <<takes, dispatched, recovery>>
    BY <1>6 DEF Scan, Unqueue, Check, Start, Answer, Vote, Count, Latest, Decide, Crash, store,
       counters, recover
  <2>2. ASSUME NEW v \in Workers, pc'[v] \notin {"idle", "dispatch"} \/ votes'[v] # None
        PROVE  pc[v] \notin {"idle", "dispatch"} \/ votes[v] # None
    BY <1>6, <2>2 DEF TypeOK, Scan, Unqueue, Check, Start, Answer, Vote, Count, Latest, Decide,
       Crash, Goto, store
  <2> QED BY <1>4, <2>1, <2>2
<1>7. CASE UNCHANGED vars BY <1>4, <1>7 DEF vars, store, runs, counters, recover
<1> QED BY <1>3, <1>5, <1>6, <1>7 DEF Next, Step

\* No more than consensus.workers run the task before recovery clears the
\* count, for any workers and however often one takes the task again.
THEOREM WithinQuorum == Spec => []NotOverDispatched
<1>1. TypeOK /\ TakerInv => NotOverDispatched
  <2> SUFFICES ASSUME TypeOK, TakerInv, recoveries = 0
               PROVE  Cardinality({w \in Workers : pc[w] \notin {"idle", "dispatch"}}) =< Quorum
    BY DEF NotOverDispatched
  <2> DEFINE running == {w \in Workers : pc[w] \notin {"idle", "dispatch"}}
  <2>1. running \subseteq Takers BY DEF TakerInv, Takers
  <2>2. Cardinality(running) =< Cardinality(Takers)
        /\ Cardinality(running) \in Nat /\ Cardinality(Takers) \in Nat
    BY <2>1, WorkerSizes DEF Takers
  <2>3. Cardinality(Takers) =< Quorum BY DEF TakerInv
  <2> HIDE DEF running
  <2>4. Cardinality(running) =< Quorum BY <2>2, <2>3, QuorumAssumption
  <2> QED BY <2>4 DEF running
<1> QED BY <1>1, TypeInit, TypeNext, TakerInit, TakerNext, PTL DEF Spec

\* Two different answers, or a failure.
Torn == \/ \E v, u \in cast : v[2] # u[2]
        \/ \E v \in cast : v[2] \in Errors

\* Who is about to fail the task has seen one of the two.
FailInv ==
  recoveries = 0 =>
    /\ \A w \in Workers : pc[w] \in {"latest", "decide"} /\ verdict[w] \notin Results => Torn
    /\ status = "failed" => Torn

\* Votes are those of takers, so they are no more than the quorum.
LEMMA FewVotes ==
  ASSUME TakerInv, recoveries = 0
  PROVE  /\ Cardinality(Submitted(votes)) \in Nat /\ Cardinality(Submitted(votes)) =< Quorum
         /\ \A a : Cardinality(For(votes, a)) \in Nat
         /\ \A a \in Answers : /\ For(votes, a) \subseteq Submitted(votes)
                              /\ Cardinality(For(votes, a)) =< Cardinality(Submitted(votes))
<1>1. Submitted(votes) \subseteq Takers BY DEF Submitted, Takers, TakerInv
<1>2. /\ Cardinality(Submitted(votes)) \in Nat /\ Cardinality(Takers) \in Nat
      /\ Cardinality(Submitted(votes)) =< Cardinality(Takers)
  BY <1>1, WorkerSizes DEF Takers
<1>3. Cardinality(Takers) =< Quorum BY DEF TakerInv
<1>4. ASSUME NEW a PROVE Cardinality(For(votes, a)) \in Nat
  BY WorkerSizes DEF For
<1>5. ASSUME NEW a \in Answers
      PROVE  /\ For(votes, a) \subseteq Submitted(votes)
             /\ Cardinality(For(votes, a)) =< Cardinality(Submitted(votes))
  <2>1. For(votes, a) \subseteq Submitted(votes) BY AnswersAssumption DEF For, Submitted
  <2>2. Submitted(votes) \in SUBSET Workers BY DEF Submitted
  <2> QED BY <2>1, <2>2, WorkerSizes
<1> QED BY <1>2, <1>3, <1>4, <1>5, QuorumAssumption

\* When the most frequent answer does not win although all votes are in, the
\* votes differ.
LEMMA LosersDiffer ==
  ASSUME TypeOK, TakerInv, recoveries = 0, strategy # "weighted",
         NEW a \in MostFrequent(votes), ~Wins(votes, a), AllIn(votes)
  PROVE  \E w, v \in Workers : votes[w] # None /\ votes[v] # None /\ votes[w] # votes[v]
<1> SUFFICES ASSUME \A w, v \in Workers :
                      votes[w] # None /\ votes[v] # None => votes[w] = votes[v]
             PROVE  FALSE
  OBVIOUS
<1>1. a \in Answers /\ For(votes, a) # {} BY DEF MostFrequent
<1>2. PICK v \in Workers : votes[v] = a BY <1>1 DEF For
<1>3. For(votes, a) = Submitted(votes)
  BY <1>1, <1>2, AnswersAssumption DEF For, Submitted
<1>4. Cardinality(Submitted(votes)) = Quorum
  <2>1. Cardinality(Submitted(votes)) \in Nat /\ Cardinality(Submitted(votes)) =< Quorum
    BY FewVotes
  <2> QED BY <2>1, QuorumAssumption DEF AllIn
<1>5. Tally(votes, a) = Quorum BY <1>3, <1>4 DEF Tally
<1>6. strategy \in {"all", "majority"} BY StrategyAssumption DEF TypeOK
<1>7. CASE strategy = "all" BY <1>5, <1>7 DEF Wins
<1>8. CASE strategy = "majority"
  <2>1. ~(Tally(votes, a) >= Majority) BY <1>8 DEF Wins
  <2>2. Majority \in Nat /\ Majority =< Quorum BY QuorumAssumption DEF Majority
  <2> QED BY <1>5, <2>1, <2>2, QuorumAssumption
<1> QED BY <1>6, <1>7, <1>8

LEMMA FailNext ==
  ASSUME BackedInv, TakerInv, FailInv, "weighted" \notin Strategies, [Next]_vars
  PROVE  FailInv'
<1> SUFFICES ASSUME recoveries' = 0 PROVE FailInv'
  BY DEF FailInv
<1>1. TypeOK /\ TypeOK' /\ strategy # "weighted" BY TypeNext DEF BackedInv, TypeOK
<1>2. recoveries = 0 /\ cast \subseteq cast'
  BY <1>1, BoundsAssumption DEF TypeOK, Next, Step, Scan, Dispatch, Unqueue, Check, Start, Answer,
     Vote, Count, Latest, Decide, Crash, Recover, RecoverRead, RecoverWrite, RecoverQueue,
     RecoverClear, vars, counters, history
<1>3. Torn => Torn' BY <1>2 DEF Torn
<1>4. /\ \A w \in Workers : pc[w] \in {"latest", "decide"} /\ verdict[w] \notin Results => Torn
      /\ status = "failed" => Torn
  BY <1>2 DEF FailInv
<1>5. ASSUME NEW w \in Workers, Count(w) PROVE FailInv'
  <2>1. PICK a \in MostFrequent(votes) :
          /\ verdict' = [verdict EXCEPT ![w] = Judge(votes, a)]
          /\ pc' = [pc EXCEPT ![w] = IF Judge(votes, a) = None THEN "idle" ELSE "latest"]
    BY <1>5 DEF Count, Seen, Goto
  <2>2. status' = status BY <1>5 DEF Count, store
  <2>3. ASSUME Judge(votes, a) # None, Judge(votes, a) \notin Results PROVE Torn
    <3>1. a \in Answers /\ For(votes, a) # {} BY <2>1 DEF MostFrequent
    <3>2. CASE Wins(votes, a)
      <4>1. a \in Errors BY <2>3, <3>1, <3>2 DEF Judge, Answers
      <4>2. PICK v \in Workers : votes[v] = a BY <3>1 DEF For
      <4>3. <<v, a>> \in cast BY <3>1, <4>2, AnswersAssumption DEF BackedInv
      <4> QED BY <4>1, <4>3 DEF Torn
    <3>3. CASE ~Wins(votes, a)
      <4>1. AllIn(votes) BY <2>3, <3>3 DEF Judge
      <4>2. PICK u, v \in Workers : votes[u] # None /\ votes[v] # None /\ votes[u] # votes[v]
        BY <1>1, <1>2, <2>1, <3>3, <4>1, LosersDiffer
      <4>3. <<u, votes[u]>> \in cast /\ <<v, votes[v]>> \in cast BY <4>2 DEF BackedInv
      <4> QED BY <4>2, <4>3 DEF Torn
    <3> QED BY <3>2, <3>3
  <2>4. ASSUME NEW v \in Workers, pc'[v] \in {"latest", "decide"}, verdict'[v] \notin Results
        PROVE  Torn
    <3>1. CASE v = w BY <1>1, <2>1, <2>3, <2>4, <3>1 DEF TypeOK
    <3>2. CASE v # w BY <1>1, <1>4, <2>1, <2>4, <3>2 DEF TypeOK
    <3> QED BY <3>1, <3>2
  <2> QED BY <1>3, <1>4, <2>2, <2>4 DEF FailInv
<1>6. ASSUME NEW w \in Workers, Latest(w) PROVE FailInv'
  BY <1>1, <1>3, <1>4, <1>6 DEF Latest, Goto, store, FailInv, TypeOK
<1>7. ASSUME NEW w \in Workers, Decide(w) PROVE FailInv'
  BY <1>1, <1>3, <1>4, <1>7 DEF Decide, Goto, FailInv, TypeOK
<1>8. CASE Recover
  <2>1. FALSE
    BY <1>1, <1>2, <1>8
       DEF TypeOK, TakerInv, Recover, RecoverRead, RecoverWrite, RecoverQueue, RecoverClear
  <2> QED BY <2>1
<1>9. ASSUME NEW w \in Workers,
             \/ Scan(w) \/ Dispatch(w) \/ Unqueue(w) \/ Check(w) \/ Start(w)
             \/ Answer(w) \/ Vote(w) \/ Crash(w)
      PROVE  FailInv'
  <2>1. status' = "failed" => status = "failed"
    BY <1>9 DEF Scan, Dispatch, Unqueue, Check, Start, Answer, Vote, Crash, store
  <2>2. verdict' = verdict
    BY <1>9 DEF Scan, Dispatch, Unqueue, Check, Start, Answer, Vote, Crash
  <2>3. \A v \in Workers : pc'[v] \in {"latest", "decide"} => pc[v] = pc'[v]
    BY <1>1, <1>9 DEF TypeOK, Scan, Dispatch, Unqueue, Check, Start, Answer, Vote, Crash, Goto
  <2> QED BY <1>3, <1>4, <2>1, <2>2, <2>3 DEF FailInv
<1>10. CASE UNCHANGED vars BY <1>3, <1>4, <1>10 DEF vars, store, runs, FailInv
<1> QED BY <1>5, <1>6, <1>7, <1>8, <1>9, <1>10 DEF Next, Step

\* A task fails for want of a consensus only when two workers disagreed, or
\* when one failed (strategies all and majority, before recovery opens the
\* round to more voters).
THEOREM FailureHasAReason ==
  ASSUME "weighted" \notin Strategies
  PROVE  Spec => []FailsOnlyOnDisagreement
<1>1. Init => FailInv BY DEF Init, FailInv
<1>2. FailInv => FailsOnlyOnDisagreement BY DEF FailInv, FailsOnlyOnDisagreement, Torn
<1>3. BackedInv => TypeOK BY DEF BackedInv
<1>4. BackedInv /\ TakerInv /\ FailInv /\ [Next]_vars => (BackedInv /\ TakerInv /\ FailInv)'
  BY <1>3, BackedNext, TakerNext, FailNext
<1> QED BY <1>1, <1>2, <1>4, BackedInit, TakerInit, PTL DEF Spec

\* What makes o the outcome of the votes, for good.
Holds(o) ==
  IF o = Disagree
  THEN AllIn(votes) /\ \A a \in Answers : Cardinality(For(votes, a)) < Needed
  ELSE o \in Answers /\ Cardinality(For(votes, o)) >= Needed

\* While every worker takes the task once, who has yet to vote has no vote,
\* and every verdict found or written holds.
OneInv ==
  recoveries = 0 /\ (\A w \in Workers : takes[w] =< 1) =>
    /\ \A w \in Workers :
         pc[w] \in {"unqueue", "check", "start", "handler", "vote"} => votes[w] = None
    /\ \A w \in Workers : pc[w] \in {"latest", "decide"} => Holds(verdict[w])
    /\ \A o \in outcomes : Holds(o)

LEMMA NeededType ==
  ASSUME strategy # "weighted", TypeOK
  PROVE  Needed \in Nat /\ Needed =< Quorum /\ 2 * Needed > Quorum
<1>1. CASE strategy = "all" BY <1>1, QuorumAssumption DEF Needed
<1>2. CASE strategy # "all" BY <1>2, QuorumAssumption DEF Needed
<1> QED BY <1>1, <1>2

\* What a run makes of the votes holds.
LEMMA JudgeHolds ==
  ASSUME TypeOK, TakerInv, recoveries = 0, strategy # "weighted",
         NEW a \in MostFrequent(votes), Judge(votes, a) # None
  PROVE  Holds(Judge(votes, a))
<1>1. a \in Answers /\ a # Disagree BY AnswersAssumption DEF MostFrequent
<1>2. strategy \in {"all", "majority"} BY StrategyAssumption DEF TypeOK
<1>3. \A b : Tally(votes, b) = Cardinality(For(votes, b)) BY DEF Tally
<1>4. CASE Wins(votes, a)
  <2>1. Cardinality(For(votes, a)) >= Needed
    <3>1. CASE strategy = "all" BY <1>3, <1>4, <3>1, QuorumAssumption DEF Wins, Needed
    <3>2. CASE strategy = "majority" BY <1>3, <1>4, <3>2 DEF Wins, Needed, Majority
    <3> QED BY <1>2, <3>1, <3>2
  <2>2. Judge(votes, a) = a BY <1>4 DEF Judge
  <2> QED BY <1>1, <2>1, <2>2 DEF Holds
<1>5. CASE ~Wins(votes, a)
  <2>1. AllIn(votes) /\ Judge(votes, a) = Disagree BY <1>5 DEF Judge
  <2>2. /\ Cardinality(For(votes, a)) \in Nat /\ Cardinality(Submitted(votes)) \in Nat
        /\ Cardinality(For(votes, a)) =< Cardinality(Submitted(votes))
        /\ Cardinality(Submitted(votes)) =< Quorum
    BY <1>1, FewVotes
  <2>3. Cardinality(For(votes, a)) < Needed
    <3>1. CASE strategy = "all"
      <4>1. Cardinality(For(votes, a)) # Quorum BY <1>3, <1>5, <2>1, <3>1 DEF Wins
      <4>2. Needed = Quorum BY <3>1 DEF Needed
      <4> QED BY <2>2, <4>1, <4>2, QuorumAssumption
    <3>2. CASE strategy = "majority"
      <4>1. ~(Cardinality(For(votes, a)) >= Needed)
        BY <1>3, <1>5, <3>2 DEF Wins, Needed, Majority
      <4>2. Needed \in Nat BY NeededType
      <4> QED BY <2>2, <4>1, <4>2
    <3> QED BY <1>2, <3>1, <3>2
  <2>4. ASSUME NEW b \in Answers PROVE Cardinality(For(votes, b)) < Needed
    <3>1. Cardinality(For(votes, b)) =< Cardinality(For(votes, a))
      BY <1>3 DEF MostFrequent
    <3>2. Cardinality(For(votes, b)) \in Nat /\ Needed \in Nat BY FewVotes, NeededType
    <3> QED BY <2>2, <2>3, <3>1, <3>2
  <2> QED BY <2>1, <2>4 DEF Holds
<1> QED BY <1>4, <1>5

\* Only one outcome can hold.
LEMMA OneHolds ==
  ASSUME TypeOK, TakerInv, recoveries = 0, strategy # "weighted",
         NEW o, NEW p, Holds(o), Holds(p)
  PROVE  o = p
<1> SUFFICES ASSUME o # p PROVE FALSE
  OBVIOUS
<1>1. Needed \in Nat /\ Needed =< Quorum /\ 2 * Needed > Quorum BY NeededType
<1>2. \A a : Cardinality(For(votes, a)) \in Nat BY FewVotes
<1>3. ASSUME NEW x \in Answers, Holds(x), Holds(Disagree) PROVE FALSE
  <2>1. x # Disagree BY AnswersAssumption
  <2>2. Cardinality(For(votes, x)) >= Needed /\ Cardinality(For(votes, x)) < Needed
    BY <1>3, <2>1 DEF Holds
  <2> QED BY <1>1, <1>2, <2>2
<1>4. o \in Answers /\ p \in Answers
      /\ Cardinality(For(votes, o)) >= Needed /\ Cardinality(For(votes, p)) >= Needed
  <2>1. o # Disagree /\ p # Disagree BY <1>3 DEF Holds
  <2> QED BY <2>1 DEF Holds
<1> DEFINE O == For(votes, o)
           P == For(votes, p)
<1>5. IsFiniteSet(O) /\ IsFiniteSet(P) /\ O \cap P = {}
      /\ O \cup P \subseteq Submitted(votes)
  BY <1>4, WorkerSizes, AnswersAssumption DEF For, Submitted
<1>6. Cardinality(O \cup P) = Cardinality(O) + Cardinality(P)
  <2>1. Cardinality(O \cup P) = Cardinality(O) + Cardinality(P) - Cardinality(O \cap P)
    BY <1>5, FS_Union
  <2>2. Cardinality(O \cap P) = 0 BY <1>5, FS_EmptySet
  <2>3. Cardinality(O) \in Nat /\ Cardinality(P) \in Nat BY <1>2
  <2> QED BY <2>1, <2>2, <2>3
<1>7. /\ Cardinality(O \cup P) =< Cardinality(Submitted(votes))
      /\ Cardinality(O \cup P) \in Nat /\ Cardinality(Submitted(votes)) \in Nat
  <2>1. Submitted(votes) \in SUBSET Workers BY DEF Submitted
  <2> QED BY <1>5, <2>1, WorkerSizes
<1>8. Cardinality(Submitted(votes)) =< Quorum BY FewVotes
<1>9. Cardinality(O) \in Nat /\ Cardinality(P) \in Nat
      /\ Cardinality(O) >= Needed /\ Cardinality(P) >= Needed
  BY <1>2, <1>4
<1> HIDE DEF O, P
<1> QED BY <1>1, <1>6, <1>7, <1>8, <1>9, QuorumAssumption

\* A further vote of one who had none leaves standing what held.
LEMMA VoteKeepsHolds ==
  ASSUME TypeOK, TakerInv, recoveries = 0, strategy # "weighted", NEW w \in Workers,
         Vote(w), votes[w] = None, NEW o, Holds(o)
  PROVE  Holds(o)'
<1>1. votes' = [votes EXCEPT ![w] = answer[w]] /\ Needed' = Needed
  BY DEF Vote, Needed
<1>2. ~AllIn(votes)
  <2>1. /\ Submitted(votes) \cup {w} \subseteq Takers /\ w \notin Submitted(votes)
        /\ IsFiniteSet(Submitted(votes))
    BY WorkerSizes DEF Vote, TakerInv, Takers, Submitted
  <2>2. Cardinality(Submitted(votes) \cup {w}) = Cardinality(Submitted(votes)) + 1
    BY <2>1, FS_AddElement
  <2>3. /\ Cardinality(Submitted(votes) \cup {w}) =< Cardinality(Takers)
        /\ Cardinality(Takers) \in Nat
    BY <2>1, WorkerSizes DEF Takers
  <2>4. Cardinality(Takers) =< Quorum BY DEF TakerInv
  <2>5. Cardinality(Submitted(votes)) \in Nat BY FewVotes
  <2> QED BY <2>2, <2>3, <2>4, <2>5, QuorumAssumption DEF AllIn
<1>3. o # Disagree /\ o \in Answers /\ Cardinality(For(votes, o)) >= Needed
  BY <1>2 DEF Holds
<1>4. For(votes, o) \subseteq For(votes', o)
  BY <1>1, <1>3, AnswersAssumption DEF TypeOK, For
<1>5. /\ Cardinality(For(votes, o)) =< Cardinality(For(votes', o))
      /\ Cardinality(For(votes, o)) \in Nat /\ Cardinality(For(votes', o)) \in Nat
  <2>1. For(votes', o) \in SUBSET Workers BY DEF For
  <2> QED BY <1>4, <2>1, WorkerSizes
<1>6. Needed \in Nat BY NeededType
<1>7. Cardinality(For(votes', o)) >= Needed BY <1>3, <1>5, <1>6
<1> QED BY <1>1, <1>3, <1>7 DEF Holds

LEMMA OneNext ==
  ASSUME TypeOK, TakerInv, OneInv, "weighted" \notin Strategies, [Next]_vars
  PROVE  OneInv'
<1> SUFFICES ASSUME recoveries' = 0, \A w \in Workers : takes'[w] =< 1 PROVE OneInv'
  BY DEF OneInv
<1>1. TypeOK' /\ strategy # "weighted" /\ strategy' = strategy
  BY TypeNext DEF TypeOK, Next, Step, Scan, Dispatch, Unqueue, Check, Start, Answer, Vote, Count,
     Latest, Decide, Crash, Recover, RecoverRead, RecoverWrite, RecoverQueue, RecoverClear, vars,
     store
<1>2. recoveries = 0
  BY BoundsAssumption DEF TypeOK, Next, Step, Scan, Dispatch, Unqueue, Check, Start, Answer,
     Vote, Count, Latest, Decide, Crash, Recover, RecoverRead, RecoverWrite, RecoverQueue,
     RecoverClear, vars, counters
<1>3. \A w \in Workers : takes[w] =< 1
  <2>1. CASE UNCHANGED takes BY <2>1
  <2>2. ASSUME NEW w \in Workers, takes' = [takes EXCEPT ![w] = @ + 1]
        PROVE  \A v \in Workers : takes[v] =< 1
    BY <2>2 DEF TypeOK
  <2>3. UNCHANGED takes \/ \E w \in Workers : takes' = [takes EXCEPT ![w] = @ + 1]
    BY DEF Next, Step, Scan, Dispatch, Unqueue, Check, Start, Answer, Vote, Count, Latest, Decide,
       Crash, Recover, RecoverRead, RecoverWrite, RecoverQueue, RecoverClear, vars, counters
  <2> QED BY <2>1, <2>2, <2>3
<1>4. /\ \A w \in Workers :
           pc[w] \in {"unqueue", "check", "start", "handler", "vote"} => votes[w] = None
      /\ \A w \in Workers : pc[w] \in {"latest", "decide"} => Holds(verdict[w])
      /\ \A o \in outcomes : Holds(o)
  BY <1>2, <1>3 DEF OneInv
<1>5. ASSUME votes' = votes, NEW o, Holds(o) PROVE Holds(o)'
  BY <1>1, <1>5 DEF Holds, Needed
<1>6. ASSUME NEW w \in Workers, Dispatch(w) PROVE OneInv'
  <2>1. /\ votes' = votes /\ verdict' = verdict /\ outcomes' = outcomes
    BY <1>6 DEF Dispatch, history
  <2>2. \A v \in Workers : pc'[v] \in {"latest", "decide"} => pc[v] = pc'[v]
    BY <1>6 DEF TypeOK, Dispatch, Goto
  <2>3. ASSUME NEW v \in Workers,
               pc'[v] \in {"unqueue", "check", "start", "handler", "vote"}
        PROVE  votes'[v] = None
    <3>1. CASE v # w
      <4>1. pc'[v] = pc[v] BY <1>6, <3>1 DEF TypeOK, Dispatch, Goto
      <4> QED BY <1>4, <2>1, <2>3, <4>1
    <3>2. CASE v = w
      <4>1. takes' = [takes EXCEPT ![w] = @ + 1]
        BY <1>6, <2>3, <3>2 DEF TypeOK, Dispatch, Goto
      <4>2. takes[w] \in Nat /\ takes'[w] = takes[w] + 1 /\ takes'[w] =< 1
        BY <4>1 DEF TypeOK
      <4>3. ~(takes[w] > 0) BY <4>2
      <4> QED BY <1>2, <2>1, <3>2, <4>3 DEF TakerInv
    <3> QED BY <3>1, <3>2
  <2> QED BY <1>4, <1>5, <2>1, <2>2, <2>3 DEF OneInv
<1>7. ASSUME NEW w \in Workers, Vote(w) PROVE OneInv'
  <2>1. votes' = [votes EXCEPT ![w] = answer[w]] /\ pc' = [pc EXCEPT ![w] = "count"]
        /\ UNCHANGED <<verdict, outcomes>>
    BY <1>7 DEF Vote, Goto
  <2>2. votes[w] = None BY <1>4, <1>7 DEF Vote
  <2>3. \A o : Holds(o) => Holds(o)' BY <1>1, <1>2, <1>7, <2>2, VoteKeepsHolds
  <2>4. \A v \in Workers : pc'[v] \in {"unqueue", "check", "start", "handler", "vote",
                                      "latest", "decide"} =>
                           pc'[v] = pc[v] /\ votes'[v] = votes[v]
    BY <2>1 DEF TypeOK
  <2> QED BY <1>4, <2>1, <2>3, <2>4 DEF OneInv
<1>8. ASSUME NEW w \in Workers, Count(w) PROVE OneInv'
  <2>1. PICK a \in MostFrequent(votes) :
          /\ verdict' = [verdict EXCEPT ![w] = Judge(votes, a)]
          /\ pc' = [pc EXCEPT ![w] = IF Judge(votes, a) = None THEN "idle" ELSE "latest"]
    BY <1>8 DEF Count, Seen, Goto
  <2>2. votes' = votes /\ outcomes' = outcomes BY <1>8 DEF Count, store, history
  <2>3. ASSUME NEW v \in Workers, pc'[v] \in {"latest", "decide"} PROVE Holds(verdict'[v])
    <3>1. CASE v = w
      <4>1. Judge(votes, a) # None /\ verdict'[v] = Judge(votes, a)
        BY <2>1, <2>3, <3>1 DEF TypeOK
      <4> QED BY <1>1, <1>2, <4>1, JudgeHolds
    <3>2. CASE v # w
      <4>1. pc'[v] = pc[v] /\ verdict'[v] = verdict[v] BY <2>1, <3>2 DEF TypeOK
      <4> QED BY <1>4, <2>3, <4>1
    <3> QED BY <3>1, <3>2
  <2>4. \A v \in Workers : pc'[v] \in {"unqueue", "check", "start", "handler", "vote"} =>
                           pc'[v] = pc[v]
    BY <2>1 DEF TypeOK
  <2> QED BY <1>4, <1>5, <2>2, <2>3, <2>4 DEF OneInv
<1>9. ASSUME NEW w \in Workers, Decide(w) PROVE OneInv'
  <2>1. /\ votes' = votes /\ verdict' = verdict /\ outcomes' = outcomes \cup {verdict[w]}
        /\ pc' = [pc EXCEPT ![w] = "idle"] /\ Holds(verdict[w])
    BY <1>4, <1>9 DEF Decide, Goto
  <2>2. \A v \in Workers : pc'[v] # "idle" => pc'[v] = pc[v] BY <2>1 DEF TypeOK
  <2> QED BY <1>4, <1>5, <2>1, <2>2 DEF OneInv
<1>10. CASE Recover
  <2>1. FALSE
    BY <1>1, <1>2, <1>10
       DEF TypeOK, TakerInv, Recover, RecoverRead, RecoverWrite, RecoverQueue, RecoverClear
  <2> QED BY <2>1
<1>11. ASSUME NEW w \in Workers,
              \/ Scan(w) \/ Unqueue(w) \/ Check(w) \/ Start(w) \/ Answer(w) \/ Latest(w) \/ Crash(w)
       PROVE  OneInv'
  <2>1. votes' = votes /\ verdict' = verdict /\ outcomes' = outcomes
    BY <1>11 DEF Scan, Unqueue, Check, Start, Answer, Latest, Crash, store, history
  <2>2. \A v \in Workers :
          /\ pc'[v] \in {"latest", "decide"} => pc[v] \in {"latest", "decide"}
          /\ pc'[v] \in {"unqueue", "check", "start", "handler", "vote"} =>
             pc[v] \in {"unqueue", "check", "start", "handler", "vote"}
    BY <1>11 DEF TypeOK, Scan, Unqueue, Check, Start, Answer, Latest, Crash, Goto
  <2> QED BY <1>4, <1>5, <2>1, <2>2 DEF OneInv
<1>12. CASE UNCHANGED vars
  BY <1>4, <1>5, <1>12 DEF vars, store, runs, history, OneInv
<1> QED BY <1>6, <1>7, <1>8, <1>9, <1>10, <1>11, <1>12 DEF Next, Step

\* Workers that decide at the same time, each from its own look at the votes,
\* write the same outcome (strategies all and majority, the task handed out
\* once and taken once by each).
THEOREM OutcomeIsOne ==
  ASSUME "weighted" \notin Strategies
  PROVE  Spec => []OneOutcome
<1>1. Init => OneInv BY DEF Init, OneInv
<1>2. TypeOK /\ TakerInv /\ OneInv => OneOutcome
  <2> SUFFICES ASSUME TypeOK, TakerInv, OneInv, recoveries = 0,
                      \A w \in Workers : takes[w] =< 1
               PROVE  Cardinality(outcomes) =< 1
    BY DEF OneOutcome
  <2>1. strategy # "weighted" BY DEF TypeOK
  <2>2. \A o, p \in outcomes : o = p BY <2>1, OneHolds DEF OneInv
  <2>3. CASE outcomes = {} BY <2>3, FS_EmptySet
  <2>4. CASE outcomes # {}
    <3>1. PICK o : outcomes = {o} BY <2>2, <2>4
    <3> QED BY <3>1, FS_Singleton
  <2> QED BY <2>3, <2>4
<1>3. TypeOK /\ TakerInv /\ OneInv /\ [Next]_vars => (TypeOK /\ TakerInv /\ OneInv)'
  BY TypeNext, TakerNext, OneNext
<1> QED BY <1>1, <1>2, <1>3, TypeInit, TakerInit, PTL DEF Spec
=============================================================================

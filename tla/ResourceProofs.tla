---------------------------- MODULE ResourceProofs ----------------------------
(***************************************************************************)
(* What may only grow so far: the connections of the pool, for every       *)
(* number of callers, warm-ups and drains (ConnectionPool, whose names     *)
(* begin with Pool), and the window of snapshots, for every number of      *)
(* processes and loops (Metrics): pruning by overlapping captures never    *)
(* removes one of the newest maxSnapshots, and leaves at most one too many *)
(* for each capture under way or cut short.                                *)
(***************************************************************************)
EXTENDS ConnectionPool, Metrics, FiniteSetTheorems, WellFoundedInduction, TLAPS

-----------------------------------------------------------------------------
(* The connection pool.                                                    *)

\* Exclusive is not inductive: that a connection fresh from the factory is
\* nobody's needs every connection in the pool to be an opened one.
FromFactory ==
  /\ idle \cup inUse \subseteq opened
  /\ Held \subseteq opened

PoolInv == PoolTypeOK /\ FromFactory /\ Exclusive

LEMMA PoolInvInit == PoolInit => PoolInv
BY SizeAssumption, BoundsAssumption
   DEF PoolInit, PoolInv, PoolTypeOK, FromFactory, Exclusive, Held

LEMMA ReleaseInv == ASSUME PoolInv, NEW p \in Callers, Release(p) PROVE PoolInv'
<1> DEFINE c == holds[p]
<1>1. c \in opened /\ c \notin idle /\ c \in Conns
  BY DEF PoolInv, PoolTypeOK, Release, FromFactory, Exclusive, Held
<1>2. CASE waiters = <<>>
  <2>1. /\ holds' = [holds EXCEPT ![p] = None]
        /\ pc' = [pc EXCEPT ![p] = "out"]
        /\ inUse' = inUse \ {c} /\ idle' = idle \cup {c}
        /\ UNCHANGED <<waiters, total, warming, opened, closed, refusals, drains>>
    BY <1>2 DEF Release, SomeoneWaits
  <2>2. PoolTypeOK' BY <1>1, <2>1 DEF PoolInv, PoolTypeOK
  <2>3. FromFactory' BY <1>1, <2>1 DEF PoolInv, PoolTypeOK, FromFactory, Held
  <2>4. Exclusive'
    BY <1>1, <2>1 DEF PoolInv, PoolTypeOK, Exclusive, Held, Release
  <2> QED BY <2>2, <2>3, <2>4 DEF PoolInv
<1>3. CASE waiters # <<>>
  <2> DEFINE w == Head(waiters)
  <2>1. w \in Callers /\ Tail(waiters) \in Seq(Callers)
    BY <1>3 DEF PoolInv, PoolTypeOK
  <2>2. /\ waiters' = Tail(waiters)
        /\ holds' = [holds EXCEPT ![p] = None, ![w] = c]
        /\ pc' = [pc EXCEPT ![p] = "out", ![w] = "using"]
        /\ inUse' = (inUse \ {c}) \cup {c}
        /\ UNCHANGED <<idle, total, warming, opened, closed, refusals, drains>>
    BY <1>3 DEF Release, SomeoneWaits
  <2> HIDE DEF w
  <2>3. PoolTypeOK' BY <1>1, <2>1, <2>2 DEF PoolInv, PoolTypeOK
  <2>4. FromFactory' BY <1>1, <2>1, <2>2 DEF PoolInv, PoolTypeOK, FromFactory, Held
  <2>5. \A q \in Callers : pc'[q] = "using" =>
          \/ q = w /\ holds'[q] = c
          \/ q # p /\ q # w /\ pc[q] = "using" /\ holds'[q] = holds[q]
    BY <2>1, <2>2 DEF PoolInv, PoolTypeOK
  <2>6. \A q \in Callers : q # p /\ pc[q] = "using" => holds[q] # c
    BY DEF PoolInv, Exclusive, Release
  <2>7. \A q, r \in Callers :
          (pc'[q] = "using" /\ pc'[r] = "using" /\ q # r) => holds'[q] # holds'[r]
    BY <2>5, <2>6 DEF PoolInv, Exclusive
  <2>8. Held' \cap idle' = {}
    BY <1>1, <2>2, <2>5 DEF PoolInv, Exclusive, Held
  <2>9. Exclusive'
    BY <2>7, <2>8 DEF Exclusive
  <2> QED BY <2>3, <2>4, <2>9 DEF PoolInv
<1> QED BY <1>2, <1>3

LEMMA PoolInvNext == PoolInv /\ [PoolNext]_poolVars => PoolInv'
<1> SUFFICES ASSUME PoolInv, [PoolNext]_poolVars PROVE PoolInv'
  OBVIOUS
<1> USE NoneAssumption, SizeAssumption, BoundsAssumption
        DEF PoolInv, PoolTypeOK, FromFactory, Exclusive, Held, Fresh
<1>1. ASSUME NEW p \in Callers, AcquireIdle(p) PROVE PoolInv'
  BY <1>1 DEF AcquireIdle, Popped
<1>2. ASSUME NEW p \in Callers, AcquireCreate(p) PROVE PoolInv'
  BY <1>2 DEF AcquireCreate, SlotTaken
<1>3. ASSUME NEW p \in Callers, AcquireWait(p) PROVE PoolInv'
  BY <1>3 DEF AcquireWait
<1>4. ASSUME NEW p \in Callers, Created(p) PROVE PoolInv'
  BY <1>4 DEF Created
<1>5. ASSUME NEW p \in Callers, CreateFails(p) PROVE PoolInv'
  BY <1>5 DEF CreateFails, pool
<1>6. ASSUME NEW p \in Callers, Release(p) PROVE PoolInv'
  BY <1>6, ReleaseInv
<1>7. ASSUME NEW w \in Warmers, WarmStart(w) PROVE PoolInv'
  BY <1>7 DEF WarmStart, pool
<1>8. ASSUME NEW w \in Warmers, WarmCreated(w) PROVE PoolInv'
  BY <1>8 DEF WarmCreated
<1>9. ASSUME NEW w \in Warmers, WarmFails(w) PROVE PoolInv'
  BY <1>9 DEF WarmFails, pool
<1>10. CASE Drain
  BY <1>10 DEF Drain
<1>11. CASE UNCHANGED poolVars
  BY <1>11 DEF poolVars, pool
<1> QED
  BY <1>1, <1>2, <1>3, <1>4, <1>5, <1>6, <1>7, <1>8, <1>9, <1>10, <1>11 DEF PoolNext, Answer

\* The pool's state stays within its types (TypeOK).
THEOREM PoolTypesCorrect == PoolSpec => []PoolTypeOK
<1>1. PoolInv => PoolTypeOK BY DEF PoolInv
<1> QED BY PoolInvInit, PoolInvNext, <1>1, PTL DEF PoolSpec

\* No connection is ever shared by two users, nor idle while it is used, for
\* any number of callers, with warm-ups, refused connections and drains.
THEOREM NeverShared == PoolSpec => []Exclusive
<1>1. PoolInv => Exclusive BY DEF PoolInv
<1> QED BY PoolInvInit, PoolInvNext, <1>1, PTL DEF PoolSpec

-----------------------------------------------------------------------------
(* The limit.  Until a drain, total counts every connection there is or    *)
(* will be (refused ones too), and only a warmUp that has looked at it     *)
(* already may still take it past max.                                     *)

SizeInv ==
  drains = 0 =>
    /\ IsFiniteSet(idle) /\ IsFiniteSet(Held)
    /\ Size =< total
    /\ total + Cardinality(warming) =< Max + Cardinality(Warmers)

LEMMA FiniteUsers ==
  ASSUME PoolTypeOK
  PROVE  /\ IsFiniteSet(Creating) /\ Cardinality(Creating) \in Nat
         /\ IsFiniteSet(warming) /\ Cardinality(warming) \in Nat
         /\ Cardinality(warming) =< Cardinality(Warmers) /\ Cardinality(Warmers) \in Nat
<1>1. Creating \subseteq Callers /\ warming \subseteq Warmers BY DEF PoolTypeOK, Creating
<1>2. IsFiniteSet(Creating) /\ IsFiniteSet(warming)
  BY <1>1, UsersAssumption, FS_Subset
<1>3. Cardinality(warming) =< Cardinality(Warmers)
  BY <1>1, UsersAssumption, FS_Subset
<1> QED BY <1>2, <1>3, UsersAssumption, FS_CardinalityType

LEMMA SizeInit == PoolInit => SizeInv
<1> SUFFICES ASSUME PoolInit PROVE SizeInv
  OBVIOUS
<1>1. idle = {} /\ Held = {} /\ Creating = {} /\ warming = {} /\ total = 0
  BY DEF PoolInit, Held, Creating
<1>2. IsFiniteSet({}) /\ Cardinality({}) = 0 BY FS_EmptySet
<1>3. Cardinality(Warmers) \in Nat BY UsersAssumption, FS_CardinalityType
<1> QED BY <1>1, <1>2, <1>3, SizeAssumption DEF SizeInv, Size

\* A set that gains at most one element, or loses one, in numbers.
LEMMA OneMore ==
  ASSUME NEW S, NEW T, NEW x, IsFiniteSet(S), T \subseteq S \cup {x}
  PROVE  /\ IsFiniteSet(T) /\ Cardinality(T) \in Nat /\ Cardinality(S) \in Nat
         /\ Cardinality(T) =< Cardinality(S) + 1
<1>1. IsFiniteSet(S \cup {x}) /\ Cardinality(S \cup {x}) =< Cardinality(S) + 1
      /\ Cardinality(S) \in Nat
  BY FS_AddElement, FS_CardinalityType
<1>2. IsFiniteSet(T) /\ Cardinality(T) =< Cardinality(S \cup {x})
  BY <1>1, FS_Subset
<1>3. Cardinality(T) \in Nat /\ Cardinality(S \cup {x}) \in Nat
  BY <1>1, <1>2, FS_CardinalityType
<1> QED BY <1>1, <1>2, <1>3

LEMMA OneLess ==
  ASSUME NEW S, NEW T, NEW x \in S, IsFiniteSet(S), T \subseteq S \ {x}
  PROVE  /\ IsFiniteSet(T) /\ Cardinality(T) \in Nat /\ Cardinality(S) \in Nat
         /\ Cardinality(T) =< Cardinality(S) - 1
<1>1. IsFiniteSet(S \ {x}) /\ Cardinality(S \ {x}) = Cardinality(S) - 1
      /\ Cardinality(S) \in Nat
  BY FS_RemoveElement, FS_CardinalityType
<1>2. IsFiniteSet(T) /\ Cardinality(T) =< Cardinality(S \ {x})
  BY <1>1, FS_Subset
<1>3. Cardinality(T) \in Nat BY <1>2, FS_CardinalityType
<1> QED BY <1>1, <1>2, <1>3

LEMMA NoMore ==
  ASSUME NEW S, NEW T, IsFiniteSet(S), T \subseteq S
  PROVE  /\ IsFiniteSet(T) /\ Cardinality(T) \in Nat /\ Cardinality(S) \in Nat
         /\ Cardinality(T) =< Cardinality(S)
BY FS_Subset, FS_CardinalityType

LEMMA SizeNext == PoolInv /\ PoolInv' /\ SizeInv /\ [PoolNext]_poolVars => SizeInv'
<1> SUFFICES ASSUME PoolInv, PoolInv', SizeInv, [PoolNext]_poolVars, drains' = 0
             PROVE  /\ IsFiniteSet(idle)' /\ IsFiniteSet(Held)'
                    /\ Size' =< total'
                    /\ total' + Cardinality(warming)' =< Max + Cardinality(Warmers)
  BY DEF SizeInv
<1> USE DEF poolVars, pool
<1>a. /\ PoolTypeOK /\ PoolTypeOK' /\ Exclusive
      /\ total \in Nat /\ Max \in Nat /\ Min \in Nat /\ Min =< Max
  BY SizeAssumption DEF PoolInv, PoolTypeOK
<1>b. drains = 0 /\ ~Drain
  <2>1. ~Drain BY <1>a DEF Drain, PoolTypeOK
  <2> QED
    BY <2>1
    DEF PoolNext, Answer, AcquireIdle, AcquireCreate, AcquireWait, Created, CreateFails,
        Release, WarmStart, WarmCreated, WarmFails
<1>c. /\ IsFiniteSet(idle) /\ IsFiniteSet(Held)
      /\ Size =< total /\ total + Cardinality(warming) =< Max + Cardinality(Warmers)
  BY <1>b DEF SizeInv
<1>d. /\ Cardinality(idle) \in Nat /\ Cardinality(Held) \in Nat
      /\ Cardinality(Creating) \in Nat /\ IsFiniteSet(Creating)
      /\ Cardinality(warming) \in Nat /\ IsFiniteSet(warming)
      /\ Cardinality(warming) =< Cardinality(Warmers) /\ Cardinality(Warmers) \in Nat
  BY <1>a, <1>c, FiniteUsers, FS_CardinalityType
\* Nothing gained.
<1>1. ASSUME idle' \subseteq idle, Held' \subseteq Held, Creating' \subseteq Creating,
             total' = total, Cardinality(warming') =< Cardinality(warming),
             Cardinality(warming') \in Nat
      PROVE  SizeInv'
  <2>1. /\ IsFiniteSet(idle') /\ Cardinality(idle') =< Cardinality(idle)
        /\ IsFiniteSet(Held') /\ Cardinality(Held') =< Cardinality(Held)
        /\ Cardinality(Creating') =< Cardinality(Creating)
        /\ Cardinality(idle') \in Nat /\ Cardinality(Held') \in Nat
        /\ Cardinality(Creating') \in Nat
    BY <1>1, <1>c, <1>d, NoMore
  <2> QED BY <1>1, <1>a, <1>c, <1>d, <2>1 DEF SizeInv, Size
<1>2. ASSUME NEW p \in Callers, AcquireIdle(p) PROVE SizeInv'
  <2>1. PICK c \in idle :
          /\ idle' = idle \ {c} /\ holds' = [holds EXCEPT ![p] = c]
          /\ pc' = [pc EXCEPT ![p] = "using"] /\ UNCHANGED <<total, warming>>
    BY <1>2 DEF AcquireIdle, Popped
  <2>2. Held' \subseteq Held \cup {c} /\ Creating' \subseteq Creating
    BY <1>a, <2>1 DEF Held, Creating, PoolTypeOK
  <2>3. /\ IsFiniteSet(idle') /\ Cardinality(idle') =< Cardinality(idle) - 1
        /\ Cardinality(idle') \in Nat
    BY <1>c, <2>1, OneLess
  <2>4. /\ IsFiniteSet(Held') /\ Cardinality(Held') =< Cardinality(Held) + 1
        /\ Cardinality(Held') \in Nat
    BY <1>c, <2>2, OneMore
  <2>5. Cardinality(Creating') =< Cardinality(Creating) /\ Cardinality(Creating') \in Nat
    BY <1>d, <2>2, NoMore
  <2> QED BY <1>a, <1>c, <1>d, <2>1, <2>3, <2>4, <2>5 DEF SizeInv, Size
<1>3. ASSUME NEW p \in Callers, AcquireCreate(p) PROVE SizeInv'
  <2>1. /\ Held' \subseteq Held /\ Creating' \subseteq Creating \cup {p}
        /\ UNCHANGED <<idle, warming>> /\ total < Max /\ total' = total + 1
    BY <1>a, <1>3 DEF AcquireCreate, SlotTaken, Held, Creating, PoolTypeOK
  <2>2. /\ IsFiniteSet(Held') /\ Cardinality(Held') =< Cardinality(Held)
        /\ Cardinality(Held') \in Nat
    BY <1>c, <2>1, NoMore
  <2>3. /\ Cardinality(Creating') =< Cardinality(Creating) + 1
        /\ Cardinality(Creating') \in Nat
    BY <1>d, <2>1, OneMore
  <2> QED BY <1>a, <1>c, <1>d, <2>1, <2>2, <2>3 DEF SizeInv, Size
<1>4. ASSUME NEW p \in Callers, Created(p) PROVE SizeInv'
  <2>1. PICK c \in Fresh :
          /\ holds' = [holds EXCEPT ![p] = c] /\ pc' = [pc EXCEPT ![p] = "using"]
          /\ p \in Creating /\ UNCHANGED <<idle, total, warming>>
    BY <1>4 DEF Created, Creating
  <2>2. Held' \subseteq Held \cup {c} /\ Creating' \subseteq Creating \ {p}
    BY <1>a, <2>1 DEF Held, Creating, PoolTypeOK
  <2>3. /\ IsFiniteSet(Held') /\ Cardinality(Held') =< Cardinality(Held) + 1
        /\ Cardinality(Held') \in Nat
    BY <1>c, <2>2, OneMore
  <2>4. /\ Cardinality(Creating') =< Cardinality(Creating) - 1
        /\ Cardinality(Creating') \in Nat
    BY <1>d, <2>1, <2>2, OneLess
  <2> QED BY <1>a, <1>c, <1>d, <2>1, <2>3, <2>4 DEF SizeInv, Size
<1>5. ASSUME NEW p \in Callers, AcquireWait(p) \/ CreateFails(p) PROVE SizeInv'
  <2>1. Held' \subseteq Held /\ Creating' \subseteq Creating
    BY <1>a, <1>5 DEF AcquireWait, CreateFails, Held, Creating, PoolTypeOK
  <2>2. UNCHANGED <<idle, total, warming>> BY <1>5 DEF AcquireWait, CreateFails
  <2> QED BY <1>1, <1>d, <2>1, <2>2
<1>6. ASSUME NEW p \in Callers, Release(p), waiters # <<>> PROVE SizeInv'
  <2> DEFINE c == holds[p]
             w == Head(waiters)
  <2>1. w \in Callers /\ c \in Held
    BY <1>a, <1>6 DEF PoolTypeOK, Release, Held
  <2>2. /\ holds' = [holds EXCEPT ![p] = None, ![w] = c]
        /\ pc' = [pc EXCEPT ![p] = "out", ![w] = "using"]
        /\ UNCHANGED <<idle, total, warming>>
    BY <1>6 DEF Release, SomeoneWaits
  <2> HIDE DEF w, c
  <2>3. Held' \subseteq Held /\ Creating' \subseteq Creating
    BY <1>a, <2>1, <2>2 DEF PoolTypeOK, Held, Creating
  <2> QED BY <1>1, <1>d, <2>2, <2>3
<1>7. ASSUME NEW p \in Callers, Release(p), waiters = <<>> PROVE SizeInv'
  <2>1. PICK c \in Held : c = holds[p] BY <1>7 DEF Release, Held
  <2>2. /\ holds' = [holds EXCEPT ![p] = None] /\ pc' = [pc EXCEPT ![p] = "out"]
        /\ idle' = idle \cup {c} /\ UNCHANGED <<total, warming>>
    BY <1>7, <2>1 DEF Release, SomeoneWaits
  <2>3. /\ Held' \subseteq Held \ {c} /\ Creating' \subseteq Creating
    BY <1>a, <1>7, <2>1, <2>2 DEF PoolTypeOK, Held, Creating, Exclusive, Release
  <2>4. /\ IsFiniteSet(idle') /\ Cardinality(idle') =< Cardinality(idle) + 1
        /\ Cardinality(idle') \in Nat
    BY <1>c, <2>2, OneMore
  <2>5. /\ IsFiniteSet(Held') /\ Cardinality(Held') =< Cardinality(Held) - 1
        /\ Cardinality(Held') \in Nat
    BY <1>c, <2>1, <2>3, OneLess
  <2>6. Cardinality(Creating') =< Cardinality(Creating) /\ Cardinality(Creating') \in Nat
    BY <1>d, <2>3, NoMore
  <2> QED BY <1>a, <1>c, <1>d, <2>2, <2>4, <2>5, <2>6 DEF SizeInv, Size
<1>8. ASSUME NEW w \in Warmers, WarmStart(w) PROVE SizeInv'
  <2>1. total < Min /\ UNCHANGED <<idle, holds, pc, total>> BY <1>8 DEF WarmStart
  <2>2. /\ Cardinality(warming') \in Nat
        /\ Cardinality(warming') =< Cardinality(Warmers)
    BY <1>a, UsersAssumption, FS_Subset, FS_CardinalityType DEF PoolTypeOK
  <2>3. total' + Cardinality(warming') =< Max + Cardinality(Warmers)
    BY <1>a, <1>d, <2>1, <2>2
  <2> QED BY <1>c, <2>1, <2>3 DEF SizeInv, Size, Held, Creating
<1>9. ASSUME NEW w \in Warmers, WarmCreated(w) PROVE SizeInv'
  <2>1. PICK c : /\ idle' = idle \cup {c} /\ w \in warming /\ warming' = warming \ {w}
                 /\ total' = total + 1 /\ UNCHANGED <<holds, pc>>
    BY <1>9 DEF WarmCreated
  <2>2. Held' = Held /\ Creating' = Creating BY <2>1 DEF Held, Creating
  <2>3. /\ IsFiniteSet(idle') /\ Cardinality(idle') =< Cardinality(idle) + 1
        /\ Cardinality(idle') \in Nat
    BY <1>c, <2>1, OneMore
  <2>4. /\ Cardinality(warming') =< Cardinality(warming) - 1
        /\ Cardinality(warming') \in Nat
    BY <1>d, <2>1, OneLess
  <2> QED BY <1>a, <1>c, <1>d, <2>1, <2>2, <2>3, <2>4 DEF SizeInv, Size
<1>10. ASSUME NEW w \in Warmers, WarmFails(w) PROVE SizeInv'
  <2>1. /\ Cardinality(warming') =< Cardinality(warming)
        /\ Cardinality(warming') \in Nat
    BY <1>10, <1>d, NoMore DEF WarmFails
  <2> QED BY <1>1, <1>10, <2>1 DEF WarmFails, Held, Creating
<1>11. ASSUME UNCHANGED poolVars PROVE SizeInv'
  <2>1. Held' = Held /\ Creating' = Creating /\ UNCHANGED <<idle, total, warming>>
    BY <1>11 DEF Held, Creating
  <2> QED BY <1>1, <1>d, <2>1
<1>12. SizeInv'
  <2>1. ASSUME NEW p \in Callers, Release(p) PROVE SizeInv' BY <1>6, <1>7, <2>1
  <2>2. ASSUME NEW p \in Callers, Answer(p) PROVE SizeInv' BY <1>4, <1>5, <2>2 DEF Answer
  <2>3. CASE PoolNext BY <1>b, <1>2, <1>3, <1>5, <1>8, <1>9, <1>10, <2>1, <2>2, <2>3 DEF PoolNext
  <2> QED BY <1>11, <2>3
<1> QED BY <1>12 DEF SizeInv

LEMMA SizeSuffices == PoolTypeOK /\ SizeInv => WithinMax
<1> SUFFICES ASSUME PoolTypeOK, SizeInv, drains = 0
             PROVE  Size =< Max + Cardinality(Warmers)
  BY DEF WithinMax
<1>1. /\ IsFiniteSet(idle) /\ IsFiniteSet(Held) /\ Size =< total
      /\ total + Cardinality(warming) =< Max + Cardinality(Warmers)
  BY DEF SizeInv
<1>2. /\ Cardinality(idle) \in Nat /\ Cardinality(Held) \in Nat
      /\ Cardinality(Creating) \in Nat /\ Cardinality(warming) \in Nat
      /\ Cardinality(Warmers) \in Nat /\ total \in Nat /\ Max \in Nat
  BY <1>1, FiniteUsers, FS_CardinalityType, SizeAssumption DEF PoolTypeOK
<1> QED BY <1>1, <1>2 DEF Size

\* "Callers never exceed the connection limit under load": any number of
\* acquires and releases, with warm-ups and refusals, stay within max, but for
\* one connection for each warmUp beside them.
THEOREM LimitKept == PoolSpec => []WithinMax
<1>1. PoolInv => PoolTypeOK BY DEF PoolInv
<1> QED BY PoolInvInit, PoolInvNext, SizeInit, SizeNext, SizeSuffices, <1>1, PTL DEF PoolSpec

-----------------------------------------------------------------------------
(* The window of snapshots.                                                *)

\* Cardinality of a set of timestamps, and its growth with the set.
LEMMA NewerGrows ==
  ASSUME NEW S \in SUBSET Timestamp, NEW T \in SUBSET Timestamp, S \subseteq T, NEW k
  PROVE  /\ Cardinality(Newer(S, k)) \in Nat
         /\ Cardinality(Newer(T, k)) \in Nat
         /\ Cardinality(Newer(S, k)) =< Cardinality(Newer(T, k))
<1>1. IsFiniteSet(Timestamp)
  BY FS_Interval, MetricsAssumption DEF Timestamp
<1>2. Newer(T, k) \subseteq Timestamp /\ Newer(S, k) \subseteq Newer(T, k)
  BY DEF Newer
<1>3. IsFiniteSet(Newer(T, k)) BY <1>1, <1>2, FS_Subset
<1>4. IsFiniteSet(Newer(S, k)) /\ Cardinality(Newer(S, k)) =< Cardinality(Newer(T, k))
  BY <1>2, <1>3, FS_Subset
<1> QED BY <1>3, <1>4, FS_CardinalityType

LEMMA TypeInit == Init => TypeOK
BY MetricsAssumption DEF Init, TypeOK, Timestamp

LEMMA ExcessIn == ASSUME NEW S PROVE Excess(S) \subseteq S
BY DEF Excess

LEMMA TypeNext == TypeOK /\ [Next]_vars => TypeOK'
<1> SUFFICES ASSUME TypeOK, [Next]_vars PROVE TypeOK'
  OBVIOUS
<1> USE DEF TypeOK
<1>1. CASE Tick BY <1>1, MetricsAssumption DEF Tick, Timestamp
<1>2. ASSUME NEW l \in Loops, Start(l) PROVE TypeOK'
  BY <1>2, MetricsAssumption DEF Start, Goto
<1>3. ASSUME NEW l \in Loops, Step(l) PROVE TypeOK'
  <2>1. CASE Wake(l) BY <2>1 DEF Wake, Goto
  <2>2. CASE Store(l) BY <2>2 DEF Store, Goto
  <2>3. CASE List(l)
    <3>1. Excess(keys) \in SUBSET Timestamp BY ExcessIn
    <3> QED BY <2>3, <3>1 DEF List, Goto
  <2>4. CASE DeleteNext(l) BY <2>4 DEF DeleteNext, Goto
  <2> QED BY <1>3, <2>1, <2>2, <2>3, <2>4 DEF Step
<1>4. ASSUME NEW l \in Loops, Fail(l) PROVE TypeOK'
  <2>1. cuts' \in 0 .. MaxCuts BY <1>4, MetricsAssumption DEF Fail
  <2> QED BY <1>4, <2>1 DEF Fail, Goto
<1>5. ASSUME NEW p \in Processes, Stop(p) PROVE TypeOK'
  BY <1>5 DEF Stop
<1>6. ASSUME NEW p \in Processes, Exit(p) PROVE TypeOK'
  <2> DEFINE cut == {l \in Loops : ProcessOf[l] = p /\ Capturing(l)}
  <2>1. Cardinality(cut) \in Nat
    BY FS_Subset, FS_CardinalityType, MetricsAssumption
  <2>2. cuts' \in 0 .. MaxCuts BY <1>6, <2>1, MetricsAssumption DEF Exit
  <2> QED BY <1>6, <2>2 DEF Exit
<1>7. CASE UNCHANGED vars BY <1>7 DEF vars
<1> QED BY <1>1, <1>2, <1>3, <1>4, <1>5, <1>6, <1>7 DEF Next

\* The state of a collector (metrics-collector.ts) stays within its types.
THEOREM CollectorTypesCorrect == Spec => []TypeOK
BY TypeInit, TypeNext, PTL DEF Spec

-----------------------------------------------------------------------------
(* What a loop is about to delete stays old whatever the others store.     *)

Outdated(k) == Cardinality(Newer(ever, k)) >= MaxSnapshots

KeptInv ==
  /\ TypeOK
  /\ \A l \in Loops : \A k \in old[l] : Outdated(k)
  /\ \A k \in ever \ keys : Outdated(k)

LEMMA KeptSuffices == KeptInv => NewestKept
<1> SUFFICES ASSUME KeptInv PROVE NewestKept
  OBVIOUS
<1>1. ASSUME NEW k \in Latest(ever) PROVE k \in Latest(keys)
  <2>1. k \in ever /\ Newer(ever, k) = {} BY DEF Latest
  <2>2. ~Outdated(k)
    BY <2>1, FS_EmptySet, MetricsAssumption DEF Outdated
  <2>3. k \in keys BY <2>1, <2>2 DEF KeptInv
  <2> QED BY <2>1, <2>3 DEF KeptInv, TypeOK, Latest, Newer
<1> QED BY <1>1 DEF KeptInv, NewestKept, Outdated

LEMMA OutdatedStays ==
  ASSUME TypeOK, TypeOK', ever \subseteq ever', NEW k, Outdated(k)
  PROVE  Outdated(k)'
<1>1. /\ Cardinality(Newer(ever, k)) \in Nat
      /\ Cardinality(Newer(ever', k)) \in Nat
      /\ Cardinality(Newer(ever, k)) =< Cardinality(Newer(ever', k))
  BY NewerGrows DEF TypeOK
<1> QED BY <1>1, MetricsAssumption DEF Outdated

LEMMA KeptNext == KeptInv /\ [Next]_vars => KeptInv'
<1> SUFFICES ASSUME KeptInv, [Next]_vars PROVE KeptInv'
  OBVIOUS
<1>1. TypeOK /\ TypeOK' BY TypeNext DEF KeptInv
<1>2. ever \subseteq ever'
  BY DEF Next, Tick, Start, Step, Wake, Store, List, DeleteNext, Fail, Stop, Exit, vars
<1>3. \A k : Outdated(k) => Outdated(k)' BY <1>1, <1>2, OutdatedStays
<1>4. SUFFICES /\ \A l \in Loops : \A k \in old'[l] : Outdated(k)'
               /\ \A k \in ever' \ keys' : Outdated(k)'
  BY <1>1 DEF KeptInv
<1>5. /\ \A l \in Loops : \A k \in old[l] : Outdated(k)
      /\ \A k \in ever \ keys : Outdated(k)
  BY DEF KeptInv, NewestKept, Outdated
<1>6. ASSUME NEW l \in Loops, List(l)
      PROVE  \A k \in Excess(keys) : Outdated(k)
  <2> SUFFICES ASSUME NEW k \in Excess(keys) PROVE Outdated(k)
    OBVIOUS
  <2>1. /\ Cardinality(Newer(keys, k)) \in Nat
        /\ Cardinality(Newer(ever, k)) \in Nat
        /\ Cardinality(Newer(keys, k)) =< Cardinality(Newer(ever, k))
    BY <1>1, NewerGrows DEF TypeOK
  <2> QED BY <2>1, MetricsAssumption DEF Outdated, Excess
<1>7. ASSUME NEW l \in Loops, Step(l)
      PROVE  /\ \A m \in Loops : \A k \in old'[m] : Outdated(k)'
             /\ \A k \in ever' \ keys' : Outdated(k)'
  <2>1. CASE Wake(l) BY <1>3, <1>5, <2>1 DEF Wake
  <2>2. CASE Store(l) BY <1>3, <1>5, <2>2 DEF Store
  <2>3. CASE List(l) BY <1>1, <1>3, <1>5, <1>6, <2>3 DEF List, TypeOK
  <2>4. CASE DeleteNext(l) BY <1>1, <1>3, <1>5, <2>4 DEF DeleteNext, TypeOK
  <2> QED BY <1>7, <2>1, <2>2, <2>3, <2>4 DEF Step
<1>8. ASSUME NEW l \in Loops, Start(l) \/ Fail(l)
      PROVE  /\ \A m \in Loops : \A k \in old'[m] : Outdated(k)'
             /\ \A k \in ever' \ keys' : Outdated(k)'
  BY <1>1, <1>3, <1>5, <1>8 DEF Start, Fail, TypeOK
<1>9. ASSUME NEW p \in Processes, Stop(p) \/ Exit(p)
      PROVE  /\ \A m \in Loops : \A k \in old'[m] : Outdated(k)'
             /\ \A k \in ever' \ keys' : Outdated(k)'
  BY <1>3, <1>5, <1>9 DEF Stop, Exit
<1>10. CASE Tick \/ UNCHANGED vars BY <1>3, <1>5, <1>10 DEF Tick, vars
<1> QED BY <1>7, <1>8, <1>9, <1>10 DEF Next

\* A snapshot is pruned only when maxSnapshots newer ones were stored, for
\* every number of processes and overlapping captures (_pruneOldSnapshots).
THEOREM NewestAreKept == Spec => []NewestKept
<1>1. Init => KeptInv BY TypeInit DEF Init, KeptInv
<1> QED BY <1>1, KeptSuffices, KeptNext, PTL DEF Spec

-----------------------------------------------------------------------------
(* The window.                                                             *)

LEMMA Least ==
  ASSUME NEW S \in SUBSET Nat, S # {}
  PROVE  \E m \in S : \A k \in S : m =< k
<1> DEFINE R == OpToRel(<, Nat)
<1>1. IsWellFoundedOn(R, Nat) BY NatLessThanWellFounded
<1>2. \A i, j \in Nat : i < j => <<i, j>> \in R BY DEF OpToRel
<1> HIDE DEF R
<1>3. PICK m \in S : \A k \in S : <<k, m>> \notin R BY <1>1, WFMin
<1>4. \A k \in S : ~(k < m) BY <1>2, <1>3
<1>5. \A k \in S : m =< k BY <1>4
<1> QED BY <1>5

LEMMA SnapshotSizes ==
  ASSUME NEW S \in SUBSET Timestamp
  PROVE  /\ IsFiniteSet(S) /\ Cardinality(S) \in Nat
         /\ \A T \in SUBSET S : Cardinality(T) \in Nat /\ Cardinality(T) =< Cardinality(S)
<1>1. IsFiniteSet(Timestamp) BY FS_Interval, MetricsAssumption DEF Timestamp
<1>2. IsFiniteSet(S) BY <1>1, FS_Subset
<1> QED BY <1>2, FS_Subset, FS_CardinalityType

\* What pruning leaves fits in the window: its oldest key has fewer than
\* maxSnapshots newer ones, and the others are among those.
LEMMA ExcessLeaves ==
  ASSUME NEW S \in SUBSET Timestamp
  PROVE  Cardinality(S \ Excess(S)) =< MaxSnapshots
<1> DEFINE T == S \ Excess(S)
<1>1. CASE T = {} BY <1>1, FS_EmptySet, MetricsAssumption
<1>2. CASE T # {}
  <2>1. T \in SUBSET Nat
    <3>1. Timestamp \in SUBSET Nat BY MetricsAssumption DEF Timestamp
    <3> QED BY <3>1
  <2>2. PICK k \in T : \A j \in T : k =< j BY <1>2, <2>1, Least
  <2>3. k \in S /\ ~(Cardinality(Newer(S, k)) >= MaxSnapshots)
    BY <2>2 DEF Excess
  <2>4. T \ {k} \subseteq Newer(S, k) BY <2>1, <2>2 DEF Newer
  <2>5. IsFiniteSet(Newer(S, k)) /\ Cardinality(Newer(S, k)) \in Nat
    BY SnapshotSizes DEF Newer
  <2>6. Cardinality(T \ {k}) \in Nat /\ Cardinality(T \ {k}) =< Cardinality(Newer(S, k))
    BY <2>4, <2>5, FS_Subset, FS_CardinalityType
  <2>7. IsFiniteSet(T) /\ Cardinality(T) \in Nat BY SnapshotSizes
  <2>8. Cardinality(T \ {k}) = Cardinality(T) - 1 BY <2>2, <2>7, FS_RemoveElement
  <2> QED BY <2>3, <2>5, <2>6, <2>7, <2>8, MetricsAssumption
<1> QED BY <1>1, <1>2

Pending == {l \in Loops : loop[l] \in {"list", "delete"}}

\* after[l] are the captures under way that stored after loop l listed the
\* keys: what l leaves when it has deleted its list exceeds the window by at
\* most one for each of them.
Ordered(after) ==
  /\ \A l \in Loops : after[l] \subseteq Pending \ {l}
  /\ \A l \in Loops : \A m \in after[l] : after[m] \subseteq after[l]
  /\ \A l \in Loops : loop[l] = "delete" =>
       Cardinality(keys \ old[l]) =< MaxSnapshots + cuts + Cardinality(after[l])

WindowInv == WindowBounded /\ \E after \in [Loops -> SUBSET Loops] : Ordered(after)

LEMMA LoopSizes ==
  ASSUME NEW L \in SUBSET Loops
  PROVE  /\ IsFiniteSet(L) /\ Cardinality(L) \in Nat
         /\ \A M \in SUBSET L : Cardinality(M) \in Nat /\ Cardinality(M) =< Cardinality(L)
         /\ \A M \in SUBSET Loops : /\ Cardinality(L \ M) \in Nat
                                    /\ Cardinality(L) =< Cardinality(L \ M) + Cardinality(M)
<1>1. IsFiniteSet(L) BY MetricsAssumption, FS_Subset
<1>2. ASSUME NEW M \in SUBSET Loops
      PROVE  /\ Cardinality(L \ M) \in Nat
             /\ Cardinality(L) =< Cardinality(L \ M) + Cardinality(M)
  <2>1. IsFiniteSet(M) /\ Cardinality(M) \in Nat
    BY MetricsAssumption, FS_Subset, FS_CardinalityType
  <2>2. Cardinality(L \cap M) \in Nat /\ Cardinality(L \cap M) =< Cardinality(M)
    BY <2>1, FS_Subset, FS_CardinalityType
  <2>3. /\ IsFiniteSet(L \ M)
        /\ Cardinality(L \ M) = Cardinality(L) - Cardinality(L \cap M)
    BY <1>1, FS_Difference
  <2>4. Cardinality(L) \in Nat /\ Cardinality(L \ M) \in Nat
    BY <1>1, <2>3, FS_CardinalityType
  <2> QED BY <2>1, <2>2, <2>3, <2>4
<1> QED BY <1>1, <1>2, FS_Subset, FS_CardinalityType

\* The captures in L come to an end, well or badly.
LEMMA CapturesEnd ==
  ASSUME NEW after \in [Loops -> SUBSET Loops], Ordered(after),
         NEW L \in SUBSET Loops, Pending' = Pending \ L,
         \A l \in Loops : loop'[l] = "delete" =>
           /\ l \notin L
           /\ Cardinality(keys' \ old'[l]) =< MaxSnapshots + cuts' + Cardinality(after[l] \ L)
  PROVE  \E next \in [Loops -> SUBSET Loops] : Ordered(next)'
<1> DEFINE next == [l \in Loops |-> IF l \in L THEN {} ELSE after[l] \ L]
<1>1. next \in [Loops -> SUBSET Loops] OBVIOUS
<1>2. \A l \in Loops : next[l] \subseteq Pending' \ {l} BY DEF Ordered
<1>3. \A l \in Loops : \A m \in next[l] : next[m] \subseteq next[l] BY DEF Ordered
<1>4. \A l \in Loops : loop'[l] = "delete" =>
        Cardinality(keys' \ old'[l]) =< MaxSnapshots + cuts' + Cardinality(next[l])
  OBVIOUS
<1> HIDE DEF next
<1>5. PICK later \in [Loops -> SUBSET Loops] : later = next BY <1>1
<1>6. Ordered(later)' BY <1>2, <1>3, <1>4, <1>5 DEF Ordered
<1> QED BY <1>6

LEMMA WindowNext == TypeOK /\ TypeOK' /\ WindowInv /\ [Next]_vars => WindowInv'
<1> SUFFICES ASSUME TypeOK, TypeOK', WindowInv, [Next]_vars PROVE WindowInv'
  OBVIOUS
<1>1. PICK after \in [Loops -> SUBSET Loops] : Ordered(after) BY DEF WindowInv
<1>2. /\ Cardinality(keys) =< MaxSnapshots + cuts + Cardinality(Pending)
      /\ WindowBounded' <=>
           Cardinality(keys') =< MaxSnapshots + cuts' + Cardinality(Pending')
  BY DEF WindowInv, WindowBounded, Pending
<1>3. /\ MaxSnapshots \in Nat /\ cuts \in Nat /\ cuts' \in Nat
      /\ keys \in SUBSET Timestamp /\ keys' \in SUBSET Timestamp
      /\ Pending \in SUBSET Loops /\ Pending' \in SUBSET Loops
      /\ \A l \in Loops : after[l] \in SUBSET Loops
      /\ loop \in [Loops -> {"none", "timer", "store", "list", "delete"}]
      /\ old \in [Loops -> SUBSET Timestamp]
  BY MetricsAssumption DEF TypeOK, Pending
<1>4. /\ \A l \in Loops : after[l] \subseteq Pending \ {l}
      /\ \A l \in Loops : \A m \in after[l] : after[m] \subseteq after[l]
      /\ \A l \in Loops : loop[l] = "delete" =>
           Cardinality(keys \ old[l]) =< MaxSnapshots + cuts + Cardinality(after[l])
  BY <1>1 DEF Ordered
<1>5. \A S \in SUBSET Timestamp :
        /\ Cardinality(S) \in Nat
        /\ \A T \in SUBSET S : Cardinality(T) \in Nat /\ Cardinality(T) =< Cardinality(S)
  BY SnapshotSizes
\* Steps that end captures, each at the price of a cut.
<1>6. ASSUME NEW L \in SUBSET Loops, Pending' = Pending \ L,
             keys' = keys, cuts' = cuts + Cardinality(L),
             \A l \in Loops : loop'[l] = "delete" =>
               l \notin L /\ loop[l] = "delete" /\ old'[l] = old[l]
      PROVE  WindowInv'
  <2>1. Cardinality(Pending) =< Cardinality(Pending') + Cardinality(L)
        /\ Cardinality(Pending') \in Nat /\ Cardinality(L) \in Nat
        /\ Cardinality(Pending) \in Nat
    BY <1>3, <1>6, LoopSizes
  <2>2. Cardinality(keys') \in Nat BY <1>3, <1>5
  <2>3. WindowBounded' BY <1>2, <1>3, <1>6, <2>1, <2>2
  <2>4. ASSUME NEW l \in Loops, loop'[l] = "delete"
        PROVE  /\ l \notin L
               /\ Cardinality(keys' \ old'[l]) =< MaxSnapshots + cuts' + Cardinality(after[l] \ L)
    <3>1. keys' \ old'[l] = keys \ old[l] BY <1>6, <2>4
    <3>2. Cardinality(keys \ old[l]) =< MaxSnapshots + cuts + Cardinality(after[l])
      BY <1>4, <1>6, <2>4
    <3>3. /\ Cardinality(after[l]) =< Cardinality(after[l] \ L) + Cardinality(L)
          /\ Cardinality(after[l] \ L) \in Nat /\ Cardinality(after[l]) \in Nat
      BY <1>3, LoopSizes
    <3>4. Cardinality(keys \ old[l]) \in Nat BY <1>3, <1>5
    <3>5. Cardinality(keys' \ old'[l]) = Cardinality(keys \ old[l]) BY <3>1
    <3>6. l \notin L /\ cuts' = cuts + Cardinality(L) BY <1>6, <2>4
    <3>7. MaxSnapshots \in Nat /\ cuts \in Nat BY <1>3
    <3> QED BY <2>1, <3>2, <3>3, <3>4, <3>5, <3>6, <3>7
  <2>5. \E next \in [Loops -> SUBSET Loops] : Ordered(next)'
    BY <1>1, <1>6, <2>4, CapturesEnd
  <2> QED BY <2>3, <2>5 DEF WindowInv
<1>7. ASSUME UNCHANGED <<keys, cuts>>, Pending' = Pending,
             \A l \in Loops : loop'[l] = "delete" => loop[l] = "delete" /\ old'[l] = old[l]
      PROVE  WindowInv'
  <2>1. Cardinality({}) = 0 BY FS_EmptySet
  <2>2. cuts' = cuts + Cardinality({}) BY <1>3, <1>7, <2>1
  <2> QED BY <1>6, <1>7, <2>2
\* A loop is done: what it leaves fits, but for the captures after it.
<1>8. ASSUME NEW l \in Loops, Pending' = Pending \ {l},
             UNCHANGED cuts, NEW few \in SUBSET Loops, few \subseteq Pending \ {l},
             Cardinality(keys') =< MaxSnapshots + cuts + Cardinality(few),
             keys' \subseteq keys,
             \A m \in Loops : loop'[m] = "delete" =>
               /\ m # l /\ loop[m] = "delete" /\ old'[m] = old[m]
               /\ l \in after[m] => few \subseteq after[m] \ {l}
      PROVE  WindowInv'
  <2>1. /\ Cardinality(few) =< Cardinality(Pending')
        /\ Cardinality(few) \in Nat /\ Cardinality(Pending') \in Nat
    BY <1>3, <1>8, LoopSizes
  <2>2. Cardinality(keys') \in Nat BY <1>3, <1>5
  <2>3. WindowBounded' BY <1>2, <1>3, <1>8, <2>1, <2>2
  <2>4. ASSUME NEW m \in Loops, loop'[m] = "delete"
        PROVE  /\ m \notin {l}
               /\ Cardinality(keys' \ old'[m])
                    =< MaxSnapshots + cuts' + Cardinality(after[m] \ {l})
    <3>1. m # l /\ loop[m] = "delete" /\ old'[m] = old[m] BY <1>8, <2>4
    <3>2. after[m] \ {l} \in SUBSET Loops /\ Cardinality(after[m] \ {l}) \in Nat
      BY <1>3, LoopSizes
    <3>3. Cardinality(keys' \ old'[m]) \in Nat
          /\ Cardinality(keys' \ old'[m]) =< Cardinality(keys')
      BY <1>3, <1>5
    <3>4. CASE l \in after[m]
      <4>1. Cardinality(few) =< Cardinality(after[m] \ {l})
        BY <1>8, <2>4, <3>2, <3>4, LoopSizes
      <4>2. cuts' = cuts /\ Cardinality(keys') =< MaxSnapshots + cuts + Cardinality(few)
        BY <1>8
      <4>3. MaxSnapshots \in Nat /\ cuts \in Nat BY <1>3
      <4> QED BY <2>1, <2>2, <3>1, <3>2, <3>3, <4>1, <4>2, <4>3
    <3>5. CASE l \notin after[m]
      <4>1. after[m] \ {l} = after[m] BY <3>5
      <4>2. keys' \ old'[m] \subseteq keys \ old[m] BY <1>8, <3>1
      <4>3. /\ Cardinality(keys' \ old'[m]) =< Cardinality(keys \ old[m])
            /\ Cardinality(keys \ old[m]) \in Nat
        BY <1>3, <1>5, <4>2
      <4>4. Cardinality(keys \ old[m]) =< MaxSnapshots + cuts + Cardinality(after[m])
        BY <1>4, <3>1
      <4>5. Cardinality(after[m] \ {l}) = Cardinality(after[m]) BY <4>1
      <4>6. cuts' = cuts /\ MaxSnapshots \in Nat /\ cuts \in Nat BY <1>3, <1>8
      <4> QED BY <3>1, <3>2, <3>3, <4>3, <4>4, <4>5, <4>6
    <3> QED BY <3>4, <3>5
  <2>5. \E next \in [Loops -> SUBSET Loops] : Ordered(next)'
    BY <1>1, <1>8, <2>4, CapturesEnd
  <2> QED BY <2>3, <2>5 DEF WindowInv
<1>9. ASSUME NEW l \in Loops, Store(l) PROVE WindowInv'
  <2>1. PICK k \in Timestamp : keys' = keys \cup {k} BY <1>9 DEF Store
  <2>2. /\ loop[l] = "store" /\ loop' = [loop EXCEPT ![l] = "list"]
        /\ UNCHANGED <<old, cuts>>
    BY <1>9 DEF Store, Goto
  <2>3. l \notin Pending /\ Pending' = Pending \cup {l} BY <1>3, <2>2 DEF Pending
  <2> DEFINE next == [m \in Loops |-> IF m = l THEN {} ELSE after[m] \cup {l}]
  <2>4. next \in [Loops -> SUBSET Loops] BY <1>3
  <2>5. \A m \in Loops : next[m] \subseteq Pending' \ {m} BY <1>4, <2>3
  <2>6. \A m \in Loops : \A n \in next[m] : next[n] \subseteq next[m] BY <1>4
  <2>7. ASSUME NEW m \in Loops, loop'[m] = "delete"
        PROVE  Cardinality(keys' \ old'[m]) =< MaxSnapshots + cuts' + Cardinality(next[m])
    <3>1. m # l /\ loop[m] = "delete" BY <1>3, <2>2, <2>7
    <3>2. Cardinality(next[m]) = Cardinality(after[m]) + 1
      <4>1. l \notin after[m] /\ next[m] = after[m] \cup {l} BY <1>4, <2>3, <3>1
      <4>2. IsFiniteSet(after[m]) BY <1>3, LoopSizes
      <4> QED BY <4>1, <4>2, FS_AddElement
    <3>3. keys' \ old'[m] \subseteq (keys \ old[m]) \cup {k} BY <2>1, <2>2
    <3>4. /\ IsFiniteSet((keys \ old[m]) \cup {k})
          /\ Cardinality((keys \ old[m]) \cup {k}) =< Cardinality(keys \ old[m]) + 1
          /\ Cardinality(keys \ old[m]) \in Nat
      BY <1>3, SnapshotSizes, FS_AddElement
    <3>5. /\ Cardinality(keys' \ old'[m]) \in Nat
          /\ Cardinality(keys' \ old'[m]) =< Cardinality((keys \ old[m]) \cup {k})
          /\ Cardinality((keys \ old[m]) \cup {k}) \in Nat
      BY <3>3, <3>4, FS_Subset, FS_CardinalityType
    <3>6. Cardinality(keys \ old[m]) =< MaxSnapshots + cuts + Cardinality(after[m])
      BY <1>4, <3>1
    <3>7. Cardinality(after[m]) \in Nat BY <1>3, LoopSizes
    <3>8. cuts' = cuts /\ MaxSnapshots \in Nat /\ cuts \in Nat BY <1>3, <2>2
    <3> HIDE DEF next
    <3> QED BY <3>2, <3>4, <3>5, <3>6, <3>7, <3>8
  <2> HIDE DEF next
  <2>8. PICK later \in [Loops -> SUBSET Loops] : later = next BY <2>4
  <2>9. Ordered(later)' BY <2>5, <2>6, <2>7, <2>8 DEF Ordered
  <2>10. WindowBounded'
    <3>1. /\ Cardinality(keys') =< Cardinality(keys) + 1
          /\ Cardinality(keys) \in Nat /\ Cardinality(keys') \in Nat
      <4>1. IsFiniteSet(keys) BY <1>3, SnapshotSizes
      <4>2. /\ Cardinality(keys) \in Nat /\ Cardinality(keys') \in Nat BY <1>3, <1>5
      <4>3. Cardinality(keys \cup {k}) = Cardinality(keys)
            \/ Cardinality(keys \cup {k}) = Cardinality(keys) + 1
        BY <4>1, FS_AddElement
      <4>4. Cardinality(keys') = Cardinality(keys \cup {k}) BY <2>1
      <4> QED BY <4>2, <4>3, <4>4
    <3>2. Cardinality(Pending') = Cardinality(Pending) + 1 /\ Cardinality(Pending) \in Nat
      BY <1>3, <2>3, LoopSizes, FS_AddElement
    <3> QED BY <1>2, <1>3, <2>2, <3>1, <3>2
  <2> QED BY <2>9, <2>10 DEF WindowInv
<1>10. ASSUME NEW l \in Loops, List(l), Excess(keys) # {} PROVE WindowInv'
  <2>1. /\ loop[l] = "list" /\ loop' = [loop EXCEPT ![l] = "delete"]
        /\ old' = [old EXCEPT ![l] = Excess(keys)] /\ UNCHANGED <<keys, cuts>>
    BY <1>10 DEF List, Goto
  <2>2. Pending' = Pending BY <1>3, <2>1 DEF Pending
  <2>3. WindowBounded' BY <1>2, <2>1, <2>2
  <2>4. ASSUME NEW m \in Loops, loop'[m] = "delete"
        PROVE  /\ m \notin {}
               /\ Cardinality(keys' \ old'[m]) =< MaxSnapshots + cuts' + Cardinality(after[m] \ {})
    <3>1. after[m] \ {} = after[m] /\ Cardinality(after[m]) \in Nat BY <1>3, LoopSizes
    <3>2. CASE m = l
      <4>1. keys' \ old'[m] = keys \ Excess(keys) BY <1>3, <2>1, <3>2
      <4>2. Cardinality(keys \ Excess(keys)) =< MaxSnapshots BY <1>3, ExcessLeaves
      <4>3. Cardinality(keys \ Excess(keys)) \in Nat BY <1>3, <1>5
      <4>4. Cardinality(keys' \ old'[m]) = Cardinality(keys \ Excess(keys)) BY <4>1
      <4>5. Cardinality(after[m] \ {}) = Cardinality(after[m]) BY <3>1
      <4>6. cuts' = cuts /\ MaxSnapshots \in Nat /\ cuts \in Nat BY <1>3, <2>1
      <4> QED BY <3>1, <4>2, <4>3, <4>4, <4>5, <4>6
    <3>3. CASE m # l
      <4>1. old'[m] = old[m] /\ loop[m] = "delete" BY <1>3, <2>1, <2>4, <3>3
      <4> QED BY <1>4, <2>1, <3>1, <4>1
    <3> QED BY <3>2, <3>3
  <2>5. Pending' = Pending \ {} BY <2>2
  <2>6. \E next \in [Loops -> SUBSET Loops] : Ordered(next)'
    BY <1>1, <2>4, <2>5, CapturesEnd
  <2> QED BY <2>3, <2>6 DEF WindowInv
<1>11. ASSUME NEW l \in Loops, List(l), Excess(keys) = {} PROVE WindowInv'
  <2>1. /\ loop[l] = "list" /\ loop' = [loop EXCEPT ![l] = "timer"]
        /\ old' = [old EXCEPT ![l] = {}] /\ UNCHANGED <<keys, cuts>>
    BY <1>11 DEF List, Goto
  <2>2. Pending' = Pending \ {l} BY <1>3, <2>1 DEF Pending
  <2>3. Cardinality(keys \ Excess(keys)) =< MaxSnapshots /\ keys \ Excess(keys) = keys
    BY <1>3, <1>11, ExcessLeaves
  <2>4. Cardinality({}) = 0 BY FS_EmptySet
  <2>5. Cardinality(keys') =< MaxSnapshots + cuts + Cardinality({})
    BY <1>3, <1>5, <2>1, <2>3, <2>4
  <2>6. \A m \in Loops : loop'[m] = "delete" =>
          m # l /\ loop[m] = "delete" /\ old'[m] = old[m]
    BY <1>3, <2>1
  <2> QED BY <1>8, <2>1, <2>2, <2>5, <2>6
<1>12. ASSUME NEW l \in Loops, DeleteNext(l) PROVE WindowInv'
  <2>1. PICK k \in old[l] : /\ keys' = keys \ {k} /\ old' = [old EXCEPT ![l] = @ \ {k}]
                            /\ loop[l] = "delete" /\ UNCHANGED cuts
    BY <1>12 DEF DeleteNext
  <2>2. CASE Cardinality(old[l]) = 1
    <3>1. loop' = [loop EXCEPT ![l] = "timer"] BY <1>12, <2>2 DEF DeleteNext, Goto
    <3>2. old[l] = {k}
      <4>1. IsFiniteSet(old[l]) BY <1>3, SnapshotSizes
      <4>2. \E x : old[l] = {x} BY <2>2, <4>1, FS_Singleton
      <4> QED BY <4>2
    <3>3. Pending' = Pending \ {l} BY <1>3, <2>1, <3>1 DEF Pending
    <3>4. Cardinality(keys') =< MaxSnapshots + cuts + Cardinality(after[l])
      BY <1>4, <2>1, <3>2
    <3>5. \A m \in Loops : loop'[m] = "delete" =>
            /\ m # l /\ loop[m] = "delete" /\ old'[m] = old[m]
            /\ l \in after[m] => after[l] \subseteq after[m] \ {l}
      BY <1>3, <1>4, <2>1, <3>1
    <3>6. after[l] \in SUBSET Loops /\ after[l] \subseteq Pending \ {l} BY <1>3, <1>4
    <3> QED BY <1>8, <2>1, <3>3, <3>4, <3>5, <3>6
  <2>3. CASE Cardinality(old[l]) # 1
    <3>1. loop' = loop
      <4>1. loop' = [loop EXCEPT ![l] = "delete"] BY <1>12, <2>3 DEF DeleteNext, Goto
      <4> QED BY <1>3, <2>1, <4>1
    <3>2. Pending' = Pending \ {} BY <3>1 DEF Pending
    <3>3. /\ Cardinality(keys') =< Cardinality(keys)
          /\ Cardinality(keys) \in Nat /\ Cardinality(keys') \in Nat
      BY <1>3, <1>5, <2>1
    <3>4. Cardinality(Pending) \in Nat BY <1>3, LoopSizes
    <3>5. WindowBounded' BY <1>2, <1>3, <2>1, <3>2, <3>3, <3>4
    <3>6. ASSUME NEW m \in Loops, loop'[m] = "delete"
          PROVE  /\ m \notin {}
                 /\ Cardinality(keys' \ old'[m]) =< MaxSnapshots + cuts' + Cardinality(after[m] \ {})
      <4>1. keys' \ old'[m] \subseteq keys \ old[m] BY <1>3, <2>1
      <4>2. /\ Cardinality(keys' \ old'[m]) =< Cardinality(keys \ old[m])
            /\ Cardinality(keys \ old[m]) \in Nat /\ Cardinality(keys' \ old'[m]) \in Nat
        BY <1>3, <1>5, <4>1
      <4>3. Cardinality(keys \ old[m]) =< MaxSnapshots + cuts + Cardinality(after[m])
        BY <1>4, <3>1, <3>6
      <4>4. after[m] \ {} = after[m] /\ Cardinality(after[m]) \in Nat BY <1>3, LoopSizes
      <4> QED BY <1>3, <2>1, <4>2, <4>3, <4>4
    <3>7. \E next \in [Loops -> SUBSET Loops] : Ordered(next)'
      BY <1>1, <3>2, <3>6, CapturesEnd
    <3> QED BY <3>5, <3>7 DEF WindowInv
  <2> QED BY <2>2, <2>3
<1>13. ASSUME NEW l \in Loops, Fail(l) PROVE WindowInv'
  <2>1. /\ loop' = [loop EXCEPT ![l] = "timer"] /\ keys' = keys
        /\ old' = [old EXCEPT ![l] = {}] /\ cuts' = cuts + 1
    BY <1>13 DEF Fail, Goto
  <2>2. Cardinality({l}) = 1 BY FS_Singleton
  <2>3. Pending' = Pending \ {l} BY <1>3, <2>1 DEF Pending
  <2>4. \A m \in Loops : loop'[m] = "delete" =>
          m \notin {l} /\ loop[m] = "delete" /\ old'[m] = old[m]
    BY <1>3, <2>1
  <2> QED BY <1>6, <2>1, <2>2, <2>3, <2>4
<1>14. ASSUME NEW p \in Processes, Exit(p) PROVE WindowInv'
  <2> DEFINE cut == {l \in Loops : ProcessOf[l] = p /\ Capturing(l)}
  <2>1. /\ loop' = [l \in Loops |-> IF ProcessOf[l] = p THEN "none" ELSE loop[l]]
        /\ old' = [l \in Loops |-> IF ProcessOf[l] = p THEN {} ELSE old[l]]
        /\ keys' = keys /\ cuts' = cuts + Cardinality(cut)
    BY <1>14 DEF Exit
  <2>2. PICK L \in SUBSET Loops : L = cut OBVIOUS
  <2>3. Pending' = Pending \ L BY <2>1, <2>2 DEF Pending, Capturing
  <2>4. \A m \in Loops : loop'[m] = "delete" =>
          m \notin L /\ loop[m] = "delete" /\ old'[m] = old[m]
    BY <2>1, <2>2
  <2>5. cuts' = cuts + Cardinality(L) BY <2>1, <2>2
  <2> QED BY <1>6, <2>1, <2>3, <2>4, <2>5
<1>15. ASSUME NEW l \in Loops, Start(l) \/ Wake(l) PROVE WindowInv'
  <2>1. /\ loop[l] \in {"none", "timer"} /\ loop'[l] \in {"none", "store"}
        /\ \A m \in Loops \ {l} : loop'[m] = loop[m]
        /\ UNCHANGED <<keys, cuts, old>>
    BY <1>3, <1>15 DEF Start, Wake, Goto
  <2>2. Pending' = Pending BY <2>1 DEF Pending
  <2> QED BY <1>7, <2>1, <2>2
<1>16. ASSUME Tick \/ (\E p \in Processes : Stop(p)) \/ UNCHANGED vars PROVE WindowInv'
  <2>1. UNCHANGED <<keys, cuts, old, loop>> BY <1>16 DEF Tick, Stop, vars
  <2>2. Pending' = Pending BY <2>1 DEF Pending
  <2> QED BY <1>7, <2>1, <2>2
<1>17. ASSUME NEW l \in Loops, Step(l) PROVE WindowInv'
  BY <1>9, <1>10, <1>11, <1>12, <1>15, <1>17 DEF Step
<1> QED BY <1>13, <1>14, <1>15, <1>16, <1>17 DEF Next

\* "The snapshot set stays a bounded sliding window": however captures of
\* several loops and processes overlap, there are at most maxSnapshots and one
\* for each of them that is under way or was cut short (_pruneOldSnapshots).
THEOREM WindowStaysBounded == Spec => []WindowBounded
<1>1. Init => WindowInv
  <2> SUFFICES ASSUME Init PROVE WindowInv
    OBVIOUS
  <2>1. keys = {} /\ cuts = 0 /\ Pending = {} /\ \A l \in Loops : loop[l] # "delete"
    BY DEF Init, Pending
  <2>2. Cardinality({}) = 0 BY FS_EmptySet
  <2>3. WindowBounded BY <2>1, <2>2, MetricsAssumption DEF WindowBounded, Pending
  <2> DEFINE none == [l \in Loops |-> {}]
  <2>4. none \in [Loops -> SUBSET Loops] /\ Ordered(none) BY <2>1 DEF Ordered
  <2> QED BY <2>3, <2>4 DEF WindowInv
<1>2. WindowInv => WindowBounded BY DEF WindowInv
<1> QED BY <1>1, <1>2, CollectorTypesCorrect, WindowNext, PTL DEF Spec
=============================================================================

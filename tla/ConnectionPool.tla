---------------------------- MODULE ConnectionPool ----------------------------
(***************************************************************************)
(* RedisConnectionPool of src/services/redis.ts.                           *)
(*                                                                         *)
(* JavaScript runs one callback at a time, so a method is atomic up to its *)
(* next `await`; the pool awaits only its factory (opening a connection),  *)
(* and an acquire that finds the pool exhausted awaits a release.  Callers *)
(* follow withConnection: acquire, use, release once, and acquire again    *)
(* later.  Which idle connection is popped makes no difference to the      *)
(* properties, so the idle stack is a set; the wait queue is a sequence.   *)
(***************************************************************************)
EXTENDS Integers, FiniteSets, Sequences

CONSTANTS
  Callers,         \* the users of the pool
  Warmers,         \* calls of warmUp that run beside them
  Conns,           \* connections the factory can open (a bound)
  None,            \* no connection
  Min, Max,        \* the constructor's arguments
  MaxRefusals,     \* bound: how often opening a connection is refused
  MaxDrains        \* bound: how often drain() is called

ASSUME SizeAssumption == Min \in Nat /\ Max \in Nat /\ Min =< Max /\ Max >= 1
ASSUME NoneAssumption == None \notin Conns
ASSUME UsersAssumption == IsFiniteSet(Callers) /\ IsFiniteSet(Warmers)
ASSUME BoundsAssumption == MaxRefusals \in Nat /\ MaxDrains \in Nat

VARIABLES
  idle,     \* idle: open connections nobody uses
  inUse,    \* inUse: connections handed out
  waiters,  \* waiters: the acquires that wait, first come first served
  total,    \* total: the connections the pool counts against max
  holds,    \* the connection each caller has
  pc,       \* where each caller is
  warming,  \* the warmUp calls that await the factory
  opened,   \* every connection the factory ever opened
  closed,   \* those that drain() has quit
  refusals, \* refused connections so far
  drains    \* calls of drain so far

pool == <<idle, inUse, waiters, total>>
poolVars == <<pool, holds, pc, warming, opened, closed, refusals, drains>>

PoolInit ==
  /\ idle = {} /\ inUse = {} /\ waiters = <<>> /\ total = 0
  /\ holds = [p \in Callers |-> None]
  /\ pc = [p \in Callers |-> "out"]
  /\ warming = {} /\ opened = {} /\ closed = {}
  /\ refusals = 0 /\ drains = 0

\* What the factory may answer: a new connection.  New ones are alike, so it
\* does not matter which one it is.
Fresh == {c \in Conns \ opened : c = CHOOSE d \in Conns \ opened : TRUE}

-----------------------------------------------------------------------------
\* Mutant of Popped: the connection is read, not popped.
Popped_Peek(c) == idle

Popped(c) == idle \ {c}

\* acquire(): an idle connection is there.
AcquireIdle(p) ==
  /\ pc[p] = "out"
  /\ \E c \in idle :
       /\ idle' = Popped(c)
       /\ inUse' = inUse \cup {c}
       /\ holds' = [holds EXCEPT ![p] = c]
  /\ pc' = [pc EXCEPT ![p] = "using"]
  /\ UNCHANGED <<waiters, total, warming, opened, closed, refusals, drains>>

\* Mutant of SlotTaken: the slot is checked for but not counted.
SlotTaken_Late == total

SlotTaken == total + 1

\* acquire(): below max, a slot is taken before the factory is awaited.
AcquireCreate(p) ==
  /\ pc[p] = "out"
  /\ idle = {}
  /\ total < Max
  /\ total' = SlotTaken
  /\ pc' = [pc EXCEPT ![p] = "creating"]
  /\ UNCHANGED <<idle, inUse, waiters, holds, warming, opened, closed, refusals,
                 drains>>

\* acquire(): exhausted, queue up.
AcquireWait(p) ==
  /\ pc[p] = "out"
  /\ idle = {}
  /\ total >= Max
  /\ waiters' = Append(waiters, p)
  /\ pc' = [pc EXCEPT ![p] = "waiting"]
  /\ UNCHANGED <<idle, inUse, total, holds, warming, opened, closed, refusals,
                 drains>>

\* The factory answers an acquire.
Created(p) ==
  /\ pc[p] = "creating"
  /\ \E c \in Fresh :
       /\ opened' = opened \cup {c}
       /\ inUse' = inUse \cup {c}
       /\ holds' = [holds EXCEPT ![p] = c]
  /\ pc' = [pc EXCEPT ![p] = "using"]
  /\ UNCHANGED <<idle, waiters, total, warming, closed, refusals, drains>>

\* The factory rejects: acquire throws, the slot stays counted in total.
CreateFails(p) ==
  /\ pc[p] = "creating"
  /\ refusals < MaxRefusals
  /\ refusals' = refusals + 1
  /\ pc' = [pc EXCEPT ![p] = "out"]
  /\ UNCHANGED <<pool, holds, warming, opened, closed, drains>>

\* Mutant of SomeoneWaits: the wait queue is not looked at.
SomeoneWaits_Never == FALSE

SomeoneWaits == waiters # <<>>

\* release(client): straight to the first waiter, else back to idle.
Release(p) ==
  /\ pc[p] = "using"
  /\ LET c == holds[p] IN
     IF SomeoneWaits
     THEN LET w == Head(waiters) IN
          /\ waiters' = Tail(waiters)
          /\ holds' = [holds EXCEPT ![p] = None, ![w] = c]
          /\ pc' = [pc EXCEPT ![p] = "out", ![w] = "using"]
          /\ inUse' = (inUse \ {c}) \cup {c}
          /\ UNCHANGED idle
     ELSE /\ holds' = [holds EXCEPT ![p] = None]
          /\ pc' = [pc EXCEPT ![p] = "out"]
          /\ inUse' = inUse \ {c}
          /\ idle' = idle \cup {c}
          /\ UNCHANGED waiters
  /\ UNCHANGED <<total, warming, opened, closed, refusals, drains>>

\* warmUp(): while total < min, await the factory, then count and park.
WarmStart(w) ==
  /\ w \notin warming
  /\ total < Min
  /\ warming' = warming \cup {w}
  /\ UNCHANGED <<pool, holds, pc, opened, closed, refusals, drains>>

WarmCreated(w) ==
  /\ w \in warming
  /\ \E c \in Fresh :
       opened' = opened \cup {c} /\ idle' = idle \cup {c}
  /\ total' = total + 1
  /\ warming' = warming \ {w}
  /\ UNCHANGED <<inUse, waiters, holds, pc, closed, refusals, drains>>

\* The factory rejects: warmUp throws, nothing was counted.
WarmFails(w) ==
  /\ w \in warming
  /\ warming' = warming \ {w}
  /\ UNCHANGED <<pool, holds, pc, opened, closed, refusals, drains>>

\* drain(): quit everything, whether used or not; waiters are not answered.
Drain ==
  /\ drains < MaxDrains
  /\ drains' = drains + 1
  /\ closed' = closed \cup idle \cup inUse
  /\ idle' = {} /\ inUse' = {} /\ total' = 0
  /\ UNCHANGED <<waiters, holds, pc, warming, opened, refusals>>

Answer(p) == Created(p) \/ CreateFails(p)

PoolNext ==
  \/ \E p \in Callers : \/ AcquireIdle(p) \/ AcquireCreate(p) \/ AcquireWait(p)
                        \/ Answer(p) \/ Release(p)
  \/ \E w \in Warmers : WarmStart(w) \/ WarmCreated(w) \/ WarmFails(w)
  \/ Drain

PoolSpec == PoolInit /\ [][PoolNext]_poolVars

\* The factory answers every request, and a user gives its connection back:
\* withConnection releases in a `finally`.
Fairness == \A p \in Callers : WF_poolVars(Answer(p)) /\ WF_poolVars(Release(p))

PoolFairSpec == PoolSpec /\ Fairness

-----------------------------------------------------------------------------
\* The pool's bookkeeping keeps its types.
PoolTypeOK ==
  /\ idle \subseteq Conns /\ inUse \subseteq Conns
  /\ waiters \in Seq(Callers)
  /\ total \in Nat
  /\ holds \in [Callers -> Conns \cup {None}]
  /\ pc \in [Callers -> {"out", "creating", "waiting", "using"}]
  /\ warming \subseteq Warmers
  /\ opened \subseteq Conns /\ closed \subseteq opened
  /\ refusals \in 0 .. MaxRefusals /\ drains \in 0 .. MaxDrains

Held == {holds[p] : p \in {q \in Callers : pc[q] = "using"}}
Creating == {p \in Callers : pc[p] = "creating"}

\* Nobody shares a connection: no two callers have the same one, and none
\* that is in use is also idle, even when the pool is drained under them or
\* warmed up beside them.  A shared connection would mix up WATCH and MULTI.
Exclusive ==
  /\ \A p, q \in Callers :
       (pc[p] = "using" /\ pc[q] = "using" /\ p # q) => holds[p] # holds[q]
  /\ Held \cap idle = {}

\* Connections the pool has, or will have when the factory has answered.
Size == Cardinality(idle) + Cardinality(Held) + Cardinality(Creating)

\* "Callers never exceed the connection limit under load": until the pool is
\* drained it has no more than max connections, but for one that a warmUp
\* beside the callers may add (it awaits the factory before it counts).
WithinMax == drains = 0 => Size =< Max + Cardinality(Warmers)

\* "acquire() requests are queued and resolved as connections are released":
\* who waits gets a connection, also when the pool is drained or warmed up
\* meanwhile, as long as fewer connections were refused than the pool has slots.
WaitersServed ==
  \A p \in Callers : pc[p] = "waiting" ~> pc[p] = "using" \/ refusals >= Max
=============================================================================

----------------------------- MODULE TokenBucket -----------------------------
(***************************************************************************)
(* The rate limiter, TaskQueue.consumeRateLimitToken of                    *)
(* src/services/task-queue.ts: one bucket (a queue, or a worker of it)     *)
(* kept by a Lua script in two Redis keys.                                 *)
(*                                                                         *)
(* The script runs atomically, but `now` is an argument, the caller's      *)
(* Date.now().  A process sends its calls in the order of its clock; the   *)
(* calls of two processes may overtake each other.                         *)
(*                                                                         *)
(* Time is counted in ticks, Second of them to a second, and tokens in     *)
(* units, Second of them to a token: `delta / 1000 * rate` tokens are then *)
(* exactly delta * Limit units.  The rounding of Lua's floating-point      *)
(* numbers is left out.                                                    *)
(***************************************************************************)
EXTENDS Integers

CONSTANTS
  Processes,  \* callers with a clock and a connection of their own
  NoCall,     \* no call in flight
  Limit,      \* the configured rateLimit: tokens per second, and capacity
  Second,     \* ticks per second
  TTL,        \* ttlSeconds, in ticks
  MaxLag,     \* how old `now` may be when the script runs: the way to Redis, or
              \* a clock that is behind
  MaxTime     \* bound: the clock of a behaviour

ASSUME RateAssumption == Limit \in Nat \ {0} /\ Second \in Nat \ {0}
ASSUME TimeAssumption ==
  MaxLag \in Nat /\ MaxTime \in Nat /\ TTL \in Nat /\ TTL >= Second + MaxLag
ASSUME NoCallAssumption == NoCall \notin Int

Capacity == Limit * Second

VARIABLES
  clock,     \* the time
  tokens,    \* tokens_key, in units
  last,      \* timestamp_key
  touched,   \* when the script last set the expiry of the two keys
  sent,      \* the `now` of the call each process has in flight
  from,      \* history: the start of the window that is watched
  granted,   \* history: tokens granted in it
  spent,     \* history: the `now` of the latest grant
  denied     \* rateLimitViolations

bucketVars == <<clock, tokens, last, touched, sent, from, granted, spent, denied>>

\* Keys that are not there look like those of a bucket idle for its whole TTL.
BucketInit ==
  /\ clock = 0
  /\ tokens = 0 /\ last = 0 - Second /\ touched = 0 - TTL
  /\ sent = [p \in Processes |-> NoCall]
  /\ from = 0 /\ granted = 0 /\ spent = 0 - Second
  /\ denied = 0

\* Redis has dropped both keys.
Expired == clock - touched >= TTL

Smaller(a, b) == IF a =< b THEN a ELSE b
Larger(a, b) == IF a >= b THEN a ELSE b

\* Mutant of Capped: the refill is not capped.
Capped_Not(units) == units

Capped(units) == Smaller(Capacity, units)

\* The tokens the script finds at the caller's time `now`, refill included.
Filled(now) ==
  IF Expired THEN Capacity
  ELSE Capped(tokens + Limit * Larger(0, now - last))

\* A caller reads its clock and sends the script.
Send(p) ==
  /\ sent[p] = NoCall
  /\ sent' = [sent EXCEPT ![p] = clock]
  /\ UNCHANGED <<clock, tokens, last, touched, from, granted, spent, denied>>

\* Mutants of Granted and Refused, the timestamp after a call: it is not moved
\* by a grant; it is moved by a denial, and the refill dropped.
Granted_KeepStamp(now) == IF Expired THEN now ELSE last
Refused_MoveStamp(now) == now

Granted(now) == now

Refused(now) == last

\* The script finds a whole token and takes it.
Consume(p) ==
  /\ sent[p] # NoCall
  /\ Filled(sent[p]) >= Second
  /\ tokens' = Filled(sent[p]) - Second
  /\ last' = Granted(sent[p]) /\ spent' = sent[p]
  /\ touched' = clock
  /\ granted' = granted + 1
  /\ sent' = [sent EXCEPT ![p] = NoCall]
  /\ UNCHANGED <<clock, from, denied>>

\* It finds less: only the expiry of the keys is renewed, and the denial
\* counted.
Deny(p) ==
  /\ sent[p] # NoCall
  /\ Filled(sent[p]) < Second
  /\ last' = Refused(sent[p])
  /\ touched' = clock
  /\ denied' = denied + 1
  /\ sent' = [sent EXCEPT ![p] = NoCall]
  /\ UNCHANGED <<clock, tokens, from, granted, spent>>

\* Time passes; no call takes longer than MaxLag.
Tick ==
  /\ clock < MaxTime
  /\ \A p \in Processes : sent[p] # NoCall => clock - sent[p] < MaxLag
  /\ clock' = clock + 1
  /\ UNCHANGED <<tokens, last, touched, sent, from, granted, spent, denied>>

\* The observer starts a new window.
Watch ==
  /\ from' = clock /\ granted' = 0
  /\ UNCHANGED <<clock, tokens, last, touched, sent, spent, denied>>

BucketNext ==
  \/ \E p \in Processes : Send(p) \/ Consume(p) \/ Deny(p)
  \/ Tick \/ Watch

BucketSpec == BucketInit /\ [][BucketNext]_bucketVars

-----------------------------------------------------------------------------
\* The bucket never holds more than its capacity, nor a debt.
BucketTypeOK ==
  /\ clock \in 0 .. MaxTime
  /\ tokens \in 0 .. Capacity
  /\ last \in Int /\ touched \in Int /\ spent \in Int
  /\ sent \in [Processes -> Int \cup {NoCall}]
  /\ from \in 0 .. clock
  /\ granted \in Nat /\ denied \in Nat

\* "Max tasks per second": in no window of time are more tokens granted than
\* the capacity and what the window refills (a call in flight when the window
\* starts brings the refill of its own delay).  Expiry of the keys and denied
\* calls in between do not create tokens.
RateBound ==
  granted * Second =< Limit * (Second + MaxLag + clock - from)

\* A denial means the rate is used up: the latest grant is more recent than
\* one token's refill.  Frequent callers do not starve themselves ("On denial,
\* does NOT update the timestamp so the refill window is not artificially
\* advanced").
DeniedOnlyWhenSpent ==
  [][\A p \in Processes :
       (denied' > denied /\ sent[p] # sent'[p]) => Limit * (sent[p] - spent) < Second]_bucketVars
=============================================================================

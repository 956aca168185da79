-------------------------------- MODULE Lease --------------------------------
(***************************************************************************)
(* What the scheduler's lock promises, apart from Redis and polls: a lease *)
(* that one client holds for a limited time.                               *)
(*                                                                         *)
(* A client is covered from the grant until it gives the lease back, gives *)
(* up, or the lease runs out under it.  TaskScheduler implements this with *)
(* SET NX EX and two compare scripts, startScheduler of                    *)
(* src/services/task-scheduler.ts.                                         *)
(***************************************************************************)
EXTENDS Integers

CONSTANTS
  Clients,  \* who may ask for the lease
  None,     \* no holder
  TTL       \* how long it lasts

VARIABLES
  holder,  \* who has the lease, or None
  left,    \* how long it still lasts
  covered  \* the clients that may rely on it

vars == <<holder, left, covered>>

Init == holder = None /\ left = 0 /\ covered = {}

\* A free lease is granted for its whole life.
Grant(c) ==
  /\ holder = None
  /\ holder' = c /\ left' = TTL /\ covered' = covered \cup {c}

\* The holder, as long as it is covered, starts its life again.
Renew == /\ holder \in covered
         /\ left' = TTL
         /\ UNCHANGED <<holder, covered>>

Return == /\ holder \in covered
          /\ holder' = None /\ left' = 0 /\ covered' = covered \ {holder}

\* Clients die; a lease they had runs on.
GiveUp == /\ \E S \in SUBSET covered : covered' = covered \ S
          /\ UNCHANGED <<holder, left>>

Elapse ==
  /\ holder # None
  /\ left' = left - 1
  /\ IF left = 1 THEN holder' = None /\ covered' = covered \ {holder}
                 ELSE UNCHANGED <<holder, covered>>

Next == (\E c \in Clients : Grant(c)) \/ Renew \/ Return \/ GiveUp \/ Elapse

Spec == Init /\ [][Next]_vars

---------------------------------------------------------------------------
TypeOK == holder \in Clients \cup {None} /\ left \in Int /\ covered \subseteq Clients

\* Nobody but the holder is covered, so never two clients: what the services
\* that start a scheduler each rely on ("only one scheduler acts at a time").
OnlyHolderCovered == covered \subseteq {holder}
=============================================================================

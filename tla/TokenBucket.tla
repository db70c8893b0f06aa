----------------------------- MODULE TokenBucket ----------------------------
(***************************************************************************)
(* TokenBucket of s1engine/rate_limiter.py: the requests of one service    *)
(* user.  A thread that wants to send a request refills the bucket from    *)
(* the time since the last refill, under the lock, and takes a token; when *)
(* there is none it sleeps, outside the lock, for as long as the missing   *)
(* part takes to drip in, and tries again, with no turn kept for it.       *)
(* Time is counted in ticks, tokens in units of 1/Cost of a token.         *)
(***************************************************************************)
EXTENDS Integers

CONSTANTS
  Capacity,   \* TokenBucket(burst=...), in units
  Refill,     \* TokenBucket(rps=...), in units per tick
  Cost,       \* the units in one token
  Window      \* bound: ticks in the window that is watched

ASSUME BucketAssumption ==
  /\ {Capacity, Refill, Cost} \subseteq Nat \ {0}
  /\ Window \in Nat
  /\ Cost <= Capacity

VARIABLES
  tokens,     \* _tokens
  since,      \* ticks since _last
  ticks,      \* history: ticks in the window that is watched
  passed      \* history: requests that passed in it

bucketVars == <<tokens, since, ticks, passed>>

Least(a, b) == IF a < b THEN a ELSE b

BucketTypeOK ==
  /\ tokens \in 0..Capacity
  /\ since \in Nat
  /\ ticks \in Nat
  /\ passed \in Nat

BucketInit == tokens = Capacity /\ since = 0 /\ ticks = 0 /\ passed = 0

\* The refill at the head of every acquire().
Refilled == Least(Capacity, tokens + since * Refill)

\* Mutant: the token is taken without looking whether there is one.
AdmitUnchecked ==
  /\ tokens' = Refilled - Cost
  /\ since' = 0
  /\ passed' = passed + 1
  /\ UNCHANGED ticks

Admit ==
  /\ Refilled >= Cost
  /\ tokens' = Refilled - Cost
  /\ since' = 0
  /\ passed' = passed + 1
  /\ UNCHANGED ticks

\* Mutant: _last is moved only when a token is taken.
RefuseForgets ==
  /\ Refilled < Cost
  /\ tokens' = Refilled
  /\ UNCHANGED <<since, ticks, passed>>

\* Not enough: the refill is kept, and so is its time.
Refuse ==
  /\ Refilled < Cost
  /\ tokens' = Refilled
  /\ since' = 0
  /\ UNCHANGED <<ticks, passed>>

\* How long to sleep: the missing units at Refill per tick, in whole ticks.
Needed == (Cost - Refilled + Refill - 1) \div Refill

\* A tick of the clock.  The time since a refill that has filled the bucket
\* makes no difference any more and is not counted on.
Drip ==
  /\ since' = IF tokens + since * Refill >= Capacity THEN since ELSE since + 1
  /\ \/ ticks < Window /\ ticks' = ticks + 1 /\ UNCHANGED passed
     \/ ticks' = 0 /\ passed' = 0
  /\ UNCHANGED tokens

\* In no stretch of time do more requests leave under one user's token than a
\* full bucket and the refill of that time allow, with any number of threads.
RateBound == passed * Cost <= Capacity + ticks * Refill

Ideal == INSTANCE IdealBucket WITH level <- Refilled
BucketContract == Ideal!Spec
=============================================================================

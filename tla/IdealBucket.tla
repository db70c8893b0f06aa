----------------------------- MODULE IdealBucket ----------------------------
(***************************************************************************)
(* What a token bucket promises, without locks, clocks and sleepers: at    *)
(* every tick it gains Refill units up to its capacity, and each request   *)
(* it lets pass costs Cost units.  A window is any stretch of time: it     *)
(* counts the ticks in it and the requests that passed in it.              *)
(***************************************************************************)
EXTENDS Integers

CONSTANTS Capacity, Refill, Cost

VARIABLES level, ticks, passed

Least(a, b) == IF a < b THEN a ELSE b

Init == level = Capacity /\ ticks = 0 /\ passed = 0

Pass ==
  /\ level >= Cost
  /\ level' = level - Cost
  /\ passed' = passed + 1
  /\ UNCHANGED ticks

\* A tick goes on with the window, or begins another.
Tick ==
  /\ level' = Least(Capacity, level + Refill)
  /\ \/ ticks' = ticks + 1 /\ UNCHANGED passed
     \/ ticks' = 0 /\ passed' = 0

Next == Pass \/ Tick

Spec == Init /\ [][Next]_<<level, ticks, passed>>
=============================================================================

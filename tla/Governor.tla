------------------------------ MODULE Governor ------------------------------
(***************************************************************************)
(* AIMDController of s1engine/rate_limiter.py: the limit on the slots that *)
(* are in use at once, halved by a throttle, grown by a streak of          *)
(* successes.  Every operation runs under the controller's condition, so   *)
(* each is one step; the wait for a slot is the guard HasRoom.             *)
(* The limit is a float that only halves and grows by one: it is kept in   *)
(* units of 1/Unit, in which every value it takes is an integer.           *)
(***************************************************************************)
EXTENDS Integers

CONSTANTS
  Unit,           \* units in one slot: 2 to the number of throttles there can be
  MinLimit,       \* AIMDController(minimum=...)
  MaxLimit,       \* AIMDController(maximum=...)
  InitialLimit,   \* AIMDController(initial=...)
  IncreaseAfter   \* AIMDController(increase_after=...)

ASSUME GovernorAssumption ==
  /\ {Unit, MinLimit, MaxLimit, InitialLimit, IncreaseAfter} \subseteq Nat \ {0}
  /\ MinLimit <= MaxLimit

VARIABLES
  limit,    \* _limit
  streak,   \* _success_streak
  active    \* _active

governorVars == <<limit, streak, active>>

Larger(a, b) == IF a > b THEN a ELSE b
Smaller(a, b) == IF a < b THEN a ELSE b

GovernorTypeOK ==
  /\ limit \in (MinLimit * Unit)..(MaxLimit * Unit)
  /\ streak \in Nat
  /\ active \in Int

GovernorInit ==
  /\ limit = Unit * Larger(MinLimit, Smaller(InitialLimit, MaxLimit))
  /\ streak = 0
  /\ active = 0

\* Mutant: off by one.
HasRoomBelow == active + 1 < limit \div Unit

\* slot(): the condition that ends the wait, with int() of the limit.
HasRoom == active < limit \div Unit

Enter ==
  /\ HasRoom
  /\ active' = active + 1
  /\ UNCHANGED <<limit, streak>>

\* The finally of slot().
Leave ==
  /\ active' = active - 1
  /\ UNCHANGED <<limit, streak>>

\* At the maximum the streak goes on growing.
OnSuccess ==
  LET earned == streak + 1 >= IncreaseAfter /\ limit < MaxLimit * Unit IN
  /\ limit' = IF earned THEN Smaller(MaxLimit * Unit, limit + Unit) ELSE limit
  /\ streak' = IF earned THEN 0 ELSE streak + 1
  /\ UNCHANGED active

\* Mutants: the limit is halved without a floor; the streak survives a throttle.
OnThrottleUnfloored ==
  /\ limit' = limit \div 2
  /\ streak' = 0
  /\ UNCHANGED active
OnThrottleKeepsStreak ==
  /\ limit' = Larger(MinLimit * Unit, limit \div 2)
  /\ UNCHANGED <<streak, active>>

\* The slots in use stay in use, even when they are now more than the limit.
OnThrottle ==
  /\ limit' = Larger(MinLimit * Unit, limit \div 2)
  /\ streak' = 0
  /\ UNCHANGED active
=============================================================================

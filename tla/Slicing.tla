------------------------------ MODULE Slicing -------------------------------
(***************************************************************************)
(* s1engine/slicing.py: how a window of time is cut into slices, and a     *)
(* slice that is too slow into smaller ones.  Time is counted in ticks;    *)
(* what is written to the ledger and sent to the backend is in whole       *)
(* seconds, so both ends of a slice are rounded down on the way.           *)
(***************************************************************************)
EXTENDS Integers

CONSTANTS
  Second,   \* ticks in a second
  Day,      \* ticks in a day
  Floor     \* subdivide(min_seconds=...), in ticks

Factor == 4 \* subdivide(factor=...)

ASSUME TimeAssumption ==
  /\ {Second, Day, Floor} \subseteq Nat \ {0}
  /\ (Day % Second) = 0
  /\ Floor >= Factor * Second

Slice == [start : Nat, end : Nat]

Later(a, b) == IF a > b THEN a ELSE b
Earlier(a, b) == IF a < b THEN a ELSE b

\* _floor_day
FloorDay(t) == t - (t % Day)

\* The boundaries at which slices begin, from the midnight at or before start.
Cursors(start, end, step) ==
  {FloorDay(start) + k * step : k \in 0..((end - 1 - FloorDay(start)) \div step)}

\* day_slices: [start, end) in slices of so many days, clipped at both ends.
DaySlices(start, end, days) ==
  IF end <= start THEN {} ELSE
  {[start |-> Later(c, start), end |-> Earlier(c + days * Day, end)] :
     c \in Cursors(start, end, days * Day)}

\* Mutant: all parts have the same length, and what is left over is lost.
SubdivideEvenly(sl) ==
  LET step == (sl.end - sl.start) \div Factor IN
  IF sl.end - sl.start <= Floor THEN {sl} ELSE
  {[start |-> sl.start + step * i, end |-> sl.start + step * (i + 1)] : i \in 0..(Factor - 1)}

\* subdivide: equal parts, the last of which ends where the slice does; a slice
\* at the floor is not cut.
Subdivide(sl) ==
  LET step == (sl.end - sl.start) \div Factor IN
  IF sl.end - sl.start <= Floor THEN {sl} ELSE
  {[start |-> sl.start + step * i,
    end |-> IF i = Factor - 1 THEN sl.end ELSE sl.start + step * (i + 1)] :
     i \in 0..(Factor - 1)}

\* iso_z drops the fraction of a second.
IsoZ(t) == t - (t % Second)

\* start_iso and end_iso, which also make the key of the slice: a job of the run
\* is identified by them.
Wire(sl) == [start |-> IsoZ(sl.start), end |-> IsoZ(sl.end)]
=============================================================================

------------------------------ MODULE MCEngine ------------------------------
(* Small instances of Engine for TLC.                                      *)
EXTENDS Engine, TLC

CONSTANTS q1, day, am, pm, today

\* One day that splits into two sub-slices at the floor, and a floor slice.
MCWindows == {day, am, pm, today}
MCSplit == [w \in MCWindows |-> IF w = day THEN {am, pm} ELSE {}]
MCSpan  == [w \in MCWindows |-> CASE w = day -> {1, 2} [] w = am -> {1}
                                  [] w = pm -> {2} [] w = today -> {3}]
MCPlans == [r \in 1..MaxRuns |-> {day, today}]
MCPast  == {am}

\* A lookback window moves with the clock: the second process clips the first
\* and the last day elsewhere than the first process did.
CONSTANTS first1, first2, last1, last2
DriftWindows == {first1, first2, last1, last2}
DriftSplit == [w \in DriftWindows |-> {}]
DriftSpan  == [w \in DriftWindows |-> CASE w = first1 -> {1, 2} [] w = first2 -> {2}
                                        [] w = last1 -> {3} [] w = last2 -> {3, 4}]
DriftPlans == [r \in 1..MaxRuns |-> IF r = 1 THEN {first1, last1} ELSE {first2, last2}]

MCSymmetry == Permutations(Workers)
=============================================================================

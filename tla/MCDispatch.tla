----------------------------- MODULE MCDispatch -----------------------------
(* A small instance of Dispatch for TLC.                                   *)
EXTENDS Dispatch

CONSTANTS a, b, c, key, host, name, day

\* Two queries with the same text over one past day, and one over today that
\* is anchored to the same source by the other field.
MCKeyOf == [j \in {a, b} |-> key]
MCFieldOf == [j \in {a, b, c} |-> IF j = c THEN name ELSE host]
MCSourceOf == [j \in {a, b, c} |-> day]
=============================================================================

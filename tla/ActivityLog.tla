---------------------------- MODULE ActivityLog -----------------------------
(***************************************************************************)
(* s1engine/activity.py: every start of a run opens a log of its own, with *)
(* numbers from 1 and a ring of the last records in memory, on the file of *)
(* the run, which it appends to.  A record is its number and its log.      *)
(* Ring, file and answer are sets: in each of them the records of one log  *)
(* come in the order of their numbers, which is all the order that is kept. *)
(***************************************************************************)
EXTENDS Integers, Sequences, FiniteSets, FiniteSetsExt

CONSTANTS
  Logs,       \* the logs opened, one per start of a run
  Runs,       \* run ids
  RingSize,   \* ActivityLog(ring_size=...)
  Limit       \* tail(limit=...)

ASSUME LogAssumption == RingSize \in Nat \ {0} /\ Limit \in Nat

VARIABLES
  seq,        \* per log: _seq
  ring,       \* per log: _ring
  file        \* per run: the records in activity.jsonl

logVars == <<seq, ring, file>>

Record == [seq : Nat, log : Logs]

LogTypeOK ==
  /\ seq \in [Logs -> Nat]
  /\ ring \in [Logs -> SUBSET Record]
  /\ file \in [Runs -> SUBSET Record]

LogInit ==
  /\ seq = [i \in Logs |-> 0]
  /\ ring = [i \in Logs |-> {}]
  /\ file = [r \in Runs |-> {}]

\* log: number, file and ring under one lock.  The last RingSize records are
\* those whose numbers are among the last RingSize ones.
Log(i, r) ==
  LET rec == [seq |-> seq[i] + 1, log |-> i] IN
  /\ seq' = [seq EXCEPT ![i] = @ + 1]
  /\ ring' = [ring EXCEPT ![i] = {x \in @ \cup {rec} : x.seq > rec.seq - RingSize}]
  /\ file' = [file EXCEPT ![r] = @ \cup {rec}]

Newer(records, n) == {x \in records : x.seq > n}

\* Mutant: the last records instead of the first.
TailLast(i, n) ==
  {x \in Newer(ring[i], n) : Cardinality(Newer(ring[i], x.seq)) < Limit}

\* tail: of the records in the ring after number n, the first Limit ones.
TailAfter(i, n) ==
  {x \in Newer(ring[i], n) :
     Cardinality({y \in Newer(ring[i], n) : y.seq < x.seq}) < Limit}

\* Mutant: the whole file, whatever the page has.
FileWhole(r, n) == file[r]

\* read_file and the server's filter: the records of the file after number n,
\* whichever start of the run they come from.
FileAfter(r, n) == Newer(file[r], n)
=============================================================================

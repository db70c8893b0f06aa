--------------------------- MODULE SourcePrecheck ---------------------------
(***************************************************************************)
(* The shared table of source-existence answers of s1engine/engine.py: the *)
(* critical sections of _field_has_data.  The first job that asks whether  *)
(* a source has data under a field owns the probe, the others wait for its *)
(* event and may give up.  The table lives as long as one run().           *)
(***************************************************************************)
CONSTANTS
  Fields,     \* "serverHost" and "dataSource.name"
  Sources     \* source value, day and scope of a query anchored to one source

ASSUME FieldAssumption == \E f, g \in Fields : f # g /\ Fields = {f, g}

Probes == Fields \X Sources
Other(f) == CHOOSE g \in Fields : g # f

VARIABLES
  answer,     \* _src_exist: the probes answered, with what they found
  inflight    \* _src_inflight: the probes with an owner; never removed

precheckVars == <<answer, inflight>>

Answers == {"unknown", "data", "empty"}

PrecheckTypeOK ==
  /\ answer \in [Probes -> Answers]
  /\ inflight \subseteq Probes

PrecheckInit ==
  /\ answer = [p \in Probes |-> "unknown"]
  /\ inflight = {}

\* The answer is there already.
Known(p) == answer[p] # "unknown"

\* Mutant: the table of events is not consulted, every asker owns a probe.
MayOwnAlways(p) == ~Known(p)

\* Under _src_lock: nobody asked before.
MayOwn(p) == ~Known(p) /\ p \notin inflight

Own(p) ==
  /\ MayOwn(p)
  /\ inflight' = inflight \cup {p}
  /\ UNCHANGED answer

\* Mutant: a waiter that gives up takes the source for empty.
HeardClosed(p) == IF Known(p) THEN answer[p] ELSE "empty"

\* What a waiter goes by, after the event or after its 120 s: it fails open.
Heard(p) == IF Known(p) THEN answer[p] ELSE "data"

\* Under _src_lock: the owner stores what it found and sets the event.
Tell(p, found) ==
  /\ answer' = [answer EXCEPT ![p] = found]
  /\ UNCHANGED inflight
=============================================================================

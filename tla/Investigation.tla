--------------------------- MODULE Investigation ----------------------------
(***************************************************************************)
(* An investigation as its data sees it: plan() of s1engine/engine.py cuts *)
(* the window of every runnable query into jobs, the jobs are answered by  *)
(* the backend, split or given up, and when the run ends or is cancelled   *)
(* finalize() merges what is done and verify_run judges it.  The run may   *)
(* be resumed with the same parameters.  How the workers share the jobs is *)
(* in Engine; here a job ends in one step.                                 *)
(***************************************************************************)
EXTENDS Slicing, ScopeGate, Merging

CONSTANTS
  Requests,    \* the investigations that are asked for
  MaxSplits,   \* bound: slices subdivided
  MaxLost,     \* bound: jobs failed or permanent at a time
  MaxResumes   \* bound: resumes

\* A request: the queries by name, the variables, the window, its slice_days and
\* whether it is given by dates, the kind of merge; and the events the backend
\* has for the queries.
ASSUME RequestAssumption ==
  \A r \in Requests :
    /\ \A q \in DOMAIN r.catalog : r.catalog[q] \in Query
    /\ r.vars \in Variables
    /\ r.dates \in BOOLEAN /\ (r.dates => FloorDay(r.start) = r.start /\ FloorDay(r.end) = r.end)
    /\ r.start \in Nat /\ r.end \in Nat /\ r.days \in Nat \ {0}
    /\ r.kind \in {"aggregate", "rows"}
    /\ IsFiniteSet(r.events)
    /\ \A e \in r.events : e.at \in Nat /\ e.value \in Int \cup {Missing}

ASSUME BoundAssumption == MaxSplits \in Nat /\ MaxLost \in Nat /\ MaxResumes \in Nat

VARIABLES
  request,   \* what is investigated; it does not change
  jobs,      \* the ledger: a partial function from query and slice to a state
  files,     \* per job that is done: the answer in its result file
  phase,     \* where the run is
  tables,    \* the results of finalize: per query the merged table
  passed,    \* the verdict of verify_run
  resumes    \* bound: resumes so far

vars == <<request, jobs, files, phase, tables, passed, resumes>>

States == {"pending", "done", "failed", "permanent", "subdivided"}
Catalog == request.catalog

TypeOK ==
  /\ request \in Requests
  /\ DOMAIN jobs \subseteq (DOMAIN Catalog) \X Slice
  /\ \A j \in DOMAIN jobs : jobs[j] \in States
  /\ DOMAIN files = {j \in DOMAIN jobs : jobs[j] = "done"}
  /\ phase \in {"new", "run", "over"}
  /\ DOMAIN tables \subseteq DOMAIN Catalog
  /\ passed \in BOOLEAN
  /\ resumes \in 0..MaxResumes

Init ==
  /\ request \in Requests
  /\ jobs = << >> /\ files = << >> /\ tables = << >>
  /\ phase = "new" /\ passed = FALSE /\ resumes = 0

JobsOf(q) == {j \in DOMAIN jobs : j[1] = q}
InState(js, s) == {j \in js : jobs[j] = s}

-----------------------------------------------------------------------------
(* The backend, for a query over a slice.                                  *)

EventsIn(start, end) == {e \in request.events : start <= e.at /\ e.at < end}

Extreme(S, values) == IF values = {} THEN Missing ELSE
  CHOOSE v \in values : \A w \in values : IF S = "min" THEN v <= w ELSE v >= w

Aggregate(events) ==
  [key \in {e.key : e \in events} |->
     LET group == {e \in events : e.key = key}
         values == {e.value : e \in group} \ {Missing} IN
     [sum |-> Cardinality(group), distinct |-> Cardinality(values),
      min |-> Extreme("min", values), max |-> Extreme("max", values)]]

Answer(sl) == LET events == EventsIn(sl.start, sl.end) IN
  IF request.kind = "aggregate" THEN Aggregate(events) ELSE events

-----------------------------------------------------------------------------
(* The run.                                                                *)

\* Mutant: a row that exists is replaced.
UpsertOverwrites(old, new) == [j \in DOMAIN old \cup new |-> IF j \in new THEN "pending" ELSE old[j]]

\* upsert_job: a new row is pending, a row that exists is left alone.
Upsert(old, new) == [j \in DOMAIN old \cup new |-> IF j \in DOMAIN old THEN old[j] ELSE "pending"]

Planned == {Wire(sl) : sl \in DaySlices(request.start, request.end, request.days)}
Texts == {q \in DOMAIN Catalog : Runnable(Catalog[q], request.vars)}

\* plan, and the claim at the start of run: what had failed is pending again.
Plan ==
  /\ phase = "new"
  /\ jobs' = LET old == [j \in DOMAIN jobs |-> IF jobs[j] = "failed" THEN "pending" ELSE jobs[j]]
             IN Upsert(old, Texts \X Planned)
  /\ phase' = "run"
  /\ UNCHANGED <<request, files, tables, passed, resumes>>

\* A job is answered, and its result file is written.
Fetch(j) ==
  /\ phase = "run" /\ jobs[j] = "pending"
  /\ jobs' = [jobs EXCEPT ![j] = "done"]
  /\ files' = [i \in DOMAIN files \cup {j} |-> IF i = j THEN Answer(j[2]) ELSE files[i]]
  /\ UNCHANGED <<request, phase, tables, passed, resumes>>

Lost == InState(DOMAIN jobs, "failed") \cup InState(DOMAIN jobs, "permanent")

\* It is too slow: its parts take its place, or at the floor it has failed.
TooSlow(j) ==
  LET parts == Subdivide(j[2]) IN
  /\ phase = "run" /\ jobs[j] = "pending"
  /\ \/ /\ parts # {j[2]} /\ Cardinality(InState(DOMAIN jobs, "subdivided")) < MaxSplits
        /\ jobs' = Upsert([jobs EXCEPT ![j] = "subdivided"], {<<j[1], Wire(sl)>> : sl \in parts})
     \/ /\ parts = {j[2]} /\ Cardinality(Lost) < MaxLost
        /\ jobs' = [jobs EXCEPT ![j] = "failed"]
  /\ UNCHANGED <<request, files, phase, tables, passed, resumes>>

\* It fails for good in this run, or is rejected.
GiveUp(j) ==
  /\ phase = "run" /\ jobs[j] = "pending" /\ Cardinality(Lost) < MaxLost
  /\ \E s \in {"failed", "permanent"} : jobs' = [jobs EXCEPT ![j] = s]
  /\ UNCHANGED <<request, files, phase, tables, passed, resumes>>

Table(q) ==
  LET done == InState(JobsOf(q), "done") IN
  IF request.kind = "aggregate"
  THEN [kind |-> "aggregate", table |-> MergeAggregate(files, done),
        warned |-> Approximate(files, done)]
  ELSE [kind |-> "rows", table |-> ConcatRows(files, done), warned |-> FALSE]

\* Mutant: an outstanding slice does not keep a query from passing.
StatusIfNotFailed(q) ==
  IF JobsOf(q) = {} THEN "skipped"
  ELSE IF InState(JobsOf(q), "failed") \cup InState(JobsOf(q), "permanent") # {} THEN "failed"
  ELSE "pass"

\* verify_run, per query
Status(q) ==
  LET js == JobsOf(q)
      bad == InState(js, "failed") \cup InState(js, "permanent") IN
  CASE js = {} -> "skipped"
    [] js # {} /\ bad # {} -> "failed"
    [] js # {} /\ bad = {} /\ InState(js, "pending") # {} -> "incomplete"
    [] OTHER -> "pass"

\* The run has nothing left to do, or was cancelled: finalize and verify_run.
Finish ==
  /\ phase = "run"
  /\ phase' = "over"
  /\ tables' = [q \in {p \in DOMAIN Catalog : JobsOf(p) # {}} |-> Table(q)]
  /\ passed' = LET ran == {q \in DOMAIN Catalog : Status(q) # "skipped"}
               IN ran # {} /\ \A q \in ran : Status(q) = "pass"
  /\ UNCHANGED <<request, jobs, files, resumes>>

\* The run is resumed under its id.  Only a window given by dates is the same
\* again: that of a lookback has moved on, which Engine checks.
Resume ==
  /\ phase = "over" /\ request.dates /\ resumes < MaxResumes
  /\ phase' = "new" /\ resumes' = resumes + 1
  /\ tables' = << >> /\ passed' = FALSE
  /\ UNCHANGED <<request, jobs, files>>

Next == \/ Plan \/ Finish \/ Resume
        \/ \E j \in DOMAIN jobs : Fetch(j) \/ TooSlow(j) \/ GiveUp(j)

Spec == Init /\ [][Next]_vars

-----------------------------------------------------------------------------
(* Properties                                                              *)

From == IsoZ(request.start)
Until == IsoZ(request.end)
Leaves(q) == {j[2] : j \in {i \in JobsOf(q) : jobs[i] # "subdivided"}}

\* Whatever is clipped, rounded, split or planned again, every second of the
\* window is in exactly one slice of a query that is not subdivided, and no
\* slice reaches beyond the window.
SlicesTile ==
  \A q \in DOMAIN Catalog : JobsOf(q) # {} =>
    /\ \A t \in From..(Until - 1) :
         Cardinality({sl \in Leaves(q) : sl.start <= t /\ t < sl.end}) = 1
    /\ \A sl \in Leaves(q) : From <= sl.start /\ sl.start <= sl.end /\ sl.end <= Until

\* A run that passes has counted every event of the window once, in the table
\* of every query that ran, whichever slices it took and in however many runs.
CountsAreExact ==
  passed => \A q \in DOMAIN tables :
    LET events == EventsIn(From, Until)
        table == tables[q].table IN
    IF tables[q].kind = "rows"
    THEN DOMAIN table = events /\ \A e \in events : table[e] = 1
    ELSE /\ DOMAIN table = {e.key : e \in events}
         /\ \A key \in DOMAIN table : table[key].sum = Aggregate(events)[key].sum

\* A merged count of distinct values is never below the true one, and where it
\* is above, the table says that it is approximate.
DistinctIsBound ==
  passed => \A q \in DOMAIN tables : tables[q].kind = "aggregate" =>
    \A key \in DOMAIN tables[q].table :
      LET true == Aggregate(EventsIn(From, Until))[key].distinct
          merged == tables[q].table[key].distinct IN
      merged >= true /\ (merged > true => tables[q].warned)

\* The merged extremes of a group are the true ones, provided that no slice
\* with the group lacks the value.
ExtremesAreExact ==
  passed => \A q \in DOMAIN tables : tables[q].kind = "aggregate" =>
    \A key \in DOMAIN tables[q].table :
      LET true == Aggregate(EventsIn(From, Until))[key]
          merged == tables[q].table[key] IN
      (\A e \in EventsIn(From, Until) : e.key = key => e.value # Missing) =>
        merged.min = true.min /\ merged.max = true.max

\* A query about a subject or a pivot value never runs over the whole tenant:
\* the text of its jobs has a value that was given for the subject or the pivot.
NeverTenantWide ==
  \A q \in DOMAIN Catalog :
    JobsOf(q) # {} /\ EffectiveScope(Catalog[q]) \in {"subject", "pivot"} =>
      Render(Catalog[q], request.vars) \cap ScopeVars(EffectiveScope(Catalog[q])) # {}

\* What the preview counts is never less than what is planned.
PreviewIsBound ==
  \A q \in DOMAIN Catalog : JobsOf(q) # {} => Previewed(Catalog[q], request.vars)

\* Planning a resumed run adds no job and takes none away, and leaves what is
\* done, rejected or split as it is.
ReplanAddsNothing ==
  [][phase = "new" /\ resumes > 0 =>
       /\ DOMAIN jobs' = DOMAIN jobs
       /\ \A j \in DOMAIN jobs : jobs[j] # "failed" => jobs'[j] = jobs[j]]_vars
=============================================================================

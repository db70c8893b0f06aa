--------------------------- MODULE EngineCoverage ---------------------------
(***************************************************************************)
(* No gap and no overlap: proofs about Engine, for every catalog, window   *)
(* tree, pool size, budget and number of restarts.                         *)
(*                                                                         *)
(* That a planned window is covered is not inductive, because a window may *)
(* be replaced by its sub-slices, and these by theirs.  CoverInv says of   *)
(* every row, planned or not, that what it spans is covered by rows that   *)
(* are live.  OverlapInv is its counterpart: two live rows that overlap    *)
(* are a job that some worker is just splitting and one of its sub-slices. *)
(***************************************************************************)
EXTENDS EngineOwnership

Gone == {"absent", "subdivided"}
Row(q, w) == state[<<q, w>>]

\* A row that is neither missing nor replaced covers x.
LiveAt(q, x) == \E v \in Windows : Row(q, v) \notin Gone /\ x \in Span[v]

CoverInv ==
  \A q \in Queries :
    /\ \A w \in Planned : Row(q, w) # "absent"
    /\ \A w \in Windows : Row(q, w) # "absent" => \A x \in Span[w] : LiveAt(q, x)

\* The worker is splitting the query's window v, of which w is a sub-slice.
SplitNow(q, v, w) == \E u \in Workers : Splitting(u) /\ job[u] = <<q, v>> /\ w \in Split[v]

OverlapInv ==
  \A q \in Queries : \A v, w \in Windows :
    v # w /\ Row(q, v) \notin Gone /\ Row(q, w) \notin Gone =>
      Span[v] \cap Span[w] = {} \/ SplitNow(q, v, w) \/ SplitNow(q, w, v)

\* Every row lies in a planned window.
RootInv ==
  \A q \in Queries : \A w \in Windows :
    Row(q, w) # "absent" => \E r \in Planned : Span[w] \subseteq Span[r]

\* Only a window that has sub-slices is split.
WholeInv == \A w \in Workers : Splitting(w) => Children(job[w]) # {}

\* The windows that are planned, by whatever process, do not overlap.
PlansDisjoint ==
  \A r, s \in 1..MaxRuns : \A v \in Plans[r], w \in Plans[s] :
    v # w => Span[v] \cap Span[w] = {}

-----------------------------------------------------------------------------
(* What a step does to the rows.                                           *)

LEMMA JobParts ==
  /\ \A q \in Queries, w \in Windows : <<q, w>> \in Jobs
  /\ \A j \in Jobs : \E q \in Queries, w \in Windows : j = <<q, w>>
  /\ \A q \in Queries, w \in Windows : \A c \in Children(<<q, w>>) :
       \E v \in Split[w] : c = <<q, v>>
  /\ \A q \in Queries, w \in Windows : \A v \in Split[w] :
       v \in Windows /\ <<q, v>> \in Children(<<q, w>>)
BY SplitAssumption DEF Jobs, Children, QueryOf, WindowOf

\* A worker leaves the rows alone, settles the row of its own live job, or it
\* inserts the row of a sub-slice, or replaces its job by its sub-slices.
LEMMA WorkerRows ==
  ASSUME OwnershipInv, NEW w \in Workers, Worker(w)
  PROVE  \/ state' = state
         \/ /\ job[w] \in Jobs /\ state[job[w]] \notin Gone
            /\ \E s \in States \ Gone : state' = [state EXCEPT ![job[w]] = s]
         \/ UpsertChild(w)
         \/ MarkSubdivided(w)
<1> DEFINE Goal == \/ state' = state
                   \/ /\ job[w] \in Jobs /\ state[job[w]] \notin Gone
                      /\ \E s \in States \ Gone : state' = [state EXCEPT ![job[w]] = s]
<1>1. pc[w] \in HoldsPending \cup HoldsInFlight => job[w] \in Jobs /\ state[job[w]] \notin Gone
  BY DEF OwnershipInv, TypeInv, TypeOK, WorkerTypeOK, HandInv, RowInv, HoldSteps, Gone
<1>2. ASSUME pc[w] \in HoldsPending \cup HoldsInFlight, NEW s \in States \ Gone, Mark(job[w], s)
      PROVE  Goal
  BY <1>1, <1>2 DEF Mark
<1>3. CASE Abort(w) \/ Reject(w)
  <2>1. pc[w] \in HoldsPending \cup HoldsInFlight /\ Mark(job[w], "permanent")
    BY <1>3 DEF Abort, Reject, HoldsPending, HoldsInFlight
  <2> QED
    BY <1>2, <2>1 DEF States, Gone
<1>4. CASE CacheHit(w) \/ SkipEmpty(w) \/ Launch(w)
  <2>1. pc[w] \in HoldsPending \cup HoldsInFlight /\ Mark(job[w], "in_flight")
    BY <1>4 DEF CacheHit, SkipEmpty, Launch, MarkInFlight, Goto, HoldsPending
  <2> QED
    BY <1>2, <2>1 DEF States, Gone
<1>5. CASE MarkDone(w)
  <2>1. pc[w] \in HoldsPending \cup HoldsInFlight /\ Mark(job[w], "done")
    BY <1>5 DEF MarkDone, Goto, HoldsInFlight
  <2> QED
    BY <1>2, <2>1 DEF States, Gone
<1>6. CASE Throttle(w) \/ Retry(w)
  <2>1. pc[w] \in HoldsPending \cup HoldsInFlight /\ Mark(job[w], "pending")
    BY <1>6 DEF Throttle, Retry, Goto, HoldsInFlight
  <2> QED
    BY <1>2, <2>1 DEF States, Gone
<1>7. CASE GiveUp(w)
  <2>1. pc[w] \in HoldsPending \cup HoldsInFlight /\ Mark(job[w], "failed")
    BY <1>7 DEF GiveUp, HoldsInFlight
  <2> QED
    BY <1>2, <2>1 DEF States, Gone
<1>8. CASE Take(w) \/ Drop(w) \/ Exit(w) \/ Finish(w)
  BY <1>8 DEF Take, Drop, Exit, Finish, ledgerVars
<1>9. CASE Proceed(w) \/ Succeed(w) \/ Persist(w) \/ CachePut(w) \/ Fault(w)
  BY <1>9 DEF Proceed, Succeed, Persist, CachePut, Fault, ledgerVars
<1>10. CASE Requeue(w) \/ Exhaust(w) \/ EnqueueChild(w) \/ Trip(w)
  BY <1>10 DEF Requeue, Exhaust, EnqueueChild, Trip, ledgerVars
<1> QED
  BY <1>3, <1>4, <1>5, <1>6, <1>7, <1>8, <1>9, <1>10 DEF Worker, Process

\* When a job is replaced, the rows of its sub-slices are all there.
LEMMA SplitIsWhole ==
  ASSUME OwnershipInv, NEW w \in Workers, MarkSubdivided(w)
  PROVE  /\ job[w] \in Jobs /\ state' = [state EXCEPT ![job[w]] = "subdivided"]
         /\ \A c \in Children(job[w]) : c # job[w] /\ state[c] = "pending"
         /\ state[job[w]] = "in_flight"
<1>1. pc[w] = "subdivide" /\ Mark(job[w], "subdivided")
  BY DEF MarkSubdivided, Goto
<1>2. job[w] \in Jobs /\ state[job[w]] = "in_flight"
  BY <1>1 DEF OwnershipInv, TypeInv, TypeOK, WorkerTypeOK, HandInv, RowInv, HoldSteps, HoldsInFlight
<1>3. \A c \in Children(job[w]) : state[c] = "pending"
  BY <1>1 DEF OwnershipInv, SplitInv, SplitInvOf, Splitting
<1> QED
  BY <1>1, <1>2, <1>3 DEF Mark

LEMMA WorkerKeepsWhole ==
  ASSUME OwnershipInv, WholeInv, NEW w \in Workers, Worker(w)
  PROVE  WholeInv'
<1> USE DEF OwnershipInv, TypeInv, TypeOK, WorkerTypeOK, Goto, Release, localVars, Splitting
<1>1. \A v \in Workers \ {w} : pc'[v] = pc[v] /\ job'[v] = job[v]
  BY WorkerActsAlone
<1>2. SUFFICES pc'[w] \in {"split", "subdivide"} => Children(job[w]) # {} /\ job'[w] = job[w]
  <2>1. \A v \in Workers : job'[v] = job[v] => Children(job[v])' = Children(job[v])
    BY DEF Children, QueryOf, WindowOf
  <2> QED
    BY <1>1, <1>2, <2>1 DEF WholeInv, Children, QueryOf, WindowOf
<1>3. CASE Exhaust(w)
  BY <1>3 DEF Exhaust
<1>4. CASE UpsertChild(w)
  <2>1. pc[w] = "split" /\ job' = job
    BY <1>4 DEF UpsertChild
  <2> QED
    BY <2>1 DEF WholeInv
<1>5. CASE Take(w) \/ Drop(w) \/ Exit(w) \/ Finish(w) \/ Abort(w)
  BY <1>5 DEF Take, Drop, Exit, Finish, Abort
<1>6. CASE CacheHit(w) \/ SkipEmpty(w) \/ Proceed(w) \/ Launch(w) \/ Succeed(w)
  BY <1>6 DEF CacheHit, SkipEmpty, Proceed, Launch, Succeed
<1>7. CASE Persist(w) \/ CachePut(w) \/ Throttle(w) \/ Retry(w) \/ Requeue(w)
  BY <1>7 DEF Persist, CachePut, Throttle, Retry, Requeue
<1>8. CASE MarkDone(w) \/ Reject(w) \/ Fault(w)
  BY <1>8 DEF MarkDone, Reject, Fault
<1>9. CASE MarkSubdivided(w)
  BY <1>9 DEF MarkSubdivided
<1>10. CASE EnqueueChild(w)
  <2>1. CASE UNCHANGED pc
    BY <1>10, <2>1 DEF EnqueueChild
  <2>2. CASE Release(w, after[w])
    BY <1>10, <2>2 DEF EnqueueChild
  <2> QED
    BY <1>10, <2>1, <2>2 DEF EnqueueChild
<1>11. CASE GiveUp(w) \/ Trip(w)
  <2>1. after[w] \in {"finish", "raise"}
    OBVIOUS
  <2> QED
    BY <1>11, <2>1 DEF GiveUp, Trip
<1> QED
  BY <1>3, <1>4, <1>5, <1>6, <1>7, <1>8, <1>9, <1>10, <1>11 DEF Worker, Process

-----------------------------------------------------------------------------
(* No gap.                                                                 *)

LEMMA PlannedFacts ==
  ASSUME TypeInv
  PROVE  /\ Planned \subseteq Windows
         /\ \A r \in 1..MaxRuns : Plans[r] \subseteq Windows
BY PlanAssumption DEF Planned, TypeInv, TypeOK, RunTypeOK

\* Live rows stay live and the new ones are live: whatever was covered still is.
LEMMA CoverGrows ==
  ASSUME CoverInv,
         \A q \in Queries : \A w \in Planned' : Row(q, w)' # "absent",
         \A q \in Queries, w \in Windows :
           /\ Row(q, w) \notin Gone => Row(q, w)' \notin Gone
           /\ Row(q, w) = "absent" => Row(q, w)' # "subdivided"
  PROVE  CoverInv'
<1>1. SUFFICES ASSUME NEW q \in Queries, NEW w \in Windows, Row(q, w)' # "absent", NEW x \in Span[w]
               PROVE  LiveAt(q, x)'
  BY DEF CoverInv
<1>2. CASE Row(q, w) = "absent"
  BY <1>1, <1>2 DEF LiveAt, Gone
<1>3. CASE Row(q, w) # "absent"
  <2>1. PICK v \in Windows : Row(q, v) \notin Gone /\ x \in Span[v]
    BY <1>3 DEF CoverInv, LiveAt
  <2> QED
    BY <2>1 DEF LiveAt
<1> QED
  BY <1>2, <1>3

LEMMA WorkerKeepsProcess ==
  ASSUME NEW w \in Workers, Worker(w)
  PROVE  UNCHANGED <<run, status, phase>>
<1> USE DEF runVars
<1>1. CASE Take(w) \/ Drop(w) \/ Exit(w) \/ Finish(w)
  BY <1>1 DEF Take, Drop, Exit, Finish
<1>2. CASE Abort(w) \/ CacheHit(w) \/ SkipEmpty(w) \/ Proceed(w) \/ Launch(w)
  BY <1>2 DEF Abort, CacheHit, SkipEmpty, Proceed, Launch
<1>3. CASE Succeed(w) \/ Persist(w) \/ MarkDone(w) \/ CachePut(w) \/ Throttle(w) \/ Reject(w)
  BY <1>3 DEF Succeed, Persist, MarkDone, CachePut, Throttle, Reject
<1>4. CASE Retry(w) \/ Requeue(w) \/ Exhaust(w) \/ UpsertChild(w) \/ MarkSubdivided(w)
  BY <1>4 DEF Retry, Requeue, Exhaust, UpsertChild, MarkSubdivided
<1>5. CASE EnqueueChild(w) \/ GiveUp(w) \/ Trip(w) \/ Fault(w)
  BY <1>5 DEF EnqueueChild, GiveUp, Trip, Fault
<1> QED
  BY <1>1, <1>2, <1>3, <1>4, <1>5 DEF Worker, Process

LEMMA WorkerKeepsCover ==
  ASSUME OwnershipInv, WholeInv, CoverInv, NEW w \in Workers, Worker(w)
  PROVE  CoverInv'
<1>1. Planned' = Planned /\ Planned \subseteq Windows
  BY WorkerKeepsProcess, PlannedFacts DEF Planned, OwnershipInv
<1>2. TypeOK /\ StoreTypeOK
  BY DEF OwnershipInv, TypeInv, TypeOK
<1> USE DEF Row, Gone, StoreTypeOK
<1>3. CASE state' = state
  BY <1>1, <1>3, CoverGrows DEF CoverInv
<1>4. CASE /\ job[w] \in Jobs /\ state[job[w]] \notin Gone
           /\ \E s \in States \ Gone : state' = [state EXCEPT ![job[w]] = s]
  <2>1. \A q \in Queries, v \in Windows :
          /\ Row(q, v)' = Row(q, v) \/ (Row(q, v) \notin Gone /\ Row(q, v)' \notin Gone)
    BY <1>2, <1>4, JobParts
  <2> QED
    BY <1>1, <2>1, CoverGrows DEF CoverInv
<1>5. CASE UpsertChild(w)
  <2>1. PICK c : Upsert({c})
    BY <1>5 DEF UpsertChild
  <2>2. \A q \in Queries, v \in Windows :
          Row(q, v)' = Row(q, v) \/ (Row(q, v) = "absent" /\ Row(q, v)' = "pending")
    BY <2>1, JobParts DEF Upsert
  <2> QED
    BY <1>1, <2>2, CoverGrows DEF CoverInv
<1>6. CASE MarkSubdivided(w)
  <2>1. /\ job[w] \in Jobs /\ state' = [state EXCEPT ![job[w]] = "subdivided"]
        /\ \A c \in Children(job[w]) : c # job[w] /\ state[c] = "pending"
        /\ Children(job[w]) # {} /\ state[job[w]] # "absent"
    <3>1. Splitting(w)
      BY <1>6 DEF MarkSubdivided, Goto, Splitting
    <3> QED
      BY <1>6, <3>1, SplitIsWhole DEF WholeInv
  <2>2. PICK p \in Queries, z \in Windows : job[w] = <<p, z>>
    BY <2>1, JobParts
  <2>3. \A q \in Queries, v \in Windows :
          <<q, v>> # <<p, z>> => Row(q, v)' = Row(q, v)
    BY <1>2, <2>1, <2>2, JobParts
  <2>4. Row(p, z)' = "subdivided" /\ Row(p, z) # "absent"
    BY <1>2, <2>1, <2>2
  <2>5. UNION {Span[c] : c \in Split[z]} = Span[z]
    <3>1. Split[z] # {}
      BY <2>1, <2>2, JobParts
    <3> QED
      BY <3>1, SplitAssumption
  <2>6. \A c \in Split[z] : c \in Windows /\ Row(p, c)' = "pending"
    BY <1>2, <2>1, <2>2, JobParts
  <2>7. ASSUME NEW q \in Queries, NEW v \in Windows, Row(q, v)' # "absent", NEW x \in Span[v]
        PROVE  LiveAt(q, x)'
    <3>1. Row(q, v) # "absent"
      BY <2>3, <2>4, <2>7
    <3>2. PICK u \in Windows : Row(q, u) \notin Gone /\ x \in Span[u]
      BY <2>7, <3>1 DEF CoverInv, LiveAt
    <3>3. CASE <<q, u>> # <<p, z>>
      BY <2>3, <3>2, <3>3 DEF LiveAt
    <3>4. CASE <<q, u>> = <<p, z>>
      <4>1. PICK c \in Split[z] : x \in Span[c]
        BY <2>5, <3>2, <3>4
      <4> QED
        BY <2>6, <3>4, <4>1 DEF LiveAt
    <3> QED
      BY <3>3, <3>4
  <2>8. \A q \in Queries : \A v \in Planned' : Row(q, v)' # "absent"
    BY <1>1, <2>3, <2>4 DEF CoverInv
  <2> QED
    BY <2>7, <2>8 DEF CoverInv
<1> QED
  BY <1>3, <1>4, <1>5, <1>6, WorkerRows

LEMMA PlanKeepsCover ==
  ASSUME TypeInv, TypeInv', CoverInv, Plan
  PROVE  CoverInv'
<1> USE DEF Row, Gone
<1>1. /\ run \in 0..MaxRuns /\ run' = run + 1 /\ run' \in 1..MaxRuns
      /\ Upsert(Queries \X Plans[run + 1])
  BY PlanAssumption DEF Plan, TypeInv, TypeOK, RunTypeOK
<1>2. Planned' = Planned \cup Plans[run + 1] /\ Planned' \subseteq Windows
  BY <1>1, PlannedFacts, PlanAssumption DEF Planned
<1>3. \A q \in Queries, w \in Windows :
        Row(q, w)' = IF w \in Plans[run + 1] /\ Row(q, w) = "absent" THEN "pending"
                     ELSE Row(q, w)
  BY <1>1, JobParts DEF Upsert
<1> QED
  BY <1>2, <1>3, CoverGrows DEF CoverInv

\* The rows a process resumes were live, and are.
LEMMA BeginRows ==
  ASSUME TypeInv, Begin
  PROVE  /\ run' = run
         /\ \A q \in Queries, w \in Windows :
              Row(q, w)' = Row(q, w) \/ (Row(q, w) \notin Gone /\ Row(q, w)' = "pending")
<1> DEFINE claim == Claimable \cup Stale
<1>1. /\ run' = run
      /\ state' = [j \in Jobs |-> IF j \in claim THEN "pending" ELSE state[j]]
  BY DEF Begin
<1>2. \A j \in claim : state[j] \notin Gone
  BY DEF Claimable, Stale, Gone
<1> QED
  BY <1>1, <1>2, JobParts DEF Row

LEMMA NextCover ==
  ASSUME OwnershipInv, WholeInv, CoverInv, [Next]_vars
  PROVE  WholeInv' /\ CoverInv'
<1>1. TypeInv /\ TypeInv'
  BY NextTypeInv DEF OwnershipInv
<1>2. ASSUME UNCHANGED <<state, run>>
      PROVE  CoverInv'
  BY <1>2 DEF CoverInv, LiveAt, Row, Planned
<1>3. ASSUME \A w \in Workers : pc'[w] \in {"off", "idle"} \/ (pc'[w] = pc[w] /\ job' = job)
      PROVE  WholeInv'
  BY <1>3 DEF WholeInv, Splitting, Children, QueryOf, WindowOf
<1>4. CASE Plan
  BY <1>1, <1>3, <1>4, PlanKeepsCover DEF Plan
<1>5. CASE Begin
  <2>1. CoverInv'
    <3>1. Planned' = Planned /\ Planned \subseteq Windows
      BY <1>1, <1>5, BeginRows, PlannedFacts DEF Planned
    <3> QED
      BY <1>1, <1>5, <3>1, BeginRows, CoverGrows DEF CoverInv, Gone
  <2>2. WholeInv'
    BY <1>3, <1>5 DEF Begin
  <2> QED
    BY <2>1, <2>2
<1>6. CASE Return \/ Crash
  BY <1>2, <1>3, <1>6 DEF Return, Crash, ProcessGone, ledgerVars
<1>7. CASE Cancel
  BY <1>2, <1>3, <1>7 DEF Cancel, ledgerVars
<1>8. CASE UNCHANGED vars \/ Idle
  BY <1>2, <1>3, <1>8 DEF Idle, vars
<1>9. ASSUME NEW w \in Workers, Worker(w) PROVE WholeInv' /\ CoverInv'
  BY <1>9, WorkerKeepsWhole, WorkerKeepsCover
<1> QED
  BY <1>4, <1>5, <1>6, <1>7, <1>8, <1>9 DEF Next

LEMMA SpecOwnership ==
  ASSUME Crashes # "anywhere"
  PROVE  Spec => []OwnershipInv
<1>1. OwnershipInv /\ [Next]_vars => OwnershipInv'
  BY NextOwnership
<1> QED
  BY <1>1, InitOwnership, PTL DEF Spec

LEMMA SpecCover ==
  ASSUME Crashes # "anywhere"
  PROVE  Spec => [](WholeInv /\ CoverInv)
<1>1. Init => WholeInv /\ CoverInv
  BY JobParts, PlanAssumption DEF Init, WholeInv, Splitting, CoverInv, Planned, Row
<1>2. OwnershipInv /\ (WholeInv /\ CoverInv) /\ [Next]_vars => (WholeInv /\ CoverInv)'
  BY NextCover
<1> QED
  BY <1>1, <1>2, SpecOwnership, PTL DEF Spec

\* "Nothing is ever silently dropped": whatever fails, is split, killed between
\* two splits and resumed, every unit of planned time is in a row that counts.
THEOREM NothingIsDropped ==
  ASSUME Crashes # "anywhere"
  PROVE  Spec => []NoHole
<1>1. TypeInv /\ CoverInv => NoHole
  <2> SUFFICES ASSUME TypeInv, CoverInv, NEW q \in Queries, NEW w \in Planned, NEW x \in Span[w]
               PROVE  x \in SpanOf({v \in Windows : state[<<q, v>>] \notin {"absent", "subdivided"}})
    BY DEF NoHole, SpanOf
  <2>1. LiveAt(q, x)
    BY PlannedFacts DEF CoverInv
  <2> QED
    BY <2>1 DEF LiveAt, Row, Gone, SpanOf
<1>2. OwnershipInv => TypeInv
  BY DEF OwnershipInv
<1> QED
  BY <1>1, <1>2, SpecOwnership, SpecCover, PTL

-----------------------------------------------------------------------------
(* No overlap.                                                             *)

\* A split goes on until its job is replaced.
LEMMA SplitStays ==
  ASSUME OwnershipInv, NEW w \in Workers, Worker(w), ~MarkSubdivided(w),
         NEW q, NEW v, NEW z, SplitNow(q, v, z)
  PROVE  SplitNow(q, v, z)'
<1>1. PICK u \in Workers : Splitting(u) /\ job[u] = <<q, v>> /\ z \in Split[v]
  BY DEF SplitNow
<1>2. CASE u # w
  BY <1>1, <1>2, WorkerActsAlone DEF OwnershipInv, SplitNow, Splitting
<1>3. CASE u = w
  <2>1. UpsertChild(w)
    BY <1>1, <1>3 DEF Splitting, Worker, Process, Goto, Take, Drop, Exit, Finish, Abort, CacheHit,
       SkipEmpty, Proceed, Launch, Succeed, Persist, MarkDone, CachePut, Throttle, Reject, Retry,
       Requeue, Exhaust, EnqueueChild, GiveUp, Trip, Fault
  <2>2. job' = job /\ pc'[w] \in {"split", "subdivide"}
    BY <2>1 DEF UpsertChild, Goto, OwnershipInv, TypeInv, TypeOK, WorkerTypeOK
  <2> QED
    BY <1>1, <1>3, <2>2 DEF SplitNow, Splitting
<1> QED
  BY <1>2, <1>3

\* A job that is being split is held, and its row is in flight.
LEMMA SplitHeld ==
  ASSUME OwnershipInv, NEW q \in Queries, NEW v \in Windows, NEW z, SplitNow(q, v, z)
  PROVE  /\ Row(q, v) = "in_flight"
         /\ \A u \in Workers : job[u] # <<q, z>>
<1>1. PICK u \in Workers : Splitting(u) /\ job[u] = <<q, v>> /\ z \in Split[v]
  BY DEF SplitNow
<1>2. Row(q, v) = "in_flight"
  BY <1>1 DEF Splitting, OwnershipInv, RowInv, HoldsInFlight, Row
<1>3. Unowned(<<q, z>>)
  BY <1>1, JobParts DEF OwnershipInv, SplitInv, SplitInvOf
<1> QED
  BY <1>2, <1>3 DEF Unowned

LEMMA WorkerKeepsOverlap ==
  ASSUME OwnershipInv, OverlapInv, NEW w \in Workers, Worker(w)
  PROVE  OverlapInv'
<1> USE DEF Row
<1>1. StoreTypeOK /\ OwnershipInv
  BY DEF OwnershipInv, TypeInv, TypeOK
\* No row becomes live, and no live row is replaced.
<1>2. ASSUME ~MarkSubdivided(w),
             \A q \in Queries, v \in Windows : Row(q, v)' \notin Gone => Row(q, v) \notin Gone
      PROVE  OverlapInv'
  <2>1. \A q \in Queries, v, z \in Windows : SplitNow(q, v, z) => SplitNow(q, v, z)'
    BY <1>2, SplitStays
  <2> QED
    BY <1>2, <2>1 DEF OverlapInv
<1>3. CASE state' = state /\ ~MarkSubdivided(w)
  BY <1>2, <1>3
<1>4. CASE /\ ~MarkSubdivided(w)
           /\ job[w] \in Jobs /\ state[job[w]] \notin Gone
           /\ \E s \in States \ Gone : state' = [state EXCEPT ![job[w]] = s]
  <2>1. \A q \in Queries, v \in Windows : Row(q, v)' \notin Gone => Row(q, v) \notin Gone
    BY <1>1, <1>4, JobParts DEF StoreTypeOK
  <2> QED
    BY <1>2, <1>4, <2>1
<1>5. CASE UpsertChild(w)
  <2>1. PICK c \in todo[w] : Upsert({c}) /\ pc[w] = "split"
    BY <1>5 DEF UpsertChild, Goto
  <2>2. c \in Children(job[w]) /\ job[w] \in Jobs
    BY <2>1 DEF OwnershipInv, SplitInv, SplitInvOf, Splitting, TypeInv, TypeOK, WorkerTypeOK,
       HandInv, HoldSteps, HoldsInFlight
  <2>3. PICK p \in Queries, y \in Windows : job[w] = <<p, y>>
    BY <2>2, JobParts
  <2>4. PICK d \in Split[y] : c = <<p, d>>
    BY <2>2, <2>3, JobParts
  <2>5. d \in Windows /\ Split[y] # {} /\ Span[d] \subseteq Span[y]
    <3>1. d \in Windows /\ UNION {Span[e] : e \in Split[y]} = Span[y]
      BY <2>4, SplitAssumption
    <3> QED
      BY <2>4, <3>1
  <2>6. ~MarkSubdivided(w)
    BY <2>1 DEF MarkSubdivided, Goto
  <2>7. \A q \in Queries, v, z \in Windows : SplitNow(q, v, z) => SplitNow(q, v, z)'
    BY <2>6, SplitStays
  <2>8. SplitNow(p, y, d)' /\ Row(p, y) = "in_flight"
    <3>1. SplitNow(p, y, d)
      BY <2>1, <2>3, <2>4 DEF SplitNow, Splitting
    <3> QED
      BY <2>5, <2>7, <3>1, SplitHeld
  <2>9. \A q \in Queries, v \in Windows :
          Row(q, v)' \notin Gone => Row(q, v) \notin Gone \/ (q = p /\ v = d)
    BY <2>1, <2>4, JobParts DEF Upsert, Gone
  \* The new row lies in the job that is split, which overlaps nothing else
  \* but the other parts.
  <2>10. ASSUME NEW z \in Windows, z # d, Row(p, z) \notin Gone
         PROVE  Span[d] \cap Span[z] = {} \/ SplitNow(p, z, d)'
    <3>1. CASE z = y
      BY <2>8, <3>1
    <3>2. CASE z # y
      <4>1. Span[y] \cap Span[z] = {} \/ SplitNow(p, y, z) \/ SplitNow(p, z, y)
        BY <2>8, <2>10, <3>2 DEF OverlapInv, Gone
      <4>2. SplitNow(p, y, z) => Span[d] \cap Span[z] = {}
        BY <2>4, <2>10, SplitAssumption DEF SplitNow
      <4>3. ~SplitNow(p, z, y)
        BY <2>3, SplitHeld
      <4> QED
        BY <2>5, <4>1, <4>2, <4>3
    <3> QED
      BY <3>1, <3>2
  <2>11. ASSUME NEW q \in Queries, NEW v \in Windows, NEW z \in Windows, v # z,
                Row(q, v)' \notin Gone, Row(q, z)' \notin Gone
         PROVE  Span[v] \cap Span[z] = {} \/ SplitNow(q, v, z)' \/ SplitNow(q, z, v)'
    <3>1. CASE q = p /\ v = d
      BY <2>9, <2>10, <2>11, <3>1
    <3>2. CASE q = p /\ z = d
      BY <2>9, <2>10, <2>11, <3>2
    <3>3. CASE ~(q = p /\ v = d) /\ ~(q = p /\ z = d)
      BY <2>7, <2>9, <2>11, <3>3 DEF OverlapInv
    <3> QED
      BY <3>1, <3>2, <3>3
  <2> QED
    BY <2>11 DEF OverlapInv
<1>6. CASE MarkSubdivided(w)
  <2>1. job[w] \in Jobs /\ state' = [state EXCEPT ![job[w]] = "subdivided"]
    BY <1>6, SplitIsWhole
  <2>2. ASSUME NEW q \in Queries, NEW v \in Windows, NEW z \in Windows, Row(q, v)' \notin Gone,
               SplitNow(q, v, z)
        PROVE  SplitNow(q, v, z)'
    <3>1. PICK u \in Workers : Splitting(u) /\ job[u] = <<q, v>> /\ z \in Split[v]
      BY <2>2 DEF SplitNow
    <3>2. u # w
      BY <1>1, <2>1, <2>2, <3>1 DEF StoreTypeOK, Gone
    <3> QED
      BY <1>6, <3>1, <3>2, WorkerActsAlone DEF OwnershipInv, SplitNow, Splitting, Worker, Process
  <2>3. \A q \in Queries, v \in Windows : Row(q, v)' \notin Gone => Row(q, v) \notin Gone
    BY <1>1, <2>1, JobParts DEF StoreTypeOK, Gone
  <2> QED
    BY <2>2, <2>3 DEF OverlapInv
<1> QED
  BY <1>3, <1>4, <1>5, <1>6, WorkerRows

\* While nothing is being split, live rows do not overlap at all.
LEMMA RestApart ==
  ASSUME OverlapInv, \A w \in Workers : ~Splitting(w), NEW q \in Queries,
         NEW v \in Windows, NEW w \in Windows, v # w, Row(q, v) \notin Gone, Row(q, w) \notin Gone
  PROVE  Span[v] \cap Span[w] = {}
BY DEF OverlapInv, SplitNow

LEMMA WorkerKeepsRoot ==
  ASSUME OwnershipInv, RootInv, NEW w \in Workers, Worker(w)
  PROVE  RootInv'
<1> USE DEF Row, Gone
<1>1. Planned' = Planned /\ StoreTypeOK
  BY WorkerKeepsProcess DEF Planned, OwnershipInv, TypeInv, TypeOK
<1>2. ASSUME \A q \in Queries, v \in Windows : Row(q, v)' # "absent" => Row(q, v) # "absent"
      PROVE  RootInv'
  BY <1>1, <1>2 DEF RootInv
<1>3. CASE state' = state
  BY <1>2, <1>3
<1>4. CASE job[w] \in Jobs /\ state[job[w]] \notin Gone
           /\ \E s \in States \ Gone : state' = [state EXCEPT ![job[w]] = s]
  BY <1>1, <1>2, <1>4, JobParts DEF StoreTypeOK
<1>5. CASE MarkSubdivided(w)
  BY <1>1, <1>2, <1>5, SplitIsWhole, JobParts DEF StoreTypeOK
<1>6. CASE UpsertChild(w)
  <2>1. PICK c \in todo[w] : Upsert({c}) /\ pc[w] = "split"
    BY <1>6 DEF UpsertChild, Goto
  <2>2. c \in Children(job[w]) /\ job[w] \in Jobs /\ state[job[w]] # "absent"
    BY <2>1 DEF OwnershipInv, SplitInv, SplitInvOf, Splitting, TypeInv, TypeOK, WorkerTypeOK,
       HandInv, RowInv, HoldSteps, HoldsInFlight
  <2>3. PICK p \in Queries, y \in Windows, d \in Windows : job[w] = <<p, y>> /\ d \in Split[y] /\ c = <<p, d>>
    BY <2>2, JobParts
  <2>4. Span[d] \subseteq Span[y]
    <3>1. UNION {Span[e] : e \in Split[y]} = Span[y]
      BY <2>3, SplitAssumption
    <3> QED
      BY <2>3, <3>1
  <2>5. \E r \in Planned : Span[d] \subseteq Span[r]
    BY <2>2, <2>3, <2>4 DEF RootInv
  <2>6. \A q \in Queries, v \in Windows :
          Row(q, v)' # "absent" => Row(q, v) # "absent" \/ v = d
    BY <2>1, <2>3, JobParts DEF Upsert
  <2> QED
    BY <1>1, <2>5, <2>6 DEF RootInv
<1> QED
  BY <1>3, <1>4, <1>5, <1>6, WorkerRows

\* A planned window that has no row yet overlaps no window that has one.
LEMMA PlanKeepsOverlap ==
  ASSUME PlansDisjoint, TypeInv, CoverInv, OverlapInv, RootInv, Plan
  PROVE  OverlapInv' /\ RootInv'
<1> USE DEF Row, Gone
<1>1. /\ run \in 0..MaxRuns /\ run' = run + 1 /\ run' \in 1..MaxRuns
      /\ Upsert(Queries \X Plans[run + 1]) /\ phase = "idle"
      /\ UNCHANGED <<pc, job>>
  BY PlanAssumption DEF Plan, TypeInv, TypeOK, RunTypeOK
<1>2. Planned' = Planned \cup Plans[run + 1]
  BY <1>1 DEF Planned
<1>3. \A q \in Queries, w \in Windows :
        Row(q, w)' = IF w \in Plans[run + 1] /\ Row(q, w) = "absent" THEN "pending"
                     ELSE Row(q, w)
  BY <1>1, JobParts DEF Upsert
<1>4. RootInv'
  BY <1>2, <1>3 DEF RootInv
<1>5. \A w \in Workers : ~Splitting(w)
  BY <1>1, PoolEmpty DEF Splitting
<1>6. ASSUME NEW q \in Queries, NEW v \in Plans[run + 1], NEW z \in Windows, v # z,
             Row(q, v) = "absent", Row(q, z)' # "absent"
      PROVE  Span[v] \cap Span[z] = {}
  <2>1. ASSUME NEW r \in Planned', v # r
        PROVE  Span[v] \cap Span[r] = {}
    <3>1. PICK k \in 1..run' : r \in Plans[k]
      BY <2>1 DEF Planned
    <3>2. k \in 1..MaxRuns /\ run + 1 \in 1..MaxRuns
      BY <1>1, <3>1, PlanAssumption
    <3> QED
      BY <1>6, <2>1, <3>1, <3>2 DEF PlansDisjoint
  <2>2. CASE Row(q, z) = "absent"
    BY <1>2, <1>3, <1>6, <2>1, <2>2
  <2>3. CASE Row(q, z) # "absent"
    <3>1. PICK r \in Planned : Span[z] \subseteq Span[r]
      BY <2>3 DEF RootInv
    <3>2. v # r
      BY <1>6, <3>1 DEF CoverInv
    <3> QED
      BY <1>2, <2>1, <3>1, <3>2
  <2> QED
    BY <2>2, <2>3
<1>7. ASSUME NEW q \in Queries, NEW v \in Windows, NEW z \in Windows, v # z,
             Row(q, v)' \notin Gone, Row(q, z)' \notin Gone
      PROVE  Span[v] \cap Span[z] = {}
  <2>1. CASE Row(q, v) = "absent"
    BY <1>3, <1>6, <1>7, <2>1
  <2>2. CASE Row(q, z) = "absent"
    BY <1>3, <1>6, <1>7, <2>2
  <2>3. CASE Row(q, v) # "absent" /\ Row(q, z) # "absent"
    BY <1>3, <1>5, <1>7, <2>3, RestApart
  <2> QED
    BY <2>1, <2>2, <2>3
<1> QED
  BY <1>4, <1>7 DEF OverlapInv

LEMMA NextOverlap ==
  ASSUME Crashes # "anywhere", PlansDisjoint,
         OwnershipInv, CoverInv, OverlapInv, RootInv, [Next]_vars
  PROVE  OverlapInv' /\ RootInv'
<1>1. TypeInv
  BY DEF OwnershipInv
\* The rows that are live stay so, and no worker is splitting.
<1>2. ASSUME \A w \in Workers : ~Splitting(w), run' = run,
             \A q \in Queries, v \in Windows :
               Row(q, v)' = Row(q, v) \/ (Row(q, v) \notin Gone /\ Row(q, v)' = "pending")
      PROVE  OverlapInv' /\ RootInv'
  <2>1. \A q \in Queries, v \in Windows :
          /\ Row(q, v)' \notin Gone => Row(q, v) \notin Gone
          /\ Row(q, v)' # "absent" => Row(q, v) # "absent"
    BY <1>2 DEF Gone
  <2>2. OverlapInv'
    BY <1>2, <2>1, RestApart DEF OverlapInv
  <2>3. RootInv'
    BY <1>2, <2>1 DEF RootInv, Planned
  <2> QED
    BY <2>2, <2>3
<1>3. CASE Plan
  BY <1>1, <1>3, PlanKeepsOverlap
<1>4. CASE Begin
  <2>1. \A w \in Workers : ~Splitting(w)
    BY <1>1, <1>4, PoolEmpty DEF Begin, Splitting
  <2> QED
    BY <1>1, <1>2, <1>4, <2>1, BeginRows
<1>5. CASE Return
  BY <1>2, <1>5 DEF Return, Splitting, ledgerVars, Row
<1>6. CASE UNCHANGED <<state, run, pc, job>>
  BY <1>6, ZenonT(30) DEF OverlapInv, RootInv, SplitNow, Splitting, Row, Planned
<1>7. CASE Cancel \/ Idle \/ UNCHANGED vars
  <2>1. UNCHANGED <<state, run, pc, job>>
    BY <1>7 DEF Cancel, Idle, vars, ledgerVars
  <2> QED
    BY <2>1, <1>6
<1>8. ASSUME NEW w \in Workers, Worker(w) PROVE OverlapInv' /\ RootInv'
  BY <1>8, WorkerKeepsOverlap, WorkerKeepsRoot
<1>9. CASE Crash
  BY <1>2, <1>9 DEF Crash, ledgerVars, Row
<1> QED
  BY <1>3, <1>4, <1>5, <1>7, <1>8, <1>9 DEF Next

\* The rows that finalize() merges never cover the same time twice, provided
\* that the processes of the run plan windows that do not overlap.
THEOREM NothingIsCountedTwice ==
  ASSUME Crashes # "anywhere", PlansDisjoint
  PROVE  Spec => []NoDoubleCount
<1> DEFINE Inv == OverlapInv /\ RootInv
<1>1. Init => Inv
  BY JobParts DEF Init, OverlapInv, RootInv, Row, Gone
<1>2. OwnershipInv /\ CoverInv /\ Inv /\ [Next]_vars => Inv'
  BY NextOverlap
<1>3. OwnershipInv /\ Inv => NoDoubleCount
  <2> SUFFICES ASSUME OwnershipInv, OverlapInv, NEW q \in Queries, NEW v \in Windows,
                      NEW w \in Windows, v # w, Row(q, v) = "done", Row(q, w) = "done"
               PROVE  Span[v] \cap Span[w] = {}
    BY DEF NoDoubleCount, Row
  <2> QED
    BY SplitHeld DEF OverlapInv, Gone
<1> QED
  BY <1>1, <1>2, <1>3, SpecOwnership, SpecCover, PTL DEF Spec

-----------------------------------------------------------------------------
(* A run that is reported complete.                                        *)

\* Every process of the run plans the same windows.
PlansStable == \A r \in 1..MaxRuns : Plans[r] = Plans[1]

\* The status is stale as soon as the pool runs again, and until then there is
\* nothing a later process of the run would do.
StatusInv ==
  /\ phase # "idle" \/ status \notin {"none", "planned"} => run >= 1
  /\ phase = "running" => status = "running"
  /\ status = "complete" => Complete

\* Begin has nothing to claim exactly when the run is complete.
LEMMA NothingClaimed ==
  ASSUME Claimable \cup Stale = {}
  PROVE  Complete
BY DEF Claimable, Stale, Complete

\* Once the run is planned, planning the same windows again leaves the rows alone.
LEMMA ReplanAddsNothing ==
  ASSUME PlansStable, TypeInv, CoverInv, Plan, run >= 1
  PROVE  state' = [j \in Jobs |-> state[j]]
<1>1. run \in 0..MaxRuns /\ run + 1 \in 1..MaxRuns
  BY PlanAssumption DEF Plan, TypeInv, TypeOK, RunTypeOK
<1>2. 1 \in 1..run /\ Plans[run + 1] = Plans[1]
  BY <1>1, PlanAssumption DEF PlansStable
<1>3. Plans[run + 1] \subseteq Planned /\ Planned \subseteq Windows
  BY <1>2, PlannedFacts DEF Planned
<1>4. \A q \in Queries, w \in Plans[run + 1] : state[<<q, w>>] # "absent"
  BY <1>3 DEF CoverInv, Row
<1> QED
  BY <1>4, JobParts DEF Plan, Upsert

LEMMA NextStatus ==
  ASSUME PlansStable, TypeInv, CoverInv, StatusInv, [Next]_vars
  PROVE  StatusInv'
<1> USE DEF StatusInv
<1>0. run \in 0..MaxRuns /\ StoreTypeOK /\ TypeOK
  BY DEF TypeInv, TypeOK, RunTypeOK
<1>1. CASE Plan
  <2>1. /\ run' = run + 1 /\ run' \in 1..MaxRuns /\ phase' = "planned"
        /\ status' = IF status = "none" THEN "planned" ELSE status
    BY <1>0, <1>1, PlanAssumption DEF Plan
  <2>2. ASSUME status' = "complete"
        PROVE  Complete'
    <3>1. status = "complete" /\ run >= 1
      BY <2>1, <2>2
    <3>2. state' = [j \in Jobs |-> state[j]]
      BY <1>1, <3>1, ReplanAddsNothing
    <3> QED
      BY <3>1, <3>2 DEF Complete
  <2> QED
    BY <1>0, <2>1, <2>2
<1>2. CASE Begin
  <2>1. ASSUME Claimable \cup Stale = {}
        PROVE  state' = [j \in Jobs |-> state[j]] /\ Complete
    BY <1>2, <2>1, NothingClaimed DEF Begin
  <2>2. /\ phase = "planned" /\ run' = run
        /\ \/ Claimable \cup Stale = {} /\ status' = "complete" /\ phase' = "idle"
           \/ status' = "running" /\ phase' = "running"
    BY <1>2 DEF Begin
  <2>3. Claimable \cup Stale = {} => Complete'
    BY <2>1 DEF Complete
  <2> QED
    BY <1>0, <2>2, <2>3
<1>3. CASE Return
  <2>1. /\ phase' = "idle" /\ phase = "running" /\ run' = run /\ state' = state
        /\ status' \in {"cancelled", "complete", "incomplete"}
        /\ status' = "complete" => Complete
    BY <1>3 DEF Return, ProcessGone, ledgerVars
  <2> QED
    BY <2>1 DEF Complete
<1>4. CASE Crash
  BY <1>4 DEF Crash, ProcessGone, ledgerVars, Complete
<1>5. CASE Cancel \/ Idle \/ UNCHANGED vars
  BY <1>5 DEF Cancel, Idle, vars, ledgerVars, Complete
<1>6. ASSUME NEW w \in Workers, Worker(w) PROVE StatusInv'
  <2>1. phase = "running"
    BY <1>6 DEF TypeInv, PhaseInv, Worker, Process, Goto, Take, Drop, Exit, Finish, Abort, CacheHit,
       SkipEmpty, Proceed, Launch, Succeed, Persist, MarkDone, CachePut, Throttle, Reject, Retry,
       Requeue, Exhaust, UpsertChild, MarkSubdivided, EnqueueChild, GiveUp, Trip, Fault
  <2> QED
    BY <1>6, <2>1, WorkerKeepsProcess
<1> QED
  BY <1>1, <1>2, <1>3, <1>4, <1>5, <1>6 DEF Next

\* A run reported complete has an answer, or a recorded rejection, for every
\* unit of time any of its processes planned, if these plan the same windows.
THEOREM CompleteMeansCovered ==
  ASSUME Crashes # "anywhere", PlansStable
  PROVE  Spec => []CompleteIsCovered
<1>1. Init => StatusInv
  BY DEF Init, StatusInv
<1>2. OwnershipInv /\ CoverInv /\ StatusInv /\ [Next]_vars => StatusInv'
  BY NextStatus DEF OwnershipInv
<1>3. OwnershipInv /\ CoverInv /\ StatusInv => CompleteIsCovered
  <2> SUFFICES ASSUME OwnershipInv, CoverInv, Complete,
                      NEW q \in Queries, NEW w \in Planned, NEW x \in Span[w]
               PROVE  x \in SpanOf({v \in Windows : state[<<q, v>>] \in {"done", "permanent"}})
    BY DEF CompleteIsCovered, SpanOf, StatusInv
  <2>1. PICK v \in Windows : Row(q, v) \notin Gone /\ x \in Span[v]
    BY PlannedFacts DEF CoverInv, LiveAt, OwnershipInv
  <2>2. Row(q, v) \in {"done", "permanent"}
    BY <2>1, JobParts DEF Row, Gone, Complete, OwnershipInv, TypeInv, TypeOK, StoreTypeOK, States
  <2> QED
    BY <2>1, <2>2 DEF Row, SpanOf
<1> QED
  BY <1>1, <1>2, <1>3, SpecOwnership, SpecCover, PTL DEF Spec
=============================================================================

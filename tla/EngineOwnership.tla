-------------------------- MODULE EngineOwnership --------------------------
(***************************************************************************)
(* Who owns a job: proofs about Engine, for every catalog, window tree,    *)
(* pool size, budget and number of restarts.  First its types, then who    *)
(* owns which job, then that the engine keeps the ledger's promises.       *)
(***************************************************************************)
EXTENDS Engine, FiniteSetTheorems, TLAPS

-----------------------------------------------------------------------------
(***************************************************************************)
(* Types.  They are not inductive alone: a worker writes a result file,    *)
(* caches a result or bumps an attempt for the job in its hands, so that   *)
(* its hands are full at those steps (HandInv) and that what it caches is  *)
(* cacheable (PutInv) have to be carried along.                            *)
(***************************************************************************)

\* Steps at which a worker holds a job, by the state of the job's row.
HoldsPending  == {"taken", "slot", "requeue"}
HoldsInFlight == {"serve", "served", "running", "persist", "mark", "split",
                  "subdivide", "giveup"}
HoldsSettled  == {"put", "enqueue", "trip", "trip_syntax"}
HoldSteps == HoldsPending \cup HoldsInFlight \cup HoldsSettled

\* A worker's hands are full from work.get() until it is through with the job.
HandInv == \A w \in Workers : job[w] # NoJob <=> pc[w] \in HoldSteps

\* Only the result of a window that lies in the past is about to be cached.
PutInv == \A w \in Workers : pc[w] = "put" => job[w] \in Queries \X PastWindows

\* The pool exists only while run() waits for it.
PhaseInv == phase # "running" => queue = <<>> /\ \A w \in Workers : pc[w] = "off"

TypeInv == TypeOK /\ HandInv /\ PutInv /\ PhaseInv

-----------------------------------------------------------------------------
(* Facts about the constants and the helpers.                              *)

LEMMA JobsFinite == IsFiniteSet(Jobs)
BY FiniteAssumption, FS_Product DEF Jobs

\* A job's children are jobs; no job is the child of two, and none that is
\* planned is a child at all.
LEMMA ChildrenFacts ==
  /\ \A j \in Jobs : Children(j) \subseteq Jobs
  /\ \A j, k \in Jobs : j # k => Children(j) \cap Children(k) = {}
  /\ \A r \in 1..MaxRuns, j \in Jobs : (Queries \X Plans[r]) \cap Children(j) = {}
<1>1. ASSUME NEW j \in Jobs PROVE QueryOf(j) \in Queries /\ WindowOf(j) \in Windows
  BY DEF Jobs, QueryOf, WindowOf
<1>2. \A j \in Jobs : Children(j) \subseteq Jobs
  BY <1>1, SplitAssumption DEF Children, Jobs
<1>3. ASSUME NEW j \in Jobs, NEW k \in Jobs, j # k
      PROVE  Children(j) \cap Children(k) = {}
  <2>1. QueryOf(j) # QueryOf(k) \/ WindowOf(j) # WindowOf(k)
    BY <1>3 DEF Jobs, QueryOf, WindowOf
  <2>2. CASE QueryOf(j) # QueryOf(k)
    BY <2>2 DEF Children
  <2>3. CASE WindowOf(j) # WindowOf(k)
    <3>1. Split[WindowOf(j)] \cap Split[WindowOf(k)] = {}
      BY <2>3, <1>1, SplitAssumption
    <3> QED
      BY <3>1 DEF Children
  <2> QED
    BY <2>1, <2>2, <2>3
<1>4. ASSUME NEW r \in 1..MaxRuns, NEW j \in Jobs
      PROVE  (Queries \X Plans[r]) \cap Children(j) = {}
  <2>1. Plans[r] \cap Split[WindowOf(j)] = {}
    BY <1>1, PlanAssumption
  <2> QED
    BY <2>1 DEF Children
<1> QED
  BY <1>2, <1>3, <1>4

\* The queue a process starts from lists the claimable jobs without repetition.
LEMMA SetToSeqFacts ==
  ASSUME NEW S, IsFiniteSet(S)
  PROVE  /\ SetToSeq(S) \in Seq(S)
         /\ \A i, k \in DOMAIN SetToSeq(S) : SetToSeq(S)[i] = SetToSeq(S)[k] => i = k
         /\ Cardinality(S) \in Nat
         /\ S = {} => SetToSeq(S) = <<>>
<1>1. Cardinality(S) \in Nat /\ ExistsBijection(1..Cardinality(S), S)
  BY FS_CardinalityType
<1>2. \E f \in [1..Cardinality(S) -> S] : IsInjective(f)
  BY <1>1 DEF ExistsBijection, Bijection, Injection, IsInjective
<1>3. SetToSeq(S) \in [1..Cardinality(S) -> S] /\ IsInjective(SetToSeq(S))
  BY <1>2 DEF SetToSeq
<1>4. S = {} => SetToSeq(S) = <<>>
  BY <1>3, FS_EmptySet
<1> QED
  BY <1>1, <1>3, <1>4 DEF IsInjective

-----------------------------------------------------------------------------
(* The steps of a worker.                                                  *)

\* A worker writes only states, counts and jobs to the ledger and the stores.
LEMMA WorkerKeepsStore ==
  ASSUME TypeInv, NEW w \in Workers, Worker(w)
  PROVE  StoreTypeOK'
<1> USE DEF TypeInv, TypeOK, StoreTypeOK, WorkerTypeOK, HandInv, PutInv, HoldSteps,
         HoldsPending, HoldsInFlight, HoldsSettled, States, Goto, Release, Mark,
         ledgerVars, storeVars
<1>1. CASE Take(w)
  BY <1>1 DEF Take, Get
<1>2. CASE Drop(w)
  BY <1>2 DEF Drop, Get
<1>3. CASE Exit(w)
  BY <1>3 DEF Exit, Get
<1>4. CASE Abort(w)
  BY <1>4 DEF Abort
<1>5. CASE CacheHit(w)
  BY <1>5 DEF CacheHit, MarkInFlight
<1>6. CASE SkipEmpty(w)
  BY <1>6 DEF SkipEmpty, MarkInFlight
<1>7. CASE Proceed(w)
  BY <1>7 DEF Proceed
<1>8. CASE Launch(w)
  BY <1>8 DEF Launch, MarkInFlight
<1>9. CASE Succeed(w)
  BY <1>9 DEF Succeed
<1>10. CASE Persist(w)
  BY <1>10 DEF Persist
<1>11. CASE MarkDone(w)
  BY <1>11 DEF MarkDone
<1>12. CASE CachePut(w)
  BY <1>12 DEF CachePut
<1>13. CASE Throttle(w)
  BY <1>13 DEF Throttle
<1>14. CASE Reject(w)
  BY <1>14 DEF Reject
<1>15. CASE Retry(w)
  BY <1>15 DEF Retry
<1>16. CASE Requeue(w)
  BY <1>16 DEF Requeue, enqueue
<1>17. CASE Exhaust(w)
  BY <1>17 DEF Exhaust
<1>18. CASE UpsertChild(w)
  BY <1>18 DEF UpsertChild, Upsert
<1>19. CASE MarkSubdivided(w)
  BY <1>19 DEF MarkSubdivided
<1>20. CASE EnqueueChild(w)
  BY <1>20 DEF EnqueueChild, enqueue
<1>21. CASE GiveUp(w)
  BY <1>21 DEF GiveUp
<1>22. CASE Trip(w)
  BY <1>22 DEF Trip
<1>23. CASE Fault(w)
  BY <1>23 DEF Fault
<1>24. CASE Finish(w)
  BY <1>24 DEF Finish
<1> QED
  BY <1>1, <1>2, <1>3, <1>4, <1>5, <1>6, <1>7, <1>8, <1>9, <1>10, <1>11, <1>12, <1>13, <1>14, <1>15, <1>16, <1>17, <1>18, <1>19, <1>20, <1>21, <1>22, <1>23, <1>24 DEF Worker, Process

\* A worker puts jobs and pills in the queue, and keeps the rest typed.
LEMMA WorkerKeepsRun ==
  ASSUME TypeInv, NEW w \in Workers, Worker(w)
  PROVE  RunTypeOK'
<1> USE DEF TypeInv, TypeOK, RunTypeOK, WorkerTypeOK, HandInv, HoldSteps, HoldsPending,
         HoldsInFlight, HoldsSettled, Goto, Release, runVars, poolVars
<1>1. CASE Take(w)
  BY <1>1 DEF Take, Get
<1>2. CASE Drop(w)
  BY <1>2 DEF Drop, Get
<1>3. CASE Exit(w)
  BY <1>3 DEF Exit, Get
<1>4. CASE Abort(w)
  BY <1>4 DEF Abort
<1>5. CASE CacheHit(w)
  BY <1>5 DEF CacheHit, MarkInFlight
<1>6. CASE SkipEmpty(w)
  BY <1>6 DEF SkipEmpty, MarkInFlight
<1>7. CASE Proceed(w)
  BY <1>7 DEF Proceed
<1>8. CASE Launch(w)
  BY <1>8 DEF Launch, MarkInFlight
<1>9. CASE Succeed(w)
  BY <1>9 DEF Succeed
<1>10. CASE Persist(w)
  BY <1>10 DEF Persist
<1>11. CASE MarkDone(w)
  BY <1>11 DEF MarkDone
<1>12. CASE CachePut(w)
  BY <1>12 DEF CachePut
<1>13. CASE Throttle(w)
  BY <1>13 DEF Throttle
<1>14. CASE Reject(w)
  BY <1>14 DEF Reject
<1>15. CASE Retry(w)
  BY <1>15 DEF Retry
<1>16. CASE Requeue(w)
  BY <1>16 DEF Requeue, enqueue
<1>17. CASE Exhaust(w)
  BY <1>17 DEF Exhaust
<1>18. CASE UpsertChild(w)
  BY <1>18 DEF UpsertChild, Upsert
<1>19. CASE MarkSubdivided(w)
  BY <1>19 DEF MarkSubdivided
<1>20. CASE EnqueueChild(w)
  BY <1>20 DEF EnqueueChild, enqueue
<1>21. CASE GiveUp(w)
  BY <1>21 DEF GiveUp
<1>22. CASE Trip(w)
  BY <1>22 DEF Trip
<1>23. CASE Fault(w)
  BY <1>23 DEF Fault
<1>24. CASE Finish(w)
  <2>1. Cardinality(Workers) \in Nat
    BY FiniteAssumption, FS_CardinalityType
  <2>2. Pills \in Seq(Jobs \cup {NoJob})
    BY <2>1 DEF Pills
  <2>3. queue' \in Seq(Jobs \cup {NoJob}) /\ outstanding' \in Int
    BY <1>24, <2>2 DEF Finish
  <2> QED
    BY <1>24, <2>3 DEF Finish
<1> QED
  BY <1>1, <1>2, <1>3, <1>4, <1>5, <1>6, <1>7, <1>8, <1>9, <1>10, <1>11, <1>12, <1>13, <1>14, <1>15, <1>16, <1>17, <1>18, <1>19, <1>20, <1>21, <1>22, <1>23, <1>24 DEF Worker, Process

\* A worker keeps its own variables typed.
LEMMA WorkerKeepsLocals ==
  ASSUME TypeInv, NEW w \in Workers, Worker(w)
  PROVE  WorkerTypeOK'
<1> USE DEF TypeInv, TypeOK, StoreTypeOK, WorkerTypeOK, HandInv, HoldSteps, HoldsPending,
         HoldsInFlight, HoldsSettled, Steps, Goto, Release, localVars
<1>1. CASE Take(w)
  BY <1>1 DEF Take, Get
<1>2. CASE Drop(w)
  BY <1>2 DEF Drop, Get
<1>3. CASE Exit(w)
  BY <1>3 DEF Exit, Get
<1>4. CASE Abort(w)
  BY <1>4 DEF Abort
<1>5. CASE CacheHit(w)
  BY <1>5 DEF CacheHit, MarkInFlight
<1>6. CASE SkipEmpty(w)
  BY <1>6 DEF SkipEmpty, MarkInFlight
<1>7. CASE Proceed(w)
  BY <1>7 DEF Proceed
<1>8. CASE Launch(w)
  BY <1>8 DEF Launch, MarkInFlight
<1>9. CASE Succeed(w)
  BY <1>9 DEF Succeed
<1>10. CASE Persist(w)
  BY <1>10 DEF Persist
<1>11. CASE MarkDone(w)
  <2>1. CASE Release(w, "finish")
    BY <1>11, <2>1 DEF MarkDone
  <2>2. CASE Goto(w, "mark", "put") /\ UNCHANGED <<job, localVars>>
    BY <1>11, <2>2 DEF MarkDone
  <2> QED
    BY <1>11, <2>1, <2>2 DEF MarkDone
<1>12. CASE CachePut(w)
  BY <1>12 DEF CachePut
<1>13. CASE Throttle(w)
  BY <1>13 DEF Throttle
<1>14. CASE Reject(w)
  <2>1. CASE Release(w, "finish")
    BY <1>14, <2>1 DEF Reject
  <2>2. CASE Goto(w, "running", "trip_syntax") /\ UNCHANGED <<job, localVars>>
    BY <1>14, <2>2 DEF Reject
  <2> QED
    BY <1>14, <2>1, <2>2 DEF Reject
<1>15. CASE Retry(w)
  BY <1>15 DEF Retry
<1>16. CASE Requeue(w)
  BY <1>16 DEF Requeue, enqueue
<1>17. CASE Exhaust(w)
  <2>1. job[w] \in Jobs /\ Children(job[w]) \subseteq Jobs
    BY <1>17, ChildrenFacts DEF Exhaust
  <2>2. CASE Goto(w, "running", "split") /\ todo' = [todo EXCEPT ![w] = Children(job[w])]
    BY <1>17, <2>1, <2>2 DEF Exhaust
  <2>3. CASE Goto(w, "running", "giveup") /\ UNCHANGED todo
    BY <1>17, <2>3 DEF Exhaust
  <2> QED
    BY <1>17, <2>2, <2>3 DEF Exhaust
<1>18. CASE UpsertChild(w)
  BY <1>18 DEF UpsertChild, Upsert
<1>19. CASE MarkSubdivided(w)
  BY <1>19, ChildrenFacts DEF MarkSubdivided
<1>20. CASE EnqueueChild(w)
  <2>1. CASE Release(w, after[w])
    BY <1>20, <2>1 DEF EnqueueChild
  <2>2. CASE \E c \in todo[w] : todo' = [todo EXCEPT ![w] = @ \ {c}]
                              /\ UNCHANGED <<pc, job, attempt, after>>
    BY <1>20, <2>2
  <2> QED
    BY <1>20, <2>1, <2>2 DEF EnqueueChild
<1>21. CASE GiveUp(w)
  <2>1. CASE Release(w, after[w])
    BY <1>21, <2>1 DEF GiveUp
  <2>2. CASE Goto(w, "giveup", "trip") /\ UNCHANGED <<job, localVars>>
    BY <1>21, <2>2 DEF GiveUp
  <2> QED
    BY <1>21, <2>1, <2>2 DEF GiveUp
<1>22. CASE Trip(w)
  BY <1>22 DEF Trip
<1>23. CASE Fault(w)
  BY <1>23 DEF Fault
<1>24. CASE Finish(w)
  BY <1>24 DEF Finish
<1> QED
  BY <1>1, <1>2, <1>3, <1>4, <1>5, <1>6, <1>7, <1>8, <1>9, <1>10, <1>11, <1>12, <1>13, <1>14, <1>15, <1>16, <1>17, <1>18, <1>19, <1>20, <1>21, <1>22, <1>23, <1>24 DEF Worker, Process

\* A worker holds a job exactly at the steps that work on one.
LEMMA WorkerKeepsHand ==
  ASSUME TypeInv, NEW w \in Workers, Worker(w)
  PROVE  HandInv'
<1> USE DEF TypeInv, TypeOK, WorkerTypeOK, HandInv, HoldSteps, HoldsPending,
         HoldsInFlight, HoldsSettled, Goto, Release, localVars
<1>1. CASE Take(w)
  BY <1>1, FiniteAssumption DEF Take, Get
<1>2. CASE Drop(w)
  BY <1>2 DEF Drop, Get
<1>3. CASE Exit(w)
  BY <1>3 DEF Exit, Get
<1>4. CASE Abort(w)
  BY <1>4 DEF Abort
<1>5. CASE CacheHit(w)
  BY <1>5 DEF CacheHit, MarkInFlight
<1>6. CASE SkipEmpty(w)
  BY <1>6 DEF SkipEmpty, MarkInFlight
<1>7. CASE Proceed(w)
  BY <1>7 DEF Proceed
<1>8. CASE Launch(w)
  BY <1>8 DEF Launch, MarkInFlight
<1>9. CASE Succeed(w)
  BY <1>9 DEF Succeed
<1>10. CASE Persist(w)
  <2>1. CASE Goto(w, "serve", "served")
    BY <1>10, <2>1 DEF Persist
  <2>2. CASE Goto(w, "persist", "mark")
    BY <1>10, <2>2 DEF Persist
  <2> QED
    BY <1>10, <2>1, <2>2 DEF Persist
<1>11. CASE MarkDone(w)
  <2>1. CASE Release(w, "finish")
    BY <1>11, <2>1 DEF MarkDone
  <2>2. CASE Goto(w, "mark", "put") /\ UNCHANGED <<job, localVars>>
    BY <1>11, <2>2 DEF MarkDone
  <2> QED
    BY <1>11, <2>1, <2>2 DEF MarkDone
<1>12. CASE CachePut(w)
  BY <1>12 DEF CachePut
<1>13. CASE Throttle(w)
  BY <1>13 DEF Throttle
<1>14. CASE Reject(w)
  <2>1. CASE Release(w, "finish")
    BY <1>14, <2>1 DEF Reject
  <2>2. CASE Goto(w, "running", "trip_syntax") /\ UNCHANGED <<job, localVars>>
    BY <1>14, <2>2 DEF Reject
  <2> QED
    BY <1>14, <2>1, <2>2 DEF Reject
<1>15. CASE Retry(w)
  BY <1>15 DEF Retry
<1>16. CASE Requeue(w)
  BY <1>16 DEF Requeue, enqueue
<1>17. CASE Exhaust(w)
  <2>1. CASE Goto(w, "running", "split")
    BY <1>17, <2>1 DEF Exhaust
  <2>2. CASE Goto(w, "running", "giveup")
    BY <1>17, <2>2 DEF Exhaust
  <2> QED
    BY <1>17, <2>1, <2>2 DEF Exhaust
<1>18. CASE UpsertChild(w)
  BY <1>18 DEF UpsertChild, Upsert
<1>19. CASE MarkSubdivided(w)
  BY <1>19 DEF MarkSubdivided
<1>20. CASE EnqueueChild(w)
  <2>1. CASE Release(w, after[w])
    BY <1>20, <2>1 DEF EnqueueChild
  <2>2. CASE \E c \in todo[w] : todo' = [todo EXCEPT ![w] = @ \ {c}]
                              /\ UNCHANGED <<pc, job, attempt, after>>
    BY <1>20, <2>2
  <2> QED
    BY <1>20, <2>1, <2>2 DEF EnqueueChild
<1>21. CASE GiveUp(w)
  <2>1. CASE Release(w, after[w])
    BY <1>21, <2>1 DEF GiveUp
  <2>2. CASE Goto(w, "giveup", "trip") /\ UNCHANGED <<job, localVars>>
    BY <1>21, <2>2 DEF GiveUp
  <2> QED
    BY <1>21, <2>1, <2>2 DEF GiveUp
<1>22. CASE Trip(w)
  BY <1>22 DEF Trip
<1>23. CASE Fault(w)
  BY <1>23 DEF Fault
<1>24. CASE Finish(w)
  <2>1. CASE Goto(w, "finish", "idle")
    BY <1>24, <2>1 DEF Finish
  <2>2. CASE Goto(w, "raise", "dead")
    BY <1>24, <2>2 DEF Finish
  <2> QED
    BY <1>24, <2>1, <2>2 DEF Finish
<1> QED
  BY <1>1, <1>2, <1>3, <1>4, <1>5, <1>6, <1>7, <1>8, <1>9, <1>10, <1>11, <1>12, <1>13, <1>14, <1>15, <1>16, <1>17, <1>18, <1>19, <1>20, <1>21, <1>22, <1>23, <1>24 DEF Worker, Process

\* A worker caches only what lies in the past.
LEMMA WorkerKeepsPut ==
  ASSUME TypeInv, NEW w \in Workers, Worker(w)
  PROVE  PutInv'
<1> USE DEF TypeInv, TypeOK, WorkerTypeOK, HandInv, PutInv, HoldSteps, HoldsPending,
         HoldsInFlight, HoldsSettled, Goto, Release, localVars
<1>1. CASE Take(w)
  BY <1>1 DEF Take, Get
<1>2. CASE Drop(w)
  BY <1>2 DEF Drop, Get
<1>3. CASE Exit(w)
  BY <1>3 DEF Exit, Get
<1>4. CASE Abort(w)
  BY <1>4 DEF Abort
<1>5. CASE CacheHit(w)
  BY <1>5 DEF CacheHit, MarkInFlight
<1>6. CASE SkipEmpty(w)
  BY <1>6 DEF SkipEmpty, MarkInFlight
<1>7. CASE Proceed(w)
  BY <1>7 DEF Proceed
<1>8. CASE Launch(w)
  BY <1>8 DEF Launch, MarkInFlight
<1>9. CASE Succeed(w)
  BY <1>9 DEF Succeed
<1>10. CASE Persist(w)
  <2>1. CASE Goto(w, "serve", "served")
    BY <1>10, <2>1 DEF Persist
  <2>2. CASE Goto(w, "persist", "mark")
    BY <1>10, <2>2 DEF Persist
  <2> QED
    BY <1>10, <2>1, <2>2 DEF Persist
<1>11. CASE MarkDone(w)
  <2>1. CASE Release(w, "finish")
    BY <1>11, <2>1 DEF MarkDone
  <2>2. CASE Cacheable(job[w]) /\ Goto(w, "mark", "put") /\ UNCHANGED job
    <3>1. job[w] \in Queries \X PastWindows
      BY <1>11, <2>2 DEF MarkDone, Cacheable, WindowOf, Jobs
    <3> QED
      BY <2>2, <3>1
  <2> QED
    BY <1>11, <2>1, <2>2 DEF MarkDone
<1>12. CASE CachePut(w)
  BY <1>12 DEF CachePut
<1>13. CASE Throttle(w)
  BY <1>13 DEF Throttle
<1>14. CASE Reject(w)
  <2>1. CASE Release(w, "finish")
    BY <1>14, <2>1 DEF Reject
  <2>2. CASE Goto(w, "running", "trip_syntax") /\ UNCHANGED <<job, localVars>>
    BY <1>14, <2>2 DEF Reject
  <2> QED
    BY <1>14, <2>1, <2>2 DEF Reject
<1>15. CASE Retry(w)
  BY <1>15 DEF Retry
<1>16. CASE Requeue(w)
  BY <1>16 DEF Requeue, enqueue
<1>17. CASE Exhaust(w)
  <2>1. CASE Goto(w, "running", "split")
    BY <1>17, <2>1 DEF Exhaust
  <2>2. CASE Goto(w, "running", "giveup")
    BY <1>17, <2>2 DEF Exhaust
  <2> QED
    BY <1>17, <2>1, <2>2 DEF Exhaust
<1>18. CASE UpsertChild(w)
  BY <1>18 DEF UpsertChild, Upsert
<1>19. CASE MarkSubdivided(w)
  BY <1>19 DEF MarkSubdivided
<1>20. CASE EnqueueChild(w)
  <2>1. CASE Release(w, after[w])
    BY <1>20, <2>1 DEF EnqueueChild
  <2>2. CASE \E c \in todo[w] : todo' = [todo EXCEPT ![w] = @ \ {c}]
                              /\ UNCHANGED <<pc, job, attempt, after>>
    BY <1>20, <2>2
  <2> QED
    BY <1>20, <2>1, <2>2 DEF EnqueueChild
<1>21. CASE GiveUp(w)
  <2>1. CASE Release(w, after[w])
    BY <1>21, <2>1 DEF GiveUp
  <2>2. CASE Goto(w, "giveup", "trip") /\ UNCHANGED <<job, localVars>>
    BY <1>21, <2>2 DEF GiveUp
  <2> QED
    BY <1>21, <2>1, <2>2 DEF GiveUp
<1>22. CASE Trip(w)
  BY <1>22 DEF Trip
<1>23. CASE Fault(w)
  BY <1>23 DEF Fault
<1>24. CASE Finish(w)
  <2>1. CASE Goto(w, "finish", "idle")
    BY <1>24, <2>1 DEF Finish
  <2>2. CASE Goto(w, "raise", "dead")
    BY <1>24, <2>2 DEF Finish
  <2> QED
    BY <1>24, <2>1, <2>2 DEF Finish
<1> QED
  BY <1>1, <1>2, <1>3, <1>4, <1>5, <1>6, <1>7, <1>8, <1>9, <1>10, <1>11, <1>12, <1>13, <1>14, <1>15, <1>16, <1>17, <1>18, <1>19, <1>20, <1>21, <1>22, <1>23, <1>24 DEF Worker, Process

\* Workers step only while the pool runs.
LEMMA WorkerKeepsPhase ==
  ASSUME TypeInv, NEW w \in Workers, Worker(w)
  PROVE  phase = "running" /\ phase' = "running"
<1> USE DEF TypeInv, PhaseInv, Goto, Release, runVars
<1>1. CASE Take(w)
  BY <1>1 DEF Take, Get
<1>2. CASE Drop(w)
  BY <1>2 DEF Drop, Get
<1>3. CASE Exit(w)
  BY <1>3 DEF Exit, Get
<1>4. CASE Abort(w)
  BY <1>4 DEF Abort
<1>5. CASE CacheHit(w)
  BY <1>5 DEF CacheHit, MarkInFlight
<1>6. CASE SkipEmpty(w)
  BY <1>6 DEF SkipEmpty, MarkInFlight
<1>7. CASE Proceed(w)
  BY <1>7 DEF Proceed
<1>8. CASE Launch(w)
  BY <1>8 DEF Launch, MarkInFlight
<1>9. CASE Succeed(w)
  BY <1>9 DEF Succeed
<1>10. CASE Persist(w)
  BY <1>10 DEF Persist
<1>11. CASE MarkDone(w)
  BY <1>11 DEF MarkDone
<1>12. CASE CachePut(w)
  BY <1>12 DEF CachePut
<1>13. CASE Throttle(w)
  BY <1>13 DEF Throttle
<1>14. CASE Reject(w)
  BY <1>14 DEF Reject
<1>15. CASE Retry(w)
  BY <1>15 DEF Retry
<1>16. CASE Requeue(w)
  BY <1>16 DEF Requeue, enqueue
<1>17. CASE Exhaust(w)
  BY <1>17 DEF Exhaust
<1>18. CASE UpsertChild(w)
  BY <1>18 DEF UpsertChild, Upsert
<1>19. CASE MarkSubdivided(w)
  BY <1>19 DEF MarkSubdivided
<1>20. CASE EnqueueChild(w)
  BY <1>20 DEF EnqueueChild, enqueue
<1>21. CASE GiveUp(w)
  BY <1>21 DEF GiveUp
<1>22. CASE Trip(w)
  BY <1>22 DEF Trip
<1>23. CASE Fault(w)
  BY <1>23 DEF Fault
<1>24. CASE Finish(w)
  BY <1>24 DEF Finish
<1> QED
  BY <1>1, <1>2, <1>3, <1>4, <1>5, <1>6, <1>7, <1>8, <1>9, <1>10, <1>11, <1>12, <1>13, <1>14, <1>15, <1>16, <1>17, <1>18, <1>19, <1>20, <1>21, <1>22, <1>23, <1>24 DEF Worker, Process

-----------------------------------------------------------------------------
(* The steps of the process, and the theorem.                              *)

LEMMA InitTypeInv == Init => TypeInv
BY PlanAssumption DEF Init, TypeInv, TypeOK, StoreTypeOK, RunTypeOK, WorkerTypeOK, HandInv,
   PutInv, PhaseInv, HoldSteps, HoldsPending, HoldsInFlight, HoldsSettled, States, Steps

LEMMA NextTypeInv == TypeInv /\ [Next]_vars => TypeInv'
<1> SUFFICES ASSUME TypeInv, [Next]_vars PROVE TypeInv'
  OBVIOUS
<1> USE DEF TypeInv, TypeOK, StoreTypeOK, RunTypeOK, WorkerTypeOK, HandInv, PutInv, PhaseInv,
            HoldSteps, HoldsPending, HoldsInFlight, HoldsSettled, ledgerVars, storeVars, runVars,
            poolVars, localVars
<1>1. CASE Plan
  <2>1. StoreTypeOK'
    BY <1>1 DEF Plan, Upsert, States
  <2>2. RunTypeOK'
    BY <1>1, PlanAssumption DEF Plan
  <2> QED
    BY <1>1, <2>1, <2>2 DEF Plan
<1>2. CASE Begin
  <2> DEFINE claim == Claimable \cup Stale
  <2>1. claim \subseteq Jobs /\ IsFiniteSet(claim)
    BY JobsFinite, FS_Subset DEF Claimable, Stale
  <2>2. SetToSeq(claim) \in Seq(Jobs \cup {NoJob}) /\ Cardinality(claim) \in Nat
    BY <2>1, SetToSeqFacts
  <2>3. StoreTypeOK'
    BY <1>2 DEF Begin, States
  <2>4. queue' \in Seq(Jobs \cup {NoJob}) /\ outstanding' \in Int
    BY <1>2, <2>2 DEF Begin
  <2>5. CASE claim = {}
    <3>1. RunTypeOK'
      BY <1>2, <2>4, <2>5 DEF Begin
    <3>2. queue' = <<>>
      BY <1>2, <2>1, <2>5, SetToSeqFacts DEF Begin
    <3> QED
      BY <1>2, <2>3, <2>5, <3>1, <3>2 DEF Begin
  <2>6. CASE claim # {}
    <3>1. RunTypeOK'
      BY <1>2, <2>4, <2>6 DEF Begin
    <3>2. pc' = [w \in Workers |-> "idle"] /\ UNCHANGED <<job, localVars>>
      BY <1>2, <2>6 DEF Begin
    <3>3. \A w \in Workers : job[w] = NoJob
      BY <1>2 DEF Begin
    <3>4. WorkerTypeOK' /\ HandInv' /\ PutInv'
      BY <3>2, <3>3 DEF Steps
    <3> QED
      BY <1>2, <2>3, <2>6, <3>1, <3>4 DEF Begin
  <2> QED
    BY <2>5, <2>6
<1>3. CASE Return
  <2>1. WorkerTypeOK' /\ HandInv' /\ PutInv'
    BY <1>3 DEF Return, ProcessGone, Steps
  <2> QED
    BY <1>3, <2>1 DEF Return, ProcessGone
<1>4. CASE Cancel
  BY <1>4 DEF Cancel
<1>5. CASE Crash
  <2>1. WorkerTypeOK' /\ HandInv' /\ PutInv'
    BY <1>5 DEF Crash, ProcessGone, Steps
  <2> QED
    BY <1>5, <2>1 DEF Crash, ProcessGone
<1>6. CASE UNCHANGED vars
  BY <1>6 DEF vars
<1>7. CASE Idle
  BY <1>6, <1>7 DEF Idle
<1>8. ASSUME NEW w \in Workers, Worker(w) PROVE TypeInv'
  <2>1. StoreTypeOK' /\ RunTypeOK' /\ WorkerTypeOK'
    BY <1>8, WorkerKeepsStore, WorkerKeepsRun, WorkerKeepsLocals DEF TypeInv
  <2>2. HandInv' /\ PutInv' /\ PhaseInv'
    BY <1>8, WorkerKeepsHand, WorkerKeepsPut, WorkerKeepsPhase DEF TypeInv
  <2> QED
    BY <2>1, <2>2
<1> QED
  BY <1>1, <1>2, <1>3, <1>4, <1>5, <1>6, <1>7, <1>8 DEF Next

\* Every variable keeps its type, a worker's hands are full exactly while it
\* works on a job, and only immutable results are about to be cached.
THEOREM TypeCorrect == Spec => []TypeOK
<1>1. Spec => []TypeInv
  BY InitTypeInv, NextTypeInv, PTL DEF Spec
<1> QED
  BY <1>1, PTL DEF TypeInv

-----------------------------------------------------------------------------
(***************************************************************************)
(* Ownership.  A job is owned by its place in the queue or by the worker   *)
(* that holds it, and its ledger row says which step its owner is at.  The *)
(* delicate step is subdivision: the rows of the children appear one by    *)
(* one while nobody owns them, and must stay unowned until their parent is *)
(* marked.  ChildInv is the fact that makes this inductive: a child's row  *)
(* exists only once its parent is subdivided, or while the worker that     *)
(* holds the parent is splitting it.  A kill in the middle of a split is   *)
(* what would break it, so the theorems assume that kills fall elsewhere.  *)
(***************************************************************************)

Unowned(j) ==
  /\ \A i \in DOMAIN queue : queue[i] # j
  /\ \A w \in Workers : job[w] # j

\* The row of a held job says how far its worker has come.
RowInv ==
  \A w \in Workers :
    /\ pc[w] \in HoldsPending => state[job[w]] = "pending"
    /\ pc[w] \in HoldsInFlight => state[job[w]] = "in_flight"
    /\ pc[w] = "put" => state[job[w]] = "done"
    /\ pc[w] = "enqueue" => state[job[w]] = "subdivided"
    /\ pc[w] = "trip" => state[job[w]] = "failed"
    /\ pc[w] = "trip_syntax" => state[job[w]] = "permanent"

QueueInv == \A i \in DOMAIN queue : queue[i] # NoJob => state[queue[i]] = "pending"

\* The children of a job that is being subdivided belong to nobody yet.
SplitInvOf(w) ==
  /\ Splitting(w) =>
       \A c \in Children(job[w]) :
         Unowned(c) /\ state[c] = IF c \in todo[w] THEN "absent" ELSE "pending"
  /\ pc[w] = "split" => todo[w] \subseteq Children(job[w])
  /\ pc[w] = "subdivide" => todo[w] = {}
  /\ pc[w] = "enqueue" =>
       /\ todo[w] \subseteq Children(job[w])
       /\ \A c \in todo[w] : Unowned(c) /\ state[c] = "pending"
SplitInv == \A w \in Workers : SplitInvOf(w)

ChildInv ==
  \A p \in Jobs : \A c \in Children(p) :
    state[c] # "absent" =>
      state[p] = "subdivided" \/ \E w \in Workers : Splitting(w) /\ job[w] = p

OwnershipInv == TypeInv /\ RowInv /\ SoleOwner /\ QueueInv /\ SplitInv /\ ChildInv

-----------------------------------------------------------------------------
(* What a worker leaves alone.                                             *)

\* A worker never moves another one.
LEMMA WorkerActsAlone ==
  ASSUME TypeInv, NEW w \in Workers, Worker(w)
  PROVE  \A v \in Workers \ {w} :
           pc'[v] = pc[v] /\ job'[v] = job[v] /\ todo'[v] = todo[v]
<1> USE DEF TypeInv, TypeOK, WorkerTypeOK, Goto, Release, localVars
<1>1. CASE Take(w)
  BY <1>1 DEF Take, Get
<1>2. CASE Drop(w)
  BY <1>2 DEF Drop, Get
<1>3. CASE Exit(w)
  BY <1>3 DEF Exit, Get
<1>4. CASE Abort(w)
  BY <1>4 DEF Abort
<1>5. CASE CacheHit(w)
  BY <1>5 DEF CacheHit, MarkInFlight
<1>6. CASE SkipEmpty(w)
  BY <1>6 DEF SkipEmpty, MarkInFlight
<1>7. CASE Proceed(w)
  BY <1>7 DEF Proceed
<1>8. CASE Launch(w)
  BY <1>8 DEF Launch, MarkInFlight
<1>9. CASE Succeed(w)
  BY <1>9 DEF Succeed
<1>10. CASE Persist(w)
  BY <1>10 DEF Persist
<1>11. CASE MarkDone(w)
  BY <1>11 DEF MarkDone
<1>12. CASE CachePut(w)
  BY <1>12 DEF CachePut
<1>13. CASE Throttle(w)
  BY <1>13 DEF Throttle
<1>14. CASE Reject(w)
  BY <1>14 DEF Reject
<1>15. CASE Retry(w)
  BY <1>15 DEF Retry
<1>16. CASE Requeue(w)
  BY <1>16 DEF Requeue, enqueue
<1>17. CASE Exhaust(w)
  BY <1>17 DEF Exhaust
<1>18. CASE UpsertChild(w)
  BY <1>18 DEF UpsertChild, Upsert
<1>19. CASE MarkSubdivided(w)
  BY <1>19 DEF MarkSubdivided
<1>20. CASE EnqueueChild(w)
  BY <1>20 DEF EnqueueChild, enqueue
<1>21. CASE GiveUp(w)
  BY <1>21 DEF GiveUp
<1>22. CASE Trip(w)
  BY <1>22 DEF Trip
<1>23. CASE Fault(w)
  BY <1>23 DEF Fault
<1>24. CASE Finish(w)
  BY <1>24 DEF Finish
<1> QED
  BY <1>1, <1>2, <1>3, <1>4, <1>5, <1>6, <1>7, <1>8, <1>9, <1>10, <1>11, <1>12,
     <1>13, <1>14, <1>15, <1>16, <1>17, <1>18, <1>19, <1>20, <1>21, <1>22, <1>23, <1>24
  DEF Worker, Process

\* The next state is typed too.
LEMMA WorkerKeepsTypes ==
  ASSUME TypeInv, NEW w \in Workers, Worker(w)
  PROVE  TypeInv'
BY NextTypeInv DEF Next

-----------------------------------------------------------------------------
(* What an operation on the queue moves.                                   *)

LEMMA TailFacts ==
  ASSUME NEW S, NEW q \in Seq(S), q # <<>>
  PROVE  /\ 1 \in DOMAIN q /\ Head(q) = q[1]
         /\ \A i \in DOMAIN Tail(q) : /\ i + 1 \in DOMAIN q /\ i \in Int /\ i >= 1
                                     /\ Tail(q)[i] = q[i + 1]
OBVIOUS

LEMMA AppendFacts ==
  ASSUME NEW S, NEW q \in Seq(S), NEW x \in S
  PROVE  \A i \in DOMAIN Append(q, x) :
           \/ i \in DOMAIN q /\ Append(q, x)[i] = q[i]
           \/ i = Len(q) + 1 /\ i \notin DOMAIN q /\ Append(q, x)[i] = x
OBVIOUS

\* Finish adds nothing but pills.
LEMMA FinishFacts ==
  ASSUME TypeInv, NEW w \in Workers, Finish(w)
  PROVE  \A i \in DOMAIN queue' :
           queue'[i] = NoJob \/ (i \in DOMAIN queue /\ queue'[i] = queue[i])
<1>1. Cardinality(Workers) \in Nat
  BY FiniteAssumption, FS_CardinalityType
<1>2. Pills \in Seq({NoJob}) /\ queue \in Seq(Jobs \cup {NoJob})
  BY <1>1 DEF Pills, TypeInv, TypeOK, RunTypeOK
<1>3. \A i \in DOMAIN (queue \o Pills) :
        \/ (queue \o Pills)[i] = NoJob
        \/ i \in DOMAIN queue /\ (queue \o Pills)[i] = queue[i]
  BY <1>2
<1>4. queue' = queue \/ queue' = queue \o Pills
  BY DEF Finish
<1> QED
  BY <1>3, <1>4

\* Owners stay unique when a job goes from the queue to a free worker ...
LEMMA OwnerTakes ==
  ASSUME TypeInv, TypeInv', SoleOwner, NEW w \in Workers, NEW j \in Jobs,
         Get(j), job' = [job EXCEPT ![w] = j]
  PROVE  SoleOwner'
<1>1. queue \in Seq(Jobs \cup {NoJob}) /\ queue # <<>>
      /\ j = Head(queue) /\ queue' = Tail(queue)
  BY DEF TypeInv, TypeOK, RunTypeOK, Get
<1>2. /\ 1 \in DOMAIN queue /\ j = queue[1]
      /\ \A i \in DOMAIN queue' : i + 1 \in DOMAIN queue /\ i \in Int /\ i >= 1
                                /\ queue'[i] = queue[i + 1]
  BY <1>1, TailFacts
<1>3. \A v \in Workers : job'[v] = IF v = w THEN j ELSE job[v]
  BY DEF TypeInv, TypeOK, WorkerTypeOK
<1>4. j # NoJob
  BY FiniteAssumption
<1>5. ASSUME NEW i \in DOMAIN queue', NEW k \in DOMAIN queue',
             queue'[i] = queue'[k], queue'[i] # NoJob
      PROVE  i = k
  <2>1. i + 1 = k + 1
    BY <1>2, <1>5 DEF SoleOwner
  <2> QED
    BY <2>1, <1>2
<1>6. ASSUME NEW u \in Workers, NEW v \in Workers, job'[u] = job'[v], job'[u] # NoJob
      PROVE  u = v
  BY <1>2, <1>3, <1>4, <1>6 DEF SoleOwner
<1>7. ASSUME NEW i \in DOMAIN queue', NEW v \in Workers, queue'[i] # NoJob
      PROVE  queue'[i] # job'[v]
  <2>1. i + 1 # 1
    BY <1>2
  <2>2. queue[i + 1] # j /\ queue[i + 1] # job[v]
    BY <1>2, <1>7, <2>1 DEF SoleOwner
  <2> QED
    BY <1>2, <1>3, <2>2
<1> QED
  BY <1>5, <1>6, <1>7 DEF SoleOwner

\* ... when hands are emptied, and when an unowned job is queued.
LEMMA OwnerEnqueues ==
  ASSUME TypeInv, SoleOwner, NEW c \in Jobs, Unowned(c), enqueue(c),
         \A v \in Workers : job'[v] = job[v] \/ job'[v] = NoJob
  PROVE  SoleOwner'
<1>1. queue \in Seq(Jobs \cup {NoJob}) /\ queue' = Append(queue, c)
  BY DEF TypeInv, TypeOK, RunTypeOK, enqueue
<1>2. \A i \in DOMAIN queue' :
        \/ i \in DOMAIN queue /\ queue'[i] = queue[i]
        \/ i = Len(queue) + 1 /\ queue'[i] = c
  BY <1>1, AppendFacts
<1> QED
  BY <1>2 DEF SoleOwner, Unowned

LEMMA UnownedStays ==
  ASSUME TypeInv, NEW c \in Jobs, NEW d \in Jobs, Unowned(d), d # c, enqueue(c),
         \A v \in Workers : job'[v] = job[v] \/ job'[v] = NoJob
  PROVE  Unowned(d)'
<1>1. queue \in Seq(Jobs \cup {NoJob}) /\ queue' = Append(queue, c)
  BY DEF TypeInv, TypeOK, RunTypeOK, enqueue
<1>2. \A i \in DOMAIN queue' :
        \/ i \in DOMAIN queue /\ queue'[i] = queue[i]
        \/ i = Len(queue) + 1 /\ queue'[i] = c
  BY <1>1, AppendFacts
<1> QED
  BY <1>2, FiniteAssumption DEF Unowned

\* Emptying the worker's hands, or leaving them alone, owns nothing new.
LEMMA EnqueueChildHands ==
  ASSUME TypeInv, NEW w \in Workers, EnqueueChild(w)
  PROVE  \A v \in Workers : job'[v] = job[v] \/ job'[v] = NoJob
<1>1. CASE Release(w, after[w])
  BY <1>1 DEF Release, TypeInv, TypeOK, WorkerTypeOK
<1>2. CASE UNCHANGED job
  BY <1>2
<1> QED
  BY <1>1, <1>2 DEF EnqueueChild

-----------------------------------------------------------------------------
(* The steps of a worker.                                                  *)

\* A worker marks its own job only, and no other worker holds that one.
LEMMA WorkerKeepsRows ==
  ASSUME OwnershipInv, TypeInv', NEW w \in Workers, Worker(w)
  PROVE  RowInv'
<1> USE DEF OwnershipInv, TypeInv, TypeOK, StoreTypeOK, RunTypeOK, WorkerTypeOK, HandInv,
         HoldSteps, HoldsPending, HoldsInFlight, HoldsSettled,
         Goto, Release, Mark, ledgerVars, poolVars, localVars, RowInv, SoleOwner,
         QueueInv, SplitInv, SplitInvOf, Splitting, Unowned
<1>1. CASE Take(w)
  BY <1>1 DEF Take, Get
<1>2. CASE Drop(w)
  BY <1>2 DEF Drop, Get
<1>3. CASE Exit(w)
  BY <1>3 DEF Exit, Get
<1>4. CASE Abort(w)
  BY <1>4 DEF Abort
<1>5. CASE CacheHit(w)
  BY <1>5 DEF CacheHit, MarkInFlight
<1>6. CASE SkipEmpty(w)
  BY <1>6 DEF SkipEmpty, MarkInFlight
<1>7. CASE Proceed(w)
  BY <1>7 DEF Proceed
<1>8. CASE Launch(w)
  BY <1>8 DEF Launch, MarkInFlight
<1>9. CASE Succeed(w)
  BY <1>9 DEF Succeed
<1>10. CASE Persist(w)
  BY <1>10 DEF Persist
<1>11. CASE MarkDone(w)
  <2>1. CASE Release(w, "finish")
    BY <1>11, <2>1 DEF MarkDone
  <2>2. CASE Goto(w, "mark", "put") /\ UNCHANGED <<job, localVars>>
    BY <1>11, <2>2 DEF MarkDone
  <2> QED
    BY <1>11, <2>1, <2>2 DEF MarkDone
<1>12. CASE CachePut(w)
  BY <1>12 DEF CachePut
<1>13. CASE Throttle(w)
  BY <1>13 DEF Throttle
<1>14. CASE Reject(w)
  BY <1>14 DEF Reject
<1>15. CASE Retry(w)
  BY <1>15 DEF Retry
<1>16. CASE Requeue(w)
  BY <1>16 DEF Requeue, enqueue
<1>17. CASE Exhaust(w)
  BY <1>17 DEF Exhaust
<1>18. CASE UpsertChild(w)
  BY <1>18, SMTT(20) DEF UpsertChild, Upsert
<1>19. CASE MarkSubdivided(w)
  BY <1>19 DEF MarkSubdivided
<1>20. CASE EnqueueChild(w)
  <2>1. CASE Release(w, after[w])
    BY <1>20, <2>1 DEF EnqueueChild
  <2>2. CASE UNCHANGED <<pc, job>>
    BY <1>20, <2>2 DEF EnqueueChild
  <2> QED
    BY <1>20, <2>1, <2>2 DEF EnqueueChild
<1>21. CASE GiveUp(w)
  BY <1>21 DEF GiveUp
<1>22. CASE Trip(w)
  BY <1>22 DEF Trip
<1>23. CASE Fault(w)
  BY <1>23 DEF Fault
<1>24. CASE Finish(w)
  BY <1>24 DEF Finish
<1> QED
  BY <1>1, <1>2, <1>3, <1>4, <1>5, <1>6, <1>7, <1>8, <1>9, <1>10, <1>11, <1>12,
     <1>13, <1>14, <1>15, <1>16, <1>17, <1>18, <1>19, <1>20, <1>21, <1>22, <1>23, <1>24
  DEF Worker, Process

\* A job that enters the queue or a worker's hands had no other owner.
LEMMA WorkerKeepsOwner ==
  ASSUME OwnershipInv, TypeInv', NEW w \in Workers, Worker(w)
  PROVE  SoleOwner'
<1>0. ASSUME UNCHANGED <<queue, job>> PROVE SoleOwner'
  BY <1>0 DEF OwnershipInv, SoleOwner
<1> USE FiniteAssumption
    DEF OwnershipInv, TypeInv, TypeOK, StoreTypeOK, RunTypeOK, WorkerTypeOK, HandInv,
         HoldSteps, HoldsPending, HoldsInFlight, HoldsSettled,
         Goto, Release, Mark, ledgerVars, poolVars, localVars, RowInv, SoleOwner,
         QueueInv, SplitInv, SplitInvOf, Splitting, Unowned
<1>1. CASE Take(w)
  <2>1. PICK j \in Jobs : Get(j) /\ job' = [job EXCEPT ![w] = j]
    BY <1>1 DEF Take
  <2> QED
    BY <2>1, OwnerTakes
<1>2. CASE Drop(w)
  <2>1. \A i \in DOMAIN queue' : i + 1 \in DOMAIN queue /\ i \in Int /\ queue'[i] = queue[i + 1]
    BY <1>2, TailFacts DEF Drop, Get
  <2> QED
    BY <1>2, <2>1 DEF Drop
<1>3. CASE Exit(w)
  <2>1. \A i \in DOMAIN queue' : i + 1 \in DOMAIN queue /\ i \in Int /\ queue'[i] = queue[i + 1]
    BY <1>3, TailFacts DEF Exit, Get
  <2> QED
    BY <1>3, <2>1 DEF Exit
<1>4. CASE Abort(w)
  BY <1>4 DEF Abort
<1>5. CASE CacheHit(w)
  <2>1. UNCHANGED <<queue, job>>
    BY <1>5 DEF CacheHit, MarkInFlight
  <2> HIDE DEF OwnershipInv, TypeInv, SoleOwner
  <2> QED BY <1>0, <2>1
<1>6. CASE SkipEmpty(w)
  BY <1>6 DEF SkipEmpty, MarkInFlight
<1>7. CASE Proceed(w)
  BY <1>7 DEF Proceed
<1>8. CASE Launch(w)
  BY <1>8 DEF Launch, MarkInFlight
<1>9. CASE Succeed(w)
  BY <1>9 DEF Succeed
<1>10. CASE Persist(w)
  BY <1>10 DEF Persist
<1>11. CASE MarkDone(w)
  <2>1. CASE Release(w, "finish")
    BY <1>11, <2>1 DEF MarkDone
  <2>2. CASE Goto(w, "mark", "put") /\ UNCHANGED <<job, localVars>>
    BY <1>11, <2>2 DEF MarkDone
  <2> QED
    BY <1>11, <2>1, <2>2 DEF MarkDone
<1>12. CASE CachePut(w)
  BY <1>12 DEF CachePut
<1>13. CASE Throttle(w)
  BY <1>13 DEF Throttle
<1>14. CASE Reject(w)
  <2>1. CASE Release(w, "finish")
    BY <1>14, <2>1 DEF Reject
  <2>2. CASE Goto(w, "running", "trip_syntax") /\ UNCHANGED <<job, localVars>>
    BY <1>14, <2>2 DEF Reject
  <2> QED
    BY <1>14, <2>1, <2>2 DEF Reject
<1>15. CASE Retry(w)
  BY <1>15 DEF Retry
<1>16. CASE Requeue(w)
  BY <1>16, SMTT(20) DEF Requeue, enqueue
<1>17. CASE Exhaust(w)
  BY <1>17 DEF Exhaust
<1>18. CASE UpsertChild(w)
  BY <1>18, SMTT(20) DEF UpsertChild, Upsert
<1>19. CASE MarkSubdivided(w)
  BY <1>19 DEF MarkSubdivided
<1>20. CASE EnqueueChild(w)
  <2>1. PICK c \in todo[w] : enqueue(c)
    BY <1>20 DEF EnqueueChild
  <2>2. c \in Jobs /\ Unowned(c)
    BY <1>20, <2>1, SMTT(20) DEF EnqueueChild
  <2> QED
    BY <1>20, <2>1, <2>2, EnqueueChildHands, OwnerEnqueues
<1>21. CASE GiveUp(w)
  <2>1. CASE Release(w, after[w])
    BY <1>21, <2>1 DEF GiveUp
  <2>2. CASE Goto(w, "giveup", "trip") /\ UNCHANGED <<job, localVars>>
    BY <1>21, <2>2 DEF GiveUp
  <2> QED
    BY <1>21, <2>1, <2>2 DEF GiveUp
<1>22. CASE Trip(w)
  BY <1>22 DEF Trip
<1>23. CASE Fault(w)
  BY <1>23 DEF Fault
<1>24. CASE Finish(w)
  <2>1. \A i \in DOMAIN queue' :
           queue'[i] = NoJob \/ (i \in DOMAIN queue /\ queue'[i] = queue[i])
    BY <1>24, FinishFacts
  <2>2. UNCHANGED <<state, job>>
    BY <1>24 DEF Finish
  <2> QED
    BY <2>1, <2>2
<1> QED
  BY <1>1, <1>2, <1>3, <1>4, <1>5, <1>6, <1>7, <1>8, <1>9, <1>10, <1>11, <1>12,
     <1>13, <1>14, <1>15, <1>16, <1>17, <1>18, <1>19, <1>20, <1>21, <1>22, <1>23, <1>24
  DEF Worker, Process

\* A queued job is pending when it is put, and nobody marks it before it is taken.
LEMMA WorkerKeepsQueue ==
  ASSUME OwnershipInv, TypeInv', NEW w \in Workers, Worker(w)
  PROVE  QueueInv'
<1> USE FiniteAssumption
    DEF OwnershipInv, TypeInv, TypeOK, StoreTypeOK, RunTypeOK, WorkerTypeOK, HandInv,
         HoldSteps, HoldsPending, HoldsInFlight, HoldsSettled,
         Goto, Release, Mark, ledgerVars, poolVars, localVars, RowInv, SoleOwner,
         QueueInv, SplitInv, SplitInvOf, Splitting, Unowned
<1>1. CASE Take(w)
  BY <1>1 DEF Take, Get
<1>2. CASE Drop(w)
  BY <1>2 DEF Drop, Get
<1>3. CASE Exit(w)
  BY <1>3 DEF Exit, Get
<1>4. CASE Abort(w)
  BY <1>4 DEF Abort
<1>5. CASE CacheHit(w)
  BY <1>5 DEF CacheHit, MarkInFlight
<1>6. CASE SkipEmpty(w)
  BY <1>6 DEF SkipEmpty, MarkInFlight
<1>7. CASE Proceed(w)
  BY <1>7 DEF Proceed
<1>8. CASE Launch(w)
  BY <1>8 DEF Launch, MarkInFlight
<1>9. CASE Succeed(w)
  BY <1>9 DEF Succeed
<1>10. CASE Persist(w)
  BY <1>10 DEF Persist
<1>11. CASE MarkDone(w)
  BY <1>11 DEF MarkDone
<1>12. CASE CachePut(w)
  BY <1>12 DEF CachePut
<1>13. CASE Throttle(w)
  BY <1>13 DEF Throttle
<1>14. CASE Reject(w)
  BY <1>14 DEF Reject
<1>15. CASE Retry(w)
  BY <1>15 DEF Retry
<1>16. CASE Requeue(w)
  BY <1>16 DEF Requeue, enqueue
<1>17. CASE Exhaust(w)
  BY <1>17 DEF Exhaust
<1>18. CASE UpsertChild(w)
  BY <1>18 DEF UpsertChild, Upsert
<1>19. CASE MarkSubdivided(w)
  BY <1>19 DEF MarkSubdivided
<1>20. CASE EnqueueChild(w)
  BY <1>20 DEF EnqueueChild, enqueue
<1>21. CASE GiveUp(w)
  BY <1>21 DEF GiveUp
<1>22. CASE Trip(w)
  BY <1>22 DEF Trip
<1>23. CASE Fault(w)
  BY <1>23 DEF Fault
<1>24. CASE Finish(w)
  <2>1. \A i \in DOMAIN queue' :
           queue'[i] = NoJob \/ (i \in DOMAIN queue /\ queue'[i] = queue[i])
    BY <1>24, FinishFacts
  <2>2. UNCHANGED <<state, job>>
    BY <1>24 DEF Finish
  <2> QED
    BY <2>1, <2>2
<1> QED
  BY <1>1, <1>2, <1>3, <1>4, <1>5, <1>6, <1>7, <1>8, <1>9, <1>10, <1>11, <1>12,
     <1>13, <1>14, <1>15, <1>16, <1>17, <1>18, <1>19, <1>20, <1>21, <1>22, <1>23, <1>24
  DEF Worker, Process

\* A job that somebody owns has a row.
LEMMA OwnedHasRow ==
  ASSUME OwnershipInv, NEW c \in Jobs, state[c] = "absent"
  PROVE  Unowned(c)
<1>1. c # NoJob
  BY FiniteAssumption
<1>2. \A i \in DOMAIN queue : queue[i] # c
  BY <1>1 DEF OwnershipInv, QueueInv
<1>3. ASSUME NEW v \in Workers PROVE job[v] # c
  <2>1. pc[v] \in HoldSteps => state[job[v]] # "absent"
    BY DEF OwnershipInv, RowInv, HoldSteps, HoldsSettled
  <2> QED
    BY <1>1, <2>1 DEF OwnershipInv, TypeInv, HandInv
<1> QED
  BY <1>2, <1>3 DEF Unowned

\* A worker that holds a child's parent and does not split it yet: no row.
LEMMA NoChildYet ==
  ASSUME OwnershipInv, NEW w \in Workers, pc[w] = "running", NEW c \in Children(job[w])
  PROVE  state[c] = "absent"
<1>1. job[w] \in Jobs /\ state[job[w]] = "in_flight"
  BY DEF OwnershipInv, TypeInv, TypeOK, WorkerTypeOK, HandInv, RowInv, HoldSteps, HoldsInFlight
<1>2. job[w] # NoJob
  BY <1>1, FiniteAssumption
<1>3. SUFFICES ASSUME state[c] # "absent" PROVE FALSE
  OBVIOUS
<1>4. PICK v \in Workers : Splitting(v) /\ job[v] = job[w]
  BY <1>1, <1>3 DEF OwnershipInv, ChildInv
<1>5. v = w
  BY <1>2, <1>4 DEF OwnershipInv, SoleOwner
<1> QED
  BY <1>4, <1>5 DEF Splitting

\* The split of another worker's job is not disturbed by a step that touches
\* none of its children.
LEMMA OtherSplit ==
  ASSUME TypeInv, SplitInv, NEW w \in Workers, Worker(w), NEW v \in Workers \ {w},
         \A c \in Jobs : job[v] \in Jobs /\ c \in Children(job[v]) =>
            state'[c] = state[c] /\ (Unowned(c) => Unowned(c)')
  PROVE  SplitInvOf(v)'
<1>1. pc'[v] = pc[v] /\ job'[v] = job[v] /\ todo'[v] = todo[v]
  BY WorkerActsAlone
<1>2. SplitInvOf(v) /\ todo[v] \subseteq Jobs
  BY DEF SplitInv, TypeInv, TypeOK, WorkerTypeOK
<1>3. CASE pc[v] \in {"split", "subdivide", "enqueue"}
  <2>1. job[v] \in Jobs
    BY <1>3 DEF TypeInv, TypeOK, WorkerTypeOK, HandInv, HoldSteps, HoldsInFlight, HoldsSettled
  <2>2. Children(job[v]) \subseteq Jobs /\ Children(job[v])' = Children(job[v])
    BY <1>1, <2>1, ChildrenFacts DEF Children, QueryOf, WindowOf
  <2>3. \A c \in Children(job[v]) : state'[c] = state[c] /\ (Unowned(c) => Unowned(c)')
    BY <2>1, <2>2
  <2> QED
    BY <1>1, <1>2, <2>2, <2>3 DEF SplitInvOf, Splitting
<1>4. CASE pc[v] \notin {"split", "subdivide", "enqueue"}
  BY <1>1, <1>4 DEF SplitInvOf, Splitting
<1> QED
  BY <1>3, <1>4

LEMMA ExhaustKeepsSplit ==
  ASSUME OwnershipInv, NEW w \in Workers, Exhaust(w)
  PROVE  SplitInv'
<1>1. pc[w] = "running" /\ UNCHANGED <<state, queue, job>>
  BY DEF Exhaust, ledgerVars, poolVars
<1>2. job[w] \in Jobs
  BY <1>1 DEF OwnershipInv, TypeInv, TypeOK, WorkerTypeOK, HandInv, HoldSteps, HoldsInFlight
<1>3. \/ pc'[w] = "split" /\ todo'[w] = Children(job[w])
      \/ pc'[w] = "giveup"
  BY DEF Exhaust, Goto, OwnershipInv, TypeInv, TypeOK, WorkerTypeOK
<1>4. \A c \in Children(job[w]) : Unowned(c)' /\ state'[c] = "absent"
  <2>1. \A c \in Children(job[w]) : c \in Jobs /\ state[c] = "absent"
    BY <1>1, <1>2, NoChildYet, ChildrenFacts
  <2>2. \A c \in Children(job[w]) : Unowned(c)
    BY <2>1, OwnedHasRow
  <2> QED
    BY <1>1, <2>1, <2>2 DEF Unowned
<1>5. Children(job[w])' = Children(job[w])
  BY <1>1 DEF Children, QueryOf, WindowOf
<1>6. SplitInvOf(w)'
  BY <1>1, <1>3, <1>4, <1>5 DEF SplitInvOf, Splitting
<1>7. ASSUME NEW v \in Workers \ {w} PROVE SplitInvOf(v)'
  <2>1. \A c \in Jobs : Unowned(c) => Unowned(c)'
    BY <1>1 DEF Unowned
  <2>2. TypeInv /\ SplitInv /\ Worker(w)
    BY DEF OwnershipInv, Worker, Process
  <2> QED
    BY <1>1, <2>1, <2>2, OtherSplit
<1> QED
  BY <1>6, <1>7 DEF SplitInv

LEMMA UpsertChildKeepsSplit ==
  ASSUME OwnershipInv, NEW w \in Workers, UpsertChild(w)
  PROVE  SplitInv'
<1>1. PICK c \in todo[w] :
        /\ Goto(w, "split", IF todo[w] = {c} THEN "subdivide" ELSE "split")
        /\ Upsert({c})
        /\ todo' = [todo EXCEPT ![w] = @ \ {c}]
  BY DEF UpsertChild
<1>2. pc[w] = "split" /\ UNCHANGED <<queue, job>>
  BY <1>1 DEF UpsertChild, Goto, poolVars
<1>3. job[w] \in Jobs /\ todo[w] \subseteq Children(job[w]) /\ Children(job[w]) \subseteq Jobs
  BY <1>2, ChildrenFacts
     DEF OwnershipInv, TypeInv, TypeOK, WorkerTypeOK, HandInv, HoldSteps, HoldsInFlight,
         SplitInv, SplitInvOf
<1>4. \A d \in Children(job[w]) : Unowned(d) /\ state[d] = IF d \in todo[w] THEN "absent" ELSE "pending"
  BY <1>2 DEF OwnershipInv, SplitInv, SplitInvOf, Splitting
<1>5. \A d \in Jobs : d # c => state'[d] = state[d]
  BY <1>1 DEF Upsert
<1>6. state'[c] = "pending"
  BY <1>1, <1>3, <1>4 DEF Upsert
<1>7. todo'[w] = todo[w] \ {c} /\ pc'[w] = IF todo[w] = {c} THEN "subdivide" ELSE "split"
  BY <1>1 DEF Goto, OwnershipInv, TypeInv, TypeOK, WorkerTypeOK
<1>8. \A d \in Jobs : Unowned(d) => Unowned(d)'
  BY <1>2 DEF Unowned
<1>9. SplitInvOf(w)'
  <2>1. Children(job[w])' = Children(job[w])
    BY <1>2 DEF Children, QueryOf, WindowOf
  <2>2. \A d \in Children(job[w]) :
          Unowned(d)' /\ state'[d] = IF d \in todo'[w] THEN "absent" ELSE "pending"
    BY <1>3, <1>4, <1>5, <1>6, <1>7, <1>8
  <2> QED
    BY <1>2, <1>3, <1>7, <2>1, <2>2 DEF SplitInvOf, Splitting
<1>10. ASSUME NEW v \in Workers \ {w} PROVE SplitInvOf(v)'
  <2>1. TypeInv /\ SplitInv /\ Worker(w)
    BY DEF OwnershipInv, Worker, Process
  <2>2. job[v] \in Jobs => c \notin Children(job[v])
    <3>1. job[w] # NoJob
      BY <1>3, FiniteAssumption
    <3>2. job[v] # job[w]
      BY <3>1 DEF OwnershipInv, SoleOwner
    <3> QED
      BY <1>3, <3>2, ChildrenFacts
  <2> QED
    BY <1>5, <1>8, <2>1, <2>2, OtherSplit
<1> QED
  BY <1>9, <1>10 DEF SplitInv

LEMMA EnqueueChildKeepsSplit ==
  ASSUME OwnershipInv, NEW w \in Workers, EnqueueChild(w)
  PROVE  SplitInv'
<1>1. PICK c \in todo[w] :
        /\ enqueue(c)
        /\ \/ todo' = [todo EXCEPT ![w] = @ \ {c}] /\ UNCHANGED <<pc, job>>
           \/ Release(w, after[w])
  BY DEF EnqueueChild
<1>2. pc[w] = "enqueue" /\ UNCHANGED state
  BY DEF EnqueueChild, ledgerVars
<1>3. job[w] \in Jobs /\ todo[w] \subseteq Children(job[w]) /\ Children(job[w]) \subseteq Jobs
  BY <1>2, ChildrenFacts
     DEF OwnershipInv, TypeInv, TypeOK, WorkerTypeOK, HandInv, HoldSteps, HoldsSettled,
         SplitInv, SplitInvOf
<1>4. \A d \in Jobs : d # c /\ Unowned(d) => Unowned(d)'
  <2>1. TypeInv /\ c \in Jobs
    BY <1>3 DEF OwnershipInv
  <2> QED
    BY <1>1, <2>1, EnqueueChildHands, UnownedStays
<1>5. SplitInvOf(w)'
  <2>1. CASE Release(w, after[w])
    <3>1. pc'[w] \in {"finish", "raise"}
      BY <2>1 DEF Release, OwnershipInv, TypeInv, TypeOK, WorkerTypeOK
    <3> QED
      BY <3>1 DEF SplitInvOf, Splitting
  <2>2. CASE todo' = [todo EXCEPT ![w] = @ \ {c}] /\ UNCHANGED <<pc, job>>
    <3>1. Children(job[w])' = Children(job[w])
      BY <2>2 DEF Children, QueryOf, WindowOf
    <3>2. todo'[w] = todo[w] \ {c} /\ pc'[w] = "enqueue"
      BY <1>2, <2>2 DEF OwnershipInv, TypeInv, TypeOK, WorkerTypeOK
    <3>3. \A d \in todo[w] : Unowned(d) /\ state[d] = "pending"
      BY <1>2 DEF OwnershipInv, SplitInv, SplitInvOf
    <3> QED
      BY <1>2, <1>3, <1>4, <3>1, <3>2, <3>3 DEF SplitInvOf, Splitting
  <2> QED
    BY <1>1, <2>1, <2>2
<1>6. ASSUME NEW v \in Workers \ {w} PROVE SplitInvOf(v)'
  <2>1. TypeInv /\ SplitInv /\ Worker(w)
    BY DEF OwnershipInv, Worker, Process
  <2>2. job[v] \in Jobs => c \notin Children(job[v])
    <3>1. job[w] # NoJob
      BY <1>3, FiniteAssumption
    <3>2. job[v] # job[w]
      BY <3>1 DEF OwnershipInv, SoleOwner
    <3> QED
      BY <1>3, <3>2, ChildrenFacts
  <2> QED
    BY <1>2, <1>4, <2>1, <2>2, OtherSplit
<1> QED
  BY <1>5, <1>6 DEF SplitInv

\* A step that marks nothing, owns nothing new and is no step of a split.
LEMMA IdleKeepsSplit ==
  ASSUME OwnershipInv, NEW w \in Workers, Worker(w), UNCHANGED state,
         pc'[w] \notin {"split", "subdivide", "enqueue"},
         \A d \in Jobs : Unowned(d) => Unowned(d)'
  PROVE  SplitInv'
<1>1. TypeInv /\ SplitInv
  BY DEF OwnershipInv
<1>2. SplitInvOf(w)'
  BY DEF SplitInvOf, Splitting
<1>3. ASSUME NEW v \in Workers \ {w} PROVE SplitInvOf(v)'
  BY <1>1, OtherSplit
<1> QED
  BY <1>2, <1>3 DEF SplitInv

\* Taking a job from the queue, or dropping it, owns nothing new.
LEMMA GetKeepsSplit ==
  ASSUME OwnershipInv, NEW w \in Workers, Take(w) \/ Drop(w)
  PROVE  SplitInv'
<1>1. /\ queue \in Seq(Jobs \cup {NoJob}) /\ job \in [Workers -> Jobs \cup {NoJob}]
      /\ pc \in [Workers -> Steps]
  BY DEF OwnershipInv, TypeInv, TypeOK, RunTypeOK, WorkerTypeOK
<1>2. /\ UNCHANGED state /\ pc'[w] \in {"taken", "finish"}
      /\ queue # <<>> /\ queue' = Tail(queue)
      /\ \A v \in Workers : job'[v] = job[v] \/ job'[v] = Head(queue)
  BY <1>1 DEF Take, Drop, Get, Goto, ledgerVars
<1>3. /\ 1 \in DOMAIN queue /\ Head(queue) = queue[1]
      /\ \A i \in DOMAIN queue' : i + 1 \in DOMAIN queue /\ queue'[i] = queue[i + 1]
  BY <1>1, <1>2, TailFacts
<1>4. \A d \in Jobs : Unowned(d) => Unowned(d)'
  BY <1>2, <1>3 DEF Unowned
<1>5. Worker(w)
  BY DEF Worker
<1> QED
  BY <1>2, <1>4, <1>5, IdleKeepsSplit

\* So does a requeue: the job only changes its owner.
LEMMA RequeueKeepsSplit ==
  ASSUME OwnershipInv, NEW w \in Workers, Requeue(w)
  PROVE  SplitInv'
<1>1. TypeInv /\ job[w] \in Jobs /\ UNCHANGED state /\ pc'[w] = "finish" /\ enqueue(job[w])
  BY DEF Requeue, Release, ledgerVars, OwnershipInv, TypeInv, TypeOK, WorkerTypeOK, HandInv,
         HoldSteps, HoldsPending
<1>2. \A v \in Workers : job'[v] = job[v] \/ job'[v] = NoJob
  BY <1>1 DEF Requeue, Release, TypeInv, TypeOK, WorkerTypeOK
<1>3. ASSUME NEW d \in Jobs, Unowned(d) PROVE Unowned(d)'
  <2>1. d # job[w]
    BY <1>3 DEF Unowned
  <2> QED
    BY <1>1, <1>2, <1>3, <2>1, UnownedStays
<1>4. Worker(w)
  BY DEF Worker, Process
<1> QED
  BY <1>1, <1>3, <1>4, IdleKeepsSplit

LEMMA PersistKeepsSplit ==
  ASSUME OwnershipInv, NEW w \in Workers, Persist(w)
  PROVE  SplitInv'
<1>1. UNCHANGED <<state, queue, job>> /\ pc'[w] \in {"served", "mark"} /\ Worker(w)
  BY DEF Persist, Goto, ledgerVars, poolVars, OwnershipInv, TypeInv, TypeOK, WorkerTypeOK,
         Worker, Process
<1>2. \A d \in Jobs : Unowned(d) => Unowned(d)'
  BY <1>1 DEF Unowned
<1> QED
  BY <1>1, <1>2, IdleKeepsSplit

LEMMA FinishKeepsSplit ==
  ASSUME OwnershipInv, NEW w \in Workers, Finish(w)
  PROVE  SplitInv'
<1>1. UNCHANGED <<state, job>> /\ pc'[w] \in {"idle", "dead"}
  BY DEF Finish, Goto, ledgerVars, OwnershipInv, TypeInv, TypeOK, WorkerTypeOK
<1>2. TypeInv /\ SplitInv /\ Worker(w)
  BY DEF OwnershipInv, Worker
<1>3. ASSUME NEW d \in Jobs, Unowned(d) PROVE Unowned(d)'
  <2>1. d # NoJob
    BY FiniteAssumption
  <2>2. \A i \in DOMAIN queue' :
          queue'[i] = NoJob \/ (i \in DOMAIN queue /\ queue'[i] = queue[i])
    BY <1>2, FinishFacts
  <2> QED
    BY <1>1, <1>3, <2>1, <2>2 DEF Unowned
<1>4. SplitInvOf(w)'
  BY <1>1 DEF SplitInvOf, Splitting
<1>5. ASSUME NEW v \in Workers \ {w} PROVE SplitInvOf(v)'
  BY <1>1, <1>2, <1>3, OtherSplit
<1> QED
  BY <1>4, <1>5 DEF SplitInv

\* The children of a job being split stay unowned.
LEMMA WorkerKeepsSplit ==
  ASSUME OwnershipInv, TypeInv', NEW w \in Workers, Worker(w)
  PROVE  SplitInv'
<1> USE FiniteAssumption, ChildrenFacts
    DEF OwnershipInv, TypeInv, TypeOK, StoreTypeOK, RunTypeOK, WorkerTypeOK, HandInv,
         HoldSteps, HoldsPending, HoldsInFlight, HoldsSettled,
         Goto, Release, Mark, ledgerVars, poolVars, localVars, RowInv, SoleOwner,
         QueueInv, SplitInv, SplitInvOf, Splitting, Unowned
<1>1. CASE Take(w)
  BY <1>1, GetKeepsSplit
<1>2. CASE Drop(w)
  BY <1>2, GetKeepsSplit
<1>3. CASE Exit(w)
  BY <1>3, SMTT(20) DEF Exit, Get
<1>4. CASE Abort(w)
  BY <1>4 DEF Abort
<1>5. CASE CacheHit(w)
  BY <1>5 DEF CacheHit, MarkInFlight
<1>6. CASE SkipEmpty(w)
  BY <1>6 DEF SkipEmpty, MarkInFlight
<1>7. CASE Proceed(w)
  BY <1>7 DEF Proceed
<1>8. CASE Launch(w)
  BY <1>8 DEF Launch, MarkInFlight
<1>9. CASE Succeed(w)
  BY <1>9 DEF Succeed
<1>10. CASE Persist(w)
  BY <1>10, PersistKeepsSplit
<1>11. CASE MarkDone(w)
  <2>1. CASE Release(w, "finish")
    BY <1>11, <2>1 DEF MarkDone
  <2>2. CASE Goto(w, "mark", "put") /\ UNCHANGED <<job, localVars>>
    BY <1>11, <2>2 DEF MarkDone
  <2> QED
    BY <1>11, <2>1, <2>2 DEF MarkDone
<1>12. CASE CachePut(w)
  BY <1>12 DEF CachePut
<1>13. CASE Throttle(w)
  BY <1>13 DEF Throttle
<1>14. CASE Reject(w)
  <2>1. CASE Release(w, "finish")
    BY <1>14, <2>1 DEF Reject
  <2>2. CASE Goto(w, "running", "trip_syntax") /\ UNCHANGED <<job, localVars>>
    BY <1>14, <2>2 DEF Reject
  <2> QED
    BY <1>14, <2>1, <2>2 DEF Reject
<1>15. CASE Retry(w)
  BY <1>15 DEF Retry
<1>16. CASE Requeue(w)
  BY <1>16, RequeueKeepsSplit
<1>17. CASE Exhaust(w)
  BY <1>17, ExhaustKeepsSplit
<1>18. CASE UpsertChild(w)
  BY <1>18, UpsertChildKeepsSplit
<1>19. CASE MarkSubdivided(w)
  BY <1>19 DEF MarkSubdivided
<1>20. CASE EnqueueChild(w)
  BY <1>20, EnqueueChildKeepsSplit
<1>21. CASE GiveUp(w)
  <2>1. CASE Release(w, after[w])
    BY <1>21, <2>1 DEF GiveUp
  <2>2. CASE Goto(w, "giveup", "trip") /\ UNCHANGED <<job, localVars>>
    BY <1>21, <2>2 DEF GiveUp
  <2> QED
    BY <1>21, <2>1, <2>2 DEF GiveUp
<1>22. CASE Trip(w)
  BY <1>22 DEF Trip
<1>23. CASE Fault(w)
  BY <1>23 DEF Fault
<1>24. CASE Finish(w)
  BY <1>24, FinishKeepsSplit
<1> QED
  BY <1>1, <1>2, <1>3, <1>4, <1>5, <1>6, <1>7, <1>8, <1>9, <1>10, <1>11, <1>12,
     <1>13, <1>14, <1>15, <1>16, <1>17, <1>18, <1>19, <1>20, <1>21, <1>22, <1>23, <1>24
  DEF Worker, Process

\* Rows of children appear, and parents are marked, only in a split.
RowsStay ==
  \A j \in Jobs : /\ state'[j] # "absent" => state[j] # "absent"
                  /\ state[j] = "subdivided" => state'[j] = "subdivided"

LEMMA ChildKept ==
  ASSUME TypeInv, ChildInv, NEW w \in Workers, ~Splitting(w),
         \A v \in Workers \ {w} : pc'[v] = pc[v] /\ job'[v] = job[v],
         RowsStay
  PROVE  ChildInv'
<1> SUFFICES ASSUME NEW p \in Jobs, NEW c \in Children(p), state'[c] # "absent"
             PROVE  state'[p] = "subdivided" \/ \E v \in Workers : Splitting(v)' /\ job'[v] = p
  BY DEF ChildInv
<1>1. state[p] = "subdivided" \/ \E v \in Workers : Splitting(v) /\ job[v] = p
  <2>1. c \in Jobs
    BY ChildrenFacts
  <2> QED
    BY <2>1 DEF ChildInv, RowsStay
<1>2. ASSUME NEW v \in Workers, Splitting(v), job[v] = p
      PROVE  Splitting(v)' /\ job'[v] = p
  BY <1>2 DEF Splitting
<1> QED
  BY <1>1, <1>2 DEF RowsStay

\* Only a worker that inserts a child, or marks the parent, is splitting.
LEMMA OthersDoNotSplit ==
  ASSUME OwnershipInv, NEW w \in Workers, Worker(w)
  PROVE  UpsertChild(w) \/ MarkSubdivided(w) \/ (~Splitting(w) /\ RowsStay)
<1> USE DEF OwnershipInv, TypeInv, TypeOK, StoreTypeOK, RunTypeOK, WorkerTypeOK, HandInv,
         HoldSteps, HoldsPending, HoldsInFlight, HoldsSettled,
         Goto, Release, Mark, ledgerVars, poolVars, localVars, RowInv, Splitting, RowsStay
<1>1. CASE Take(w)
  BY <1>1 DEF Take, Get
<1>2. CASE Drop(w)
  BY <1>2 DEF Drop, Get
<1>3. CASE Exit(w)
  BY <1>3 DEF Exit, Get
<1>4. CASE Abort(w)
  BY <1>4 DEF Abort
<1>5. CASE CacheHit(w)
  BY <1>5 DEF CacheHit, MarkInFlight
<1>6. CASE SkipEmpty(w)
  BY <1>6 DEF SkipEmpty, MarkInFlight
<1>7. CASE Proceed(w)
  BY <1>7 DEF Proceed
<1>8. CASE Launch(w)
  BY <1>8 DEF Launch, MarkInFlight
<1>9. CASE Succeed(w)
  BY <1>9 DEF Succeed
<1>10. CASE Persist(w)
  BY <1>10 DEF Persist
<1>11. CASE MarkDone(w)
  BY <1>11 DEF MarkDone
<1>12. CASE CachePut(w)
  BY <1>12 DEF CachePut
<1>13. CASE Throttle(w)
  BY <1>13 DEF Throttle
<1>14. CASE Reject(w)
  BY <1>14 DEF Reject
<1>15. CASE Retry(w)
  BY <1>15 DEF Retry
<1>16. CASE Requeue(w)
  BY <1>16 DEF Requeue, enqueue
<1>17. CASE Exhaust(w)
  BY <1>17 DEF Exhaust
<1>18. CASE EnqueueChild(w)
  BY <1>18 DEF EnqueueChild, enqueue
<1>19. CASE GiveUp(w)
  BY <1>19 DEF GiveUp
<1>20. CASE Trip(w)
  BY <1>20 DEF Trip
<1>21. CASE Fault(w)
  BY <1>21 DEF Fault
<1>22. CASE Finish(w)
  BY <1>22 DEF Finish
<1> QED
  BY <1>1, <1>2, <1>3, <1>4, <1>5, <1>6, <1>7, <1>8, <1>9, <1>10, <1>11, <1>12,
     <1>13, <1>14, <1>15, <1>16, <1>17, <1>18, <1>19, <1>20, <1>21, <1>22
  DEF Worker, Process

\* A child's row appears only while its parent is being split.
LEMMA WorkerKeepsChild ==
  ASSUME OwnershipInv, NEW w \in Workers, Worker(w)
  PROVE  ChildInv'
<1>1. CASE ~Splitting(w) /\ RowsStay
  BY <1>1, WorkerActsAlone, ChildKept DEF OwnershipInv
<1>2. ASSUME UpsertChild(w) \/ MarkSubdivided(w),
             NEW p \in Jobs, NEW c \in Children(p), state'[c] # "absent"
      PROVE  state'[p] = "subdivided" \/ \E v \in Workers : Splitting(v)' /\ job'[v] = p
  <2>1. /\ state \in [Jobs -> States] /\ pc \in [Workers -> Steps]
        /\ todo \in [Workers -> SUBSET Jobs] /\ job' = job /\ c \in Jobs
    BY <1>2, ChildrenFacts
       DEF OwnershipInv, TypeInv, TypeOK, StoreTypeOK, WorkerTypeOK, UpsertChild, MarkSubdivided
  <2>2. \A v \in Workers \ {w} : pc'[v] = pc[v] /\ job'[v] = job[v]
    BY WorkerActsAlone DEF OwnershipInv
  <2>3. job[w] \in Jobs
    BY <1>2, <2>1
       DEF OwnershipInv, TypeInv, TypeOK, WorkerTypeOK, HandInv, HoldSteps, HoldsInFlight,
           UpsertChild, MarkSubdivided, Goto
  <2>4. state[c] # "absent" =>
          state[p] = "subdivided" \/ \E v \in Workers : Splitting(v) /\ job[v] = p
    BY <2>1 DEF OwnershipInv, ChildInv
  <2>5. CASE UpsertChild(w)
    <3>1. /\ pc[w] = "split" /\ pc'[w] \in {"split", "subdivide"}
          /\ \E n \in todo[w] : state'[c] = (IF c = n /\ state[c] = "absent" THEN "pending" ELSE state[c])
      BY <2>1, <2>5 DEF UpsertChild, Upsert, Goto
    <3>2. state[p] = "subdivided" => state'[p] = "subdivided"
      BY <2>1, <2>5 DEF UpsertChild, Upsert
    <3>3. Splitting(w)' /\ \A v \in Workers : Splitting(v) => Splitting(v)'
      BY <2>2, <3>1 DEF Splitting
    <3>4. CASE state[c] # "absent"
      BY <2>1, <2>4, <3>2, <3>3, <3>4
    <3>5. CASE state[c] = "absent"
      <4>1. c \in todo[w] /\ todo[w] \subseteq Children(job[w])
        BY <1>2, <3>1, <3>5 DEF OwnershipInv, SplitInv, SplitInvOf
      <4>2. job[w] = p
        BY <2>3, <4>1, ChildrenFacts
      <4> QED
        BY <2>1, <3>3, <4>2
    <3> QED
      BY <3>4, <3>5
  <2>6. CASE MarkSubdivided(w)
    <3>1. pc[w] = "subdivide" /\ state' = [state EXCEPT ![job[w]] = "subdivided"]
      BY <2>6 DEF MarkSubdivided, Goto, Mark
    <3>2. state[job[w]] = "in_flight"
      BY <3>1 DEF OwnershipInv, RowInv, HoldsInFlight
    <3>3. state'[job[w]] = "subdivided" /\ \A j \in Jobs : j # job[w] => state'[j] = state[j]
      BY <2>1, <2>3, <3>1
    <3>4. state[c] # "absent"
      BY <1>2, <2>1, <3>2, <3>3
    <3>5. \A v \in Workers : v # w /\ Splitting(v) => Splitting(v)'
      BY <2>2 DEF Splitting
    <3> QED
      BY <2>1, <2>4, <3>3, <3>4, <3>5
  <2> QED
    BY <1>2, <2>5, <2>6
<1>3. UpsertChild(w) \/ MarkSubdivided(w) => ChildInv'
  <2>1. \A j : Children(j)' = Children(j)
    BY DEF Children
  <2> QED
    BY <1>2 DEF ChildInv
<1> QED
  BY <1>1, <1>3, OthersDoNotSplit

LEMMA WorkerKeepsOwnership ==
  ASSUME OwnershipInv, NEW w \in Workers, Worker(w)
  PROVE  OwnershipInv'
<1>1. TypeInv'
  BY WorkerKeepsTypes DEF OwnershipInv
<1> QED
  BY <1>1, WorkerKeepsRows, WorkerKeepsOwner, WorkerKeepsQueue, WorkerKeepsSplit,
     WorkerKeepsChild
  DEF OwnershipInv

-----------------------------------------------------------------------------
(* The steps of the process.                                               *)

\* Outside run() the pool is empty-handed.
LEMMA PoolEmpty ==
  ASSUME TypeInv, phase # "running"
  PROVE  queue = <<>> /\ \A w \in Workers : pc[w] = "off" /\ job[w] = NoJob
BY DEF TypeInv, PhaseInv, HandInv, HoldSteps, HoldsPending, HoldsInFlight, HoldsSettled

\* A pool that holds no job owns no job.
LEMMA EmptyHanded ==
  ASSUME \A w \in Workers : /\ pc[w] \in {"off", "idle"}
                            /\ job[w] = NoJob
  PROVE  RowInv /\ SplitInv
BY DEF RowInv, SplitInv, SplitInvOf, Splitting, HoldsPending, HoldsInFlight

\* No job is being split: the children that have rows have subdivided parents.
LEMMA ChildrenSettled ==
  ASSUME ChildInv, \A w \in Workers : ~Splitting(w),
         NEW p \in Jobs, NEW c \in Children(p), state[c] # "absent"
  PROVE  state[p] = "subdivided"
BY DEF ChildInv

LEMMA InitOwnership == Init => OwnershipInv
<1> SUFFICES ASSUME Init PROVE OwnershipInv
  OBVIOUS
<1>1. TypeInv
  BY InitTypeInv
<1>2. RowInv /\ SplitInv
  BY EmptyHanded DEF Init
<1>3. SoleOwner /\ QueueInv
  BY DEF Init, SoleOwner, QueueInv
<1>4. ChildInv
  BY ChildrenFacts DEF Init, ChildInv
<1> QED
  BY <1>1, <1>2, <1>3, <1>4 DEF OwnershipInv

\* Planning adds rows of windows that are no other window's sub-slices.
LEMMA PlanKeepsOwnership ==
  ASSUME OwnershipInv, TypeInv', Plan
  PROVE  OwnershipInv'
<1>1. phase = "idle" /\ TypeInv /\ run + 1 \in 1..MaxRuns
  BY PlanAssumption DEF Plan, OwnershipInv, TypeInv, TypeOK, RunTypeOK
<1>2. UNCHANGED <<queue, pc, job, todo>>
  BY DEF Plan, poolVars, localVars
<1>3. queue = <<>> /\ \A w \in Workers : pc[w] = "off" /\ job[w] = NoJob
  BY <1>1, PoolEmpty
<1>4. RowInv' /\ SplitInv'
  BY <1>2, <1>3 DEF RowInv, SplitInv, SplitInvOf, Splitting, HoldsPending, HoldsInFlight
<1>5. SoleOwner' /\ QueueInv'
  BY <1>2, <1>3 DEF SoleOwner, QueueInv
<1>6. ASSUME NEW p \in Jobs, NEW c \in Children(p), state'[c] # "absent"
      PROVE  state'[p] = "subdivided"
  <2>1. c \in Jobs /\ c \notin Queries \X Plans[run + 1]
    BY <1>1, ChildrenFacts
  <2>2. state[c] # "absent"
    BY <1>6, <2>1 DEF Plan, Upsert
  <2>3. state[p] = "subdivided"
    BY <1>3, <2>2, ChildrenSettled DEF OwnershipInv, Splitting
  <2> QED
    BY <2>3 DEF Plan, Upsert
<1> QED
  BY <1>4, <1>5, <1>6 DEF OwnershipInv, ChildInv

\* The queue a process starts from holds each claimable job once.
LEMMA BeginKeepsOwnership ==
  ASSUME OwnershipInv, TypeInv', Begin
  PROVE  OwnershipInv'
<1> DEFINE claim == Claimable \cup Stale
<1>1. phase = "planned" /\ TypeInv /\ UNCHANGED job
  BY DEF Begin, OwnershipInv
<1>2. queue = <<>> /\ \A w \in Workers : pc[w] = "off" /\ job[w] = NoJob
  BY <1>1, PoolEmpty
<1>3. /\ queue' = SetToSeq(claim)
      /\ state' = [j \in Jobs |-> IF j \in claim THEN "pending" ELSE state[j]]
      /\ \A w \in Workers : pc'[w] \in {"off", "idle"}
  <2>1. \A w \in Workers : pc'[w] \in {"off", "idle"}
    BY <1>2 DEF Begin
  <2> QED
    BY <2>1 DEF Begin
<1>4. IsFiniteSet(claim) /\ claim \subseteq Jobs
  BY JobsFinite, FS_Subset DEF Claimable, Stale
<1>5. /\ SetToSeq(claim) \in Seq(claim)
      /\ \A i, k \in DOMAIN SetToSeq(claim) : SetToSeq(claim)[i] = SetToSeq(claim)[k] => i = k
  BY <1>4, SetToSeqFacts
<1>6. \A i \in DOMAIN queue' : queue'[i] \in claim
  <2> HIDE DEF claim
  <2> QED
    BY <1>3, <1>5
<1>7. SoleOwner'
  <2> HIDE DEF claim
  <2>1. \A w \in Workers : job'[w] = NoJob
    BY <1>1, <1>2
  <2>2. \A i, k \in DOMAIN queue' : queue'[i] = queue'[k] => i = k
    BY <1>3, <1>5
  <2> QED
    BY <2>1, <2>2 DEF SoleOwner
<1>8. QueueInv'
  <2> HIDE DEF claim
  <2> QED
    BY <1>3, <1>4, <1>6 DEF QueueInv
<1>9. RowInv' /\ SplitInv'
  BY <1>3 DEF RowInv, SplitInv, SplitInvOf, Splitting, HoldsPending, HoldsInFlight
<1>10. ASSUME NEW p \in Jobs, NEW c \in Children(p), state'[c] # "absent"
       PROVE  state'[p] = "subdivided"
  <2>1. c \in Jobs
    BY ChildrenFacts
  <2>2. state[c] # "absent"
    BY <1>3, <1>10, <2>1 DEF Claimable, Stale
  <2>3. state[p] = "subdivided"
    BY <1>2, <2>2, ChildrenSettled DEF OwnershipInv, Splitting
  <2> QED
    BY <1>3, <2>3 DEF Claimable, Stale
<1> QED
  BY <1>7, <1>8, <1>9, <1>10 DEF OwnershipInv, ChildInv

\* A process that is gone owns nothing, and it did not go in mid-split.
LEMMA GoneKeepsOwnership ==
  ASSUME OwnershipInv, TypeInv', ProcessGone, UNCHANGED state,
         \A w \in Workers : ~Splitting(w)
  PROVE  OwnershipInv'
<1>1. queue' = <<>> /\ \A w \in Workers : pc'[w] = "off" /\ job'[w] = NoJob
  BY DEF ProcessGone
<1>2. RowInv' /\ SplitInv'
  BY <1>1 DEF RowInv, SplitInv, SplitInvOf, Splitting, HoldsPending, HoldsInFlight
<1>3. SoleOwner' /\ QueueInv'
  BY <1>1 DEF SoleOwner, QueueInv
<1>4. ChildInv'
  BY ChildrenSettled DEF OwnershipInv, ChildInv
<1> QED
  BY <1>2, <1>3, <1>4 DEF OwnershipInv

LEMMA NextOwnership ==
  ASSUME Crashes # "anywhere", OwnershipInv, [Next]_vars
  PROVE  OwnershipInv'
<1>1. TypeInv'
  BY NextTypeInv DEF OwnershipInv
<1>2. CASE Plan
  BY <1>1, <1>2, PlanKeepsOwnership
<1>3. CASE Begin
  BY <1>1, <1>3, BeginKeepsOwnership
<1>4. CASE Return
  BY <1>1, <1>4, GoneKeepsOwnership DEF Return, ledgerVars, Splitting
<1>5. CASE Crash
  BY <1>1, <1>5, GoneKeepsOwnership DEF Crash, ledgerVars
<1>6. CASE UNCHANGED <<state, queue, pc, job, todo>>
  BY <1>1, <1>6
  DEF OwnershipInv, RowInv, SoleOwner, QueueInv, SplitInv, SplitInvOf, Splitting,
      Unowned, ChildInv, Children, QueryOf, WindowOf
<1>7. CASE Cancel
  BY <1>6, <1>7 DEF Cancel, ledgerVars, poolVars, localVars
<1>8. CASE UNCHANGED vars
  BY <1>6, <1>8 DEF vars
<1>9. CASE Idle
  BY <1>8, <1>9 DEF Idle
<1>10. ASSUME NEW w \in Workers, Worker(w) PROVE OwnershipInv'
  BY <1>10, WorkerKeepsOwnership
<1> QED
  BY <1>2, <1>3, <1>4, <1>5, <1>7, <1>8, <1>9, <1>10 DEF Next

\* If no kill falls in the middle of a subdivision, no job ever has two owners:
\* no worker takes a job that another one holds, and none is queued twice.
THEOREM Ownership ==
  ASSUME Crashes # "anywhere"
  PROVE  Spec => []SoleOwner
<1>1. OwnershipInv /\ [Next]_vars => OwnershipInv'
  BY NextOwnership
<1>2. Spec => []OwnershipInv
  BY <1>1, InitOwnership, PTL DEF Spec
<1> QED
  BY <1>2, PTL DEF OwnershipInv

-----------------------------------------------------------------------------
(***************************************************************************)
(* The life of a row.  The ledger's updates are unconditional (an UPDATE   *)
(* ... WHERE id = ?): no guard in ledger.py keeps a row that is done from  *)
(* being marked again.  That a row moves only along the documented state   *)
(* machine is a fact about who calls it, and rests on RowInv and SoleOwner.*)
(***************************************************************************)

\* The engine's update of a row is a move of the ledger's state machine.
LEMMA MarkMoves ==
  ASSUME TypeInv, NEW j \in Jobs, NEW s, Mark(j, s), NEW from, state[j] \in from
  PROVE  Lifecycle!Move({j}, from, s)
BY DEF TypeInv, TypeOK, StoreTypeOK, Mark, Lifecycle!Move

LEMMA UpsertCreates ==
  ASSUME NEW js, Upsert(js)
  PROVE  Lifecycle!Create
<1> DEFINE new == {j \in Jobs : j \in js /\ state[j] = "absent"}
<1>1. state' = [j \in Jobs |-> IF j \in new THEN "pending" ELSE state[j]]
  BY DEF Upsert
<1>2. Lifecycle!Move(new, {"absent"}, "pending")
  BY <1>1 DEF Lifecycle!Move
<1>3. new \in SUBSET Jobs
  OBVIOUS
<1> HIDE DEF new
<1> QED
  BY <1>2, <1>3 DEF Lifecycle!Create

\* The prologue of run() resumes exactly the rows it puts in the queue.
LEMMA BeginResumes ==
  ASSUME Begin
  PROVE  Lifecycle!Resume
<1> DEFINE claim == Claimable \cup Stale
<1>1. state' = [j \in Jobs |-> IF j \in claim THEN "pending" ELSE state[j]]
  BY DEF Begin
<1>2. \A j \in claim : state[j] \in {"in_flight", "failed", "pending"}
  BY DEF Claimable, Stale
<1>3. claim \in SUBSET Jobs
  BY DEF Claimable, Stale
<1> HIDE DEF claim
<1> QED
  BY <1>1, <1>2, <1>3 DEF Lifecycle!Resume, Lifecycle!Move

\* What a worker does to the row of the job in its hands.
LEMMA WorkerMoves ==
  ASSUME OwnershipInv, NEW w \in Workers, Worker(w)
  PROVE  Lifecycle!Next \/ UNCHANGED state
<1>1. TypeInv /\ (pc[w] \in HoldSteps => job[w] \in Jobs)
  BY DEF OwnershipInv, TypeInv, TypeOK, WorkerTypeOK, HandInv
<1>2. /\ pc[w] \in HoldsPending => job[w] \in Jobs /\ state[job[w]] \in {"pending"}
      /\ pc[w] \in HoldsInFlight => job[w] \in Jobs /\ state[job[w]] \in {"in_flight"}
  BY <1>1 DEF OwnershipInv, RowInv, HoldSteps
<1>3. ASSUME pc[w] \in HoldsPending, Mark(job[w], "in_flight") PROVE Lifecycle!Next
  BY <1>1, <1>2, <1>3, MarkMoves DEF Lifecycle!Next, Lifecycle!Launch
<1>4. ASSUME NEW s \in {"pending", "done", "failed", "permanent", "subdivided"},
             pc[w] \in HoldsInFlight, Mark(job[w], s)
      PROVE  Lifecycle!Next
  BY <1>1, <1>2, <1>4, MarkMoves DEF Lifecycle!Next, Lifecycle!Settle
<1>5. CASE Abort(w)
  <2>1. pc[w] \in HoldsPending /\ Mark(job[w], "permanent")
    BY <1>5 DEF Abort, HoldsPending
  <2> QED
    BY <1>1, <1>2, <2>1, MarkMoves DEF Lifecycle!Next, Lifecycle!Skip
<1>6. CASE CacheHit(w) \/ SkipEmpty(w) \/ Launch(w)
  BY <1>3, <1>6 DEF CacheHit, SkipEmpty, Launch, MarkInFlight, Goto, HoldsPending
<1>7. CASE MarkDone(w)
  <2>1. pc[w] \in HoldsInFlight /\ Mark(job[w], "done")
    BY <1>7 DEF MarkDone, Goto, HoldsInFlight
  <2> QED
    BY <1>4, <2>1
<1>8. CASE Throttle(w) \/ Retry(w)
  <2>1. pc[w] \in HoldsInFlight /\ Mark(job[w], "pending")
    BY <1>8 DEF Throttle, Retry, Goto, HoldsInFlight
  <2> QED
    BY <1>4, <2>1
<1>9. CASE Reject(w)
  <2>1. pc[w] \in HoldsInFlight /\ Mark(job[w], "permanent")
    BY <1>9 DEF Reject, HoldsInFlight
  <2> QED
    BY <1>4, <2>1
<1>10. CASE GiveUp(w)
  <2>1. pc[w] \in HoldsInFlight /\ Mark(job[w], "failed")
    BY <1>10 DEF GiveUp, HoldsInFlight
  <2> QED
    BY <1>4, <2>1
<1>11. CASE MarkSubdivided(w)
  <2>1. pc[w] \in HoldsInFlight /\ Mark(job[w], "subdivided")
    BY <1>11 DEF MarkSubdivided, Goto, HoldsInFlight
  <2> QED
    BY <1>4, <2>1
<1>12. CASE UpsertChild(w)
  BY <1>12, UpsertCreates DEF UpsertChild, Lifecycle!Next
<1>13. CASE Take(w) \/ Drop(w) \/ Exit(w) \/ Finish(w)
  BY <1>13 DEF Take, Drop, Exit, Finish, ledgerVars
<1>14. CASE Proceed(w) \/ Succeed(w) \/ Persist(w) \/ CachePut(w) \/ Fault(w)
  BY <1>14 DEF Proceed, Succeed, Persist, CachePut, Fault, ledgerVars
<1>15. CASE Requeue(w) \/ Exhaust(w) \/ EnqueueChild(w) \/ Trip(w)
  BY <1>15 DEF Requeue, Exhaust, EnqueueChild, Trip, ledgerVars
<1> QED
  BY <1>5, <1>6, <1>7, <1>8, <1>9, <1>10, <1>11, <1>12, <1>13, <1>14, <1>15
  DEF Worker, Process

LEMMA NextMoves ==
  ASSUME OwnershipInv, [Next]_vars
  PROVE  [Lifecycle!Next]_state
<1>1. CASE Plan
  BY <1>1, UpsertCreates DEF Plan, Lifecycle!Next
<1>2. CASE Begin
  BY <1>2, BeginResumes DEF Lifecycle!Next
<1>3. CASE Return \/ Cancel \/ Crash
  BY <1>3 DEF Return, Cancel, Crash, ledgerVars
<1>4. CASE UNCHANGED vars \/ Idle
  BY <1>4 DEF Idle, vars
<1>5. ASSUME NEW w \in Workers, Worker(w) PROVE Lifecycle!Next \/ UNCHANGED state
  BY <1>5, WorkerMoves
<1> QED
  BY <1>1, <1>2, <1>3, <1>4, <1>5 DEF Next

\* If no kill falls in the middle of a subdivision, every row follows the
\* state machine in the comment at the head of ledger.py: only the attempt in
\* flight settles it, and once done, permanent or subdivided it stays so.
THEOREM Refinement ==
  ASSUME Crashes # "anywhere"
  PROVE  Spec => LifecycleSpec
<1>1. Init => Lifecycle!Init
  BY DEF Init, Lifecycle!Init
<1>2. OwnershipInv /\ [Next]_vars => OwnershipInv'
  BY NextOwnership
<1>3. OwnershipInv /\ [Next]_vars => [Lifecycle!Next]_state
  BY NextMoves
<1> QED
  BY <1>1, <1>2, <1>3, InitOwnership, PTL DEF Spec, LifecycleSpec, Lifecycle!Spec

\* What a resumed run executes is "only what is outstanding": if no kill falls
\* in the middle of a subdivision, a row that is done is never touched again.
THEOREM DoneIsFinal ==
  ASSUME Crashes # "anywhere"
  PROVE  Spec => DoneStaysDone
<1>1. ASSUME TypeInv, [Lifecycle!Next]_state, NEW j \in Jobs, state[j] = "done"
      PROVE  state'[j] = "done"
  <2>1. CASE UNCHANGED state
    BY <1>1, <2>1
  <2>2. CASE Lifecycle!Next
    <3>1. ASSUME NEW js, NEW from, NEW to, Lifecycle!Move(js, from, to), "done" \notin from
          PROVE  state'[j] = "done"
      BY <1>1, <3>1 DEF Lifecycle!Move
    <3> QED
      BY <2>2, <3>1 DEF Lifecycle!Next, Lifecycle!Create, Lifecycle!Launch,
                        Lifecycle!Skip, Lifecycle!Settle, Lifecycle!Resume
  <2> QED
    BY <1>1, <2>1, <2>2
<1>2. OwnershipInv /\ [Next]_vars => OwnershipInv'
  BY NextOwnership
<1>3. OwnershipInv /\ [Next]_vars => [\A j \in Jobs : state[j] = "done" => state'[j] = "done"]_vars
  BY <1>1, NextMoves DEF OwnershipInv
<1> QED
  BY <1>2, <1>3, InitOwnership, PTL DEF Spec, DoneStaysDone

-----------------------------------------------------------------------------
(* The result file of a job is written before its row says so.             *)

\* A step that marks no row done and brings no worker to mark one.
LEMMA ResultKept ==
  ASSUME DoneHasResult, files \subseteq files',
         \A j \in Jobs : state'[j] = "done" => state[j] = "done",
         \A w \in Workers : pc'[w] \in {"served", "mark"} =>
            pc[w] \in {"served", "mark"} /\ job'[w] = job[w]
  PROVE  DoneHasResult'
BY DEF DoneHasResult

LEMMA WorkerKeepsResult ==
  ASSUME TypeInv, DoneHasResult, NEW w \in Workers, Worker(w)
  PROVE  DoneHasResult'
<1> USE DEF TypeInv, TypeOK, StoreTypeOK, WorkerTypeOK, Goto, Release, Mark,
         ledgerVars, storeVars, localVars
<1>1. CASE Take(w) \/ Drop(w) \/ Exit(w) \/ Finish(w)
  BY <1>1, ResultKept DEF Take, Drop, Exit, Finish
<1>2. CASE Abort(w) \/ CacheHit(w) \/ SkipEmpty(w) \/ Launch(w)
  BY <1>2, ResultKept DEF Abort, CacheHit, SkipEmpty, Launch, MarkInFlight
<1>3. CASE Proceed(w) \/ Succeed(w) \/ CachePut(w) \/ Fault(w)
  BY <1>3, ResultKept DEF Proceed, Succeed, CachePut, Fault
<1>4. CASE Persist(w)
  BY <1>4 DEF Persist, DoneHasResult
<1>5. CASE MarkDone(w)
  <2>1. job[w] \in files /\ UNCHANGED files /\ state' = [state EXCEPT ![job[w]] = "done"]
    BY <1>5 DEF MarkDone, DoneHasResult
  <2>2. \A v \in Workers : pc'[v] \in {"served", "mark"} =>
          pc[v] \in {"served", "mark"} /\ job'[v] = job[v]
    <3>1. CASE Release(w, "finish")
      BY <3>1
    <3>2. CASE Goto(w, "mark", "put") /\ UNCHANGED <<job, localVars>>
      BY <3>2
    <3> QED
      BY <1>5, <3>1, <3>2 DEF MarkDone
  <2> QED
    BY <2>1, <2>2 DEF DoneHasResult
<1>6. CASE Throttle(w) \/ Retry(w) \/ MarkSubdivided(w)
  BY <1>6, ResultKept DEF Throttle, Retry, MarkSubdivided
<1>7. CASE Reject(w) \/ GiveUp(w)
  BY <1>7, ResultKept DEF Reject, GiveUp
<1>8. CASE Requeue(w) \/ Exhaust(w) \/ EnqueueChild(w) \/ Trip(w)
  BY <1>8, ResultKept DEF Requeue, Exhaust, EnqueueChild, Trip
<1>9. CASE UpsertChild(w)
  BY <1>9, ResultKept DEF UpsertChild, Upsert
<1> QED
  BY <1>1, <1>2, <1>3, <1>4, <1>5, <1>6, <1>7, <1>8, <1>9 DEF Worker, Process

LEMMA NextKeepsResult ==
  ASSUME TypeInv, DoneHasResult, [Next]_vars
  PROVE  DoneHasResult'
<1>1. CASE Plan
  BY <1>1, ResultKept DEF Plan, Upsert, storeVars
<1>2. CASE Begin
  BY <1>2, ResultKept DEF Begin, storeVars
<1>3. CASE Return \/ Crash
  BY <1>3, ResultKept DEF Return, Crash, ProcessGone, ledgerVars, storeVars
<1>4. CASE Cancel
  BY <1>4, ResultKept DEF Cancel, ledgerVars, storeVars
<1>5. CASE UNCHANGED vars \/ Idle
  BY <1>5, ResultKept DEF Idle, vars
<1>6. ASSUME NEW w \in Workers, Worker(w) PROVE DoneHasResult'
  BY <1>6, WorkerKeepsResult
<1> QED
  BY <1>1, <1>2, <1>3, <1>4, <1>5, <1>6 DEF Next

\* "done -> completed (result_path written)": whenever and wherever a process
\* is killed, a row that is done has its result file, so a resumed run that
\* skips it loses nothing.
THEOREM ResultsAreSafe == Spec => []DoneHasResult
<1>1. Init => DoneHasResult
  BY DEF Init, DoneHasResult
<1>2. TypeInv /\ DoneHasResult /\ [Next]_vars => (TypeInv /\ DoneHasResult)'
  BY NextTypeInv, NextKeepsResult
<1> QED
  BY <1>1, <1>2, InitTypeInv, PTL DEF Spec
=============================================================================

-------------------------- MODULE EngineAccounting --------------------------
(***************************************************************************)
(* The books of the engine: proofs about Engine, for every catalog, window *)
(* tree, pool size, budget and number of restarts.                         *)
(*                                                                         *)
(* The pool is shut down by the worker that brings outstanding["n"] to     *)
(* zero.  That the count is exact is inductive once it is counted in two   *)
(* parts, the jobs in the queue and the workers in their try block, and    *)
(* every step moves a job between the two, or adds or removes one.  From   *)
(* there on to what the ledger shows when the pool has shut down.          *)
(***************************************************************************)
EXTENDS EngineCoverage

Resting == {"off", "idle", "exited", "dead"}
Queued(q) == {i \in DOMAIN q : q[i] # NoJob}
BusyWorkers == {w \in Workers : Busy(w)}

-----------------------------------------------------------------------------
(* Counting the jobs in a queue.                                           *)

LEMMA QueuedFinite ==
  ASSUME NEW q \in Seq(Jobs \cup {NoJob})
  PROVE  /\ IsFiniteSet(Queued(q))
         /\ Cardinality(Queued(q)) \in Nat
         /\ Queued(q) # {} => Cardinality(Queued(q)) >= 1
<1>1. IsFiniteSet(1..Len(q))
  BY FS_Interval
<1>2. IsFiniteSet(Queued(q))
  BY <1>1, FS_Subset DEF Queued
<1>3. Cardinality(Queued(q)) \in Nat /\ (Cardinality(Queued(q)) = 0 <=> Queued(q) = {})
  BY <1>2, FS_CardinalityType, FS_EmptySet
<1> QED
  BY <1>2, <1>3

LEMMA AppendCount ==
  ASSUME NEW q \in Seq(Jobs \cup {NoJob}), NEW j \in Jobs
  PROVE  Cardinality(Queued(Append(q, j))) = Cardinality(Queued(q)) + 1
<1>1. j # NoJob
  BY FiniteAssumption
<1>2. Queued(Append(q, j)) = Queued(q) \cup {Len(q) + 1} /\ Len(q) + 1 \notin Queued(q)
  BY <1>1 DEF Queued
<1> QED
  BY <1>2, QueuedFinite, FS_AddElement

LEMMA PillsCount ==
  ASSUME NEW q \in Seq(Jobs \cup {NoJob})
  PROVE  /\ Queued(q \o Pills) = Queued(q)
         /\ q \o Pills \in Seq(Jobs \cup {NoJob})
<1>1. Cardinality(Workers) \in Nat
  BY FiniteAssumption, FS_CardinalityType
<1>2. Pills \in Seq({NoJob}) /\ Len(Pills) = Cardinality(Workers)
  BY <1>1 DEF Pills
<1>3. \A i \in 1..Len(Pills) : Pills[i] = NoJob
  BY <1>2
<1> HIDE DEF Pills
<1>4. \A i \in DOMAIN (q \o Pills) :
        IF i \in DOMAIN q THEN (q \o Pills)[i] = q[i] ELSE (q \o Pills)[i] = NoJob
  BY <1>2, <1>3
<1>5. DOMAIN q \subseteq DOMAIN (q \o Pills)
  BY <1>2
<1> QED
  BY <1>2, <1>4, <1>5 DEF Queued

\* What is left of a queue is the queue, moved by one, without its head.
LEMMA TailCount ==
  ASSUME NEW q \in Seq(Jobs \cup {NoJob}), q # <<>>
  PROVE  Cardinality(Queued(Tail(q))) =
           IF Head(q) = NoJob THEN Cardinality(Queued(q)) ELSE Cardinality(Queued(q)) - 1
<1> DEFINE rest == Queued(q) \ {1}
           f == [i \in Queued(Tail(q)) |-> i + 1]
<1>1. /\ Tail(q) \in Seq(Jobs \cup {NoJob})
      /\ \A i \in Nat \ {0} : i \in Queued(Tail(q)) <=> i + 1 \in Queued(q)
      /\ Queued(Tail(q)) \subseteq Nat \ {0} /\ Queued(q) \subseteq Nat \ {0}
  BY DEF Queued
<1>2. f \in Bijection(Queued(Tail(q)), rest)
  <2>1. f \in [Queued(Tail(q)) -> rest]
    <3>1. \A i \in Queued(Tail(q)) : i \in Nat \ {0}
      BY <1>1
    <3>2. ASSUME NEW i \in Queued(Tail(q))
          PROVE  i + 1 \in rest
      <4>1. i \in Nat \ {0} /\ i + 1 \in Queued(q)
        BY <1>1, <3>1
      <4>2. i + 1 # 1
        BY <4>1
      <4> QED
        BY <4>1, <4>2
    <3> QED
      BY <3>2
  <2>2. ASSUME NEW i \in Queued(Tail(q)), NEW k \in Queued(Tail(q)), f[i] = f[k]
        PROVE  i = k
    <3>1. i \in Int /\ k \in Int /\ i + 1 = k + 1
      BY <1>1, <2>2
    <3> QED
      BY <3>1
  <2>3. \A n \in rest : \E i \in Queued(Tail(q)) : f[i] = n
    <3> TAKE n \in rest
    <3>0. n \in Queued(q) /\ n # 1
      OBVIOUS
    <3>1. n \in Nat \ {0}
      BY <1>1, <3>0
    <3>2. n - 1 \in Nat \ {0} /\ (n - 1) + 1 = n
      BY <3>0, <3>1
    <3>3. n - 1 \in Queued(Tail(q))
      BY <1>1, <3>0, <3>2
    <3>4. f[n - 1] = n
      BY <3>2, <3>3
    <3> HIDE DEF f, rest
    <3> QED
      BY <3>3, <3>4
  <2> HIDE DEF f, rest
  <2> QED
    BY <2>1, <2>2, <2>3 DEF Bijection, Injection, Surjection, IsInjective
<1>3. Cardinality(rest) = Cardinality(Queued(Tail(q)))
  BY <1>1, <1>2, QueuedFinite, FS_Bijection DEF ExistsBijection
<1>4. 1 \in Queued(q) <=> Head(q) # NoJob
  BY DEF Queued
<1> QED
  BY <1>3, <1>4, QueuedFinite, FS_RemoveElement

\* The queue a process starts from holds every claimable job once, and no pill.
LEMMA ClaimCount ==
  ASSUME NEW S, IsFiniteSet(S), NoJob \notin S
  PROVE  /\ Cardinality(Queued(SetToSeq(S))) = Cardinality(S)
         /\ \A i \in DOMAIN SetToSeq(S) : SetToSeq(S)[i] # NoJob
<1>1. Cardinality(S) \in Nat /\ ExistsBijection(1..Cardinality(S), S)
  BY FS_CardinalityType
<1>2. \E f \in [1..Cardinality(S) -> S] : IsInjective(f)
  BY <1>1 DEF ExistsBijection, Bijection, Injection, IsInjective
<1>3. SetToSeq(S) \in [1..Cardinality(S) -> S]
  BY <1>2 DEF SetToSeq
<1>4. Queued(SetToSeq(S)) = 1..Cardinality(S)
  BY <1>3 DEF Queued
<1>5. Cardinality(1..Cardinality(S)) = Cardinality(S)
  <2>1. \A n \in Nat : Cardinality(1..n) = n
    BY FS_Interval
  <2> QED
    BY <1>1, <2>1
<1> QED
  BY <1>3, <1>4, <1>5

-----------------------------------------------------------------------------
(* Counting the workers.                                                   *)

LEMMA BusyCount ==
  ASSUME NEW w \in Workers
  PROVE  /\ Cardinality(BusyWorkers) \in Nat
         /\ w \in BusyWorkers => Cardinality(BusyWorkers) >= 1
         /\ Cardinality(BusyWorkers \cup {w}) =
              IF Busy(w) THEN Cardinality(BusyWorkers) ELSE Cardinality(BusyWorkers) + 1
         /\ Cardinality(BusyWorkers \ {w}) =
              IF Busy(w) THEN Cardinality(BusyWorkers) - 1 ELSE Cardinality(BusyWorkers)
<1>1. IsFiniteSet(BusyWorkers)
  BY FiniteAssumption, FS_Subset DEF BusyWorkers
<1>2. w \in BusyWorkers <=> Busy(w)
  BY DEF BusyWorkers
<1>3. Cardinality(BusyWorkers) = 0 <=> BusyWorkers = {}
  BY <1>1, FS_EmptySet
<1>4. Cardinality(BusyWorkers) \in Nat
  BY <1>1, FS_CardinalityType
<1>5. Cardinality(BusyWorkers \cup {w}) =
        IF w \in BusyWorkers THEN Cardinality(BusyWorkers) ELSE Cardinality(BusyWorkers) + 1
  BY <1>1, FS_AddElement
<1>6. Cardinality(BusyWorkers \ {w}) =
        IF w \in BusyWorkers THEN Cardinality(BusyWorkers) - 1 ELSE Cardinality(BusyWorkers)
  BY <1>1, FS_RemoveElement
<1>7. w \in BusyWorkers => Cardinality(BusyWorkers) >= 1
  BY <1>3, <1>4
<1> QED
  BY <1>2, <1>4, <1>5, <1>6, <1>7

\* Only the worker that moves may become busy, or rest.
LEMMA BusyMoves ==
  ASSUME TypeInv, NEW w \in Workers, Worker(w)
  PROVE  BusyWorkers' = IF pc'[w] \in Resting THEN BusyWorkers \ {w} ELSE BusyWorkers \cup {w}
BY WorkerActsAlone DEF BusyWorkers, Busy, Resting

-----------------------------------------------------------------------------
(* The count that shuts the pool down.                                     *)

\* No work is left: the pills are out.
Drained == (\E i \in DOMAIN queue : queue[i] = NoJob) \/ (\E w \in Workers : pc[w] = "exited")

LEMMA AccountingParts ==
  PoolAccounting <=>
    /\ outstanding = Cardinality(Queued(queue)) + Cardinality(BusyWorkers)
    /\ Drained => outstanding = 0
BY DEF PoolAccounting, Drained, Queued, BusyWorkers

\* Work is left as long as somebody is busy.
LEMMA BusyIsWork ==
  ASSUME TypeInv, PoolAccounting, NEW w \in Workers, Busy(w)
  PROVE  outstanding >= 1 /\ ~Drained
<1>1. Cardinality(Queued(queue)) \in Nat
  BY QueuedFinite DEF TypeInv, TypeOK, RunTypeOK
<1>2. Cardinality(BusyWorkers) \in Nat /\ Cardinality(BusyWorkers) >= 1
  BY BusyCount DEF BusyWorkers
<1> QED
  BY <1>1, <1>2, AccountingParts

LEMMA WorkerKeepsAccounts ==
  ASSUME TypeInv, PoolAccounting, NEW w \in Workers, Worker(w)
  PROVE  PoolAccounting'
<1> USE DEF TypeInv, TypeOK, RunTypeOK, WorkerTypeOK, Goto, Release, Resting, Busy
<1> DEFINE queued == Cardinality(Queued(queue))
           busy == Cardinality(BusyWorkers)
<1>0. /\ queue \in Seq(Jobs \cup {NoJob}) /\ outstanding = queued + busy /\ queued \in Nat
      /\ busy \in Nat /\ (Drained => outstanding = 0)
  BY AccountingParts, QueuedFinite, BusyCount
<1>1. \A v \in Workers \ {w} : pc'[v] = pc[v]
  BY WorkerActsAlone
<1>2. SUFFICES /\ outstanding' = Cardinality(Queued(queue)') + Cardinality(BusyWorkers')
               /\ Drained' => outstanding' = 0
  BY DEF PoolAccounting, Drained, Queued, BusyWorkers
\* A busy worker that stays busy and leaves the pool's books alone.
<1>3. ASSUME UNCHANGED poolVars, Busy(w), pc'[w] \notin Resting
      PROVE  outstanding' = Cardinality(Queued(queue)') + Cardinality(BusyWorkers') /\ ~Drained'
  <2>1. BusyWorkers' = BusyWorkers \cup {w}
    BY <1>3, BusyMoves
  <2>2. ~Drained
    BY <1>3, BusyIsWork
  <2>3. ~Drained'
    BY <1>1, <1>3, <2>2 DEF Drained, poolVars
  <2> QED
    BY <1>0, <1>3, <2>1, <2>3, BusyCount DEF poolVars, Queued
\* A busy worker that stays busy and queues a job.
<1>4. ASSUME NEW j \in Jobs, enqueue(j), Busy(w), pc'[w] \notin Resting
      PROVE  outstanding' = Cardinality(Queued(queue)') + Cardinality(BusyWorkers') /\ ~Drained'
  <2>1. BusyWorkers' = BusyWorkers \cup {w}
    BY <1>4, BusyMoves
  <2>2. queue' = Append(queue, j) /\ outstanding' = outstanding + 1 /\ j # NoJob
    BY <1>4, FiniteAssumption DEF enqueue
  <2>3. Cardinality(Queued(queue)') = queued + 1
    BY <1>0, <2>2, AppendCount DEF Queued
  <2>4. ~Drained
    BY <1>4, BusyIsWork
  <2>5. \A i \in DOMAIN queue' : queue'[i] # NoJob
    BY <1>0, <2>2, <2>4, AppendFacts DEF Drained
  <2>6. ~Drained'
    BY <1>1, <1>4, <2>4, <2>5 DEF Drained
  <2>7. Cardinality(BusyWorkers') = busy
    BY <1>4, <2>1, BusyCount
  <2> HIDE DEF queued, busy
  <2> QED
    BY <1>0, <2>2, <2>3, <2>6, <2>7
\* A worker at work.get().
<1>5. ASSUME NEW j \in Jobs \cup {NoJob}, Get(j), UNCHANGED outstanding, pc[w] = "idle",
             IF j = NoJob THEN pc'[w] = "exited" ELSE pc'[w] \in {"taken", "finish"}
      PROVE  /\ outstanding' = Cardinality(Queued(queue)') + Cardinality(BusyWorkers')
             /\ Drained' => outstanding' = 0
  <2>1. queue # <<>> /\ j = Head(queue) /\ queue' = Tail(queue)
    BY <1>5 DEF Get
  <2>2. Cardinality(Queued(queue)') = IF j = NoJob THEN queued ELSE queued - 1
    BY <1>0, <2>1, TailCount DEF Queued
  <2>3. 1 \in DOMAIN queue /\ j = queue[1]
        /\ \A i \in DOMAIN queue' : i + 1 \in DOMAIN queue /\ queue'[i] = queue[i + 1]
    BY <1>0, <2>1, TailFacts
  <2>4. Drained' => Drained
    BY <1>1, <1>5, <2>3 DEF Drained
  <2>5. CASE j = NoJob
    <3>1. BusyWorkers' = BusyWorkers \ {w}
      BY <1>5, <2>5, BusyMoves
    <3> QED
      BY <1>0, <1>5, <2>2, <2>4, <2>5, <3>1, BusyCount
  <2>6. CASE j # NoJob
    <3>1. BusyWorkers' = BusyWorkers \cup {w}
      BY <1>5, <2>6, BusyMoves
    <3>2. Cardinality(BusyWorkers') = busy + 1
      BY <1>5, <3>1, BusyCount
    <3> HIDE DEF queued, busy
    <3> QED
      BY <1>0, <1>5, <2>2, <2>4, <2>6, <3>2
  <2> QED
    BY <2>5, <2>6
<1>6. CASE Take(w)
  BY <1>5, <1>6, FiniteAssumption DEF Take
<1>7. CASE Drop(w)
  BY <1>5, <1>7, FiniteAssumption DEF Drop
<1>8. CASE Exit(w)
  BY <1>5, <1>8 DEF Exit
<1>9. CASE Finish(w)
  <2>1. /\ Busy(w) /\ pc'[w] \in {"idle", "dead"} /\ outstanding' = outstanding - 1
        /\ queue' = IF outstanding' = 0 THEN queue \o Pills ELSE queue
    BY <1>9 DEF Finish
  <2>2. BusyWorkers' = BusyWorkers \ {w}
    BY <2>1, BusyMoves
  <2>3. ~Drained
    BY <2>1, BusyIsWork
  <2>4. Cardinality(Queued(queue)') = queued
    BY <1>0, <2>1, PillsCount DEF Queued
  <2>5. Drained' => outstanding' = 0
    BY <1>1, <2>1, <2>3 DEF Drained
  <2>6. Cardinality(BusyWorkers') = busy - 1
    BY <2>1, <2>2, BusyCount
  <2> HIDE DEF queued, busy
  <2> QED
    BY <1>0, <2>1, <2>4, <2>5, <2>6
<1>10. CASE Requeue(w)
  <2>1. job[w] \in Jobs
    BY <1>10 DEF Requeue, HandInv, HoldSteps, HoldsPending
  <2> QED
    BY <1>4, <1>10, <2>1 DEF Requeue
<1>11. CASE EnqueueChild(w)
  <2>1. PICK c \in todo[w] : enqueue(c)
    BY <1>11 DEF EnqueueChild
  <2>2. pc[w] = "enqueue" /\ pc'[w] \in {"enqueue", "finish", "raise"} /\ c \in Jobs
    <3>1. CASE UNCHANGED pc
      BY <1>11, <3>1 DEF EnqueueChild
    <3>2. CASE Release(w, after[w])
      BY <1>11, <3>2 DEF EnqueueChild
    <3> QED
      BY <1>11, <3>1, <3>2 DEF EnqueueChild
  <2> QED
    BY <1>4, <2>1, <2>2
<1>12. CASE Abort(w) \/ CacheHit(w) \/ SkipEmpty(w) \/ Proceed(w) \/ Launch(w) \/ Succeed(w)
  BY <1>3, <1>12 DEF Abort, CacheHit, SkipEmpty, Proceed, Launch, Succeed
<1>13. CASE Persist(w) \/ CachePut(w) \/ Throttle(w) \/ Retry(w) \/ MarkSubdivided(w)
  BY <1>3, <1>13 DEF Persist, CachePut, Throttle, Retry, MarkSubdivided
<1>14. CASE MarkDone(w) \/ Reject(w) \/ Fault(w)
  BY <1>3, <1>14 DEF MarkDone, Reject, Fault
<1>15. CASE Exhaust(w)
  BY <1>3, <1>15 DEF Exhaust
<1>16. CASE UpsertChild(w)
  BY <1>3, <1>16 DEF UpsertChild
<1>17. CASE GiveUp(w) \/ Trip(w)
  <2>1. after[w] \in {"finish", "raise"}
    OBVIOUS
  <2> QED
    BY <1>3, <1>17, <2>1 DEF GiveUp, Trip
<1> QED
  BY <1>6, <1>7, <1>8, <1>9, <1>10, <1>11, <1>12, <1>13, <1>14, <1>15, <1>16, <1>17
     DEF Worker, Process

\* A pool that is empty and at rest has nothing on its books.
LEMMA RestAccounts ==
  ASSUME queue = <<>>, outstanding = 0, \A w \in Workers : pc[w] = "off"
  PROVE  PoolAccounting
<1>1. Queued(queue) = {} /\ BusyWorkers = {} /\ ~Drained
  BY DEF Queued, BusyWorkers, Busy, Drained
<1> QED
  BY <1>1, FS_EmptySet, AccountingParts

LEMMA BeginAccounts ==
  ASSUME TypeInv, Begin
  PROVE  PoolAccounting'
<1> DEFINE claim == Claimable \cup Stale
<1>1. IsFiniteSet(claim) /\ claim \subseteq Jobs
  BY JobsFinite, FS_Subset DEF Claimable, Stale
<1>2. queue' = SetToSeq(claim) /\ outstanding' = Cardinality(claim)
  BY DEF Begin
<1>3. \A w \in Workers : pc'[w] \in {"off", "idle"}
  BY PoolEmpty DEF Begin
<1>4. BusyWorkers' = {}
  BY <1>3 DEF BusyWorkers, Busy
<1> HIDE DEF claim
<1>5. Cardinality(claim) \in Nat /\ NoJob \notin claim
  BY <1>1, FS_CardinalityType, FiniteAssumption
<1>6. /\ Cardinality(Queued(queue)') = outstanding'
      /\ \A i \in DOMAIN queue' : queue'[i] # NoJob
  BY <1>1, <1>2, <1>5, ClaimCount DEF Queued
<1>7. Cardinality(BusyWorkers') = 0
  BY <1>4, FS_EmptySet
<1>8. ~Drained'
  BY <1>3, <1>6 DEF Drained
<1> QED
  BY <1>2, <1>5, <1>6, <1>7, <1>8 DEF PoolAccounting, Drained, Queued, BusyWorkers

LEMMA SpecTypes == Spec => []TypeInv
BY InitTypeInv, NextTypeInv, PTL DEF Spec

\* The count of outstanding jobs is exact at every step, faults that kill their
\* worker included: the pills come when, and only when, there is no work left.
THEOREM PoolIsAccounted == Spec => []PoolAccounting
<1>1. Init => PoolAccounting
  BY RestAccounts DEF Init
<1>2. TypeInv /\ PoolAccounting /\ [Next]_vars => PoolAccounting'
  <2> SUFFICES ASSUME TypeInv, PoolAccounting, [Next]_vars
               PROVE  PoolAccounting'
    OBVIOUS
  <2>1. CASE Begin
    BY <2>1, BeginAccounts
  <2>2. ASSUME ProcessGone
        PROVE  PoolAccounting'
    <3>1. queue' = <<>> /\ outstanding' = 0 /\ \A w \in Workers : pc'[w] = "off"
      BY <2>2 DEF ProcessGone
    <3>2. Queued(queue)' = {} /\ BusyWorkers' = {} /\ ~Drained'
      BY <3>1 DEF Queued, BusyWorkers, Busy, Drained
    <3>3. Cardinality(Queued(queue)') = 0 /\ Cardinality(BusyWorkers') = 0
      BY <3>2, FS_EmptySet
    <3> QED
      BY <3>1, <3>2, <3>3 DEF PoolAccounting, Queued, BusyWorkers, Drained
  <2>3. CASE Return \/ Crash
    BY <2>2, <2>3 DEF Return, Crash
  <2>4. CASE Plan \/ Cancel \/ Idle \/ UNCHANGED vars
    BY <2>4 DEF Plan, Cancel, Idle, vars, poolVars, PoolAccounting, Busy
  <2>5. ASSUME NEW w \in Workers, Worker(w) PROVE PoolAccounting'
    BY <2>5, WorkerKeepsAccounts
  <2> QED
    BY <2>1, <2>3, <2>4, <2>5 DEF Next
<1> QED
  BY <1>1, <1>2, SpecTypes, PTL DEF Spec

-----------------------------------------------------------------------------
(* The ledger and the pool.                                                *)

\* What a worker does to the rows: failed and rejected ones are left alone, and
\* unless it dies of a fault it lets no job go while its row is in flight.
SettledKept == \A j \in Jobs : state[j] \in {"failed", "permanent"} => state'[j] = state[j]
InFlightKept(w) ==
  \A j \in Jobs : state'[j] = "in_flight" => job'[w] = j \/ (state[j] = "in_flight" /\ job[w] # j)

LEMMA WorkerKeepsSettled ==
  ASSUME OwnershipInv, NEW w \in Workers, Worker(w)
  PROVE  SettledKept /\ ("fault" \notin Outcomes => InFlightKept(w))
<1> USE DEF StoreTypeOK, WorkerTypeOK, Goto, Release, Mark, ledgerVars, localVars,
            SettledKept, InFlightKept
<1>0. /\ StoreTypeOK /\ WorkerTypeOK
      /\ pc[w] \in HoldSteps => job[w] \in Jobs
      /\ pc[w] \in HoldsPending => state[job[w]] = "pending"
      /\ pc[w] \in HoldsInFlight => state[job[w]] = "in_flight"
      /\ pc[w] = "put" => state[job[w]] = "done"
      /\ pc[w] = "enqueue" => state[job[w]] = "subdivided"
      /\ pc[w] = "trip" => state[job[w]] = "failed"
      /\ pc[w] = "trip_syntax" => state[job[w]] = "permanent"
      /\ pc[w] \notin HoldSteps => job[w] = NoJob
      /\ NoJob \notin Jobs
  BY FiniteAssumption DEF OwnershipInv, TypeInv, TypeOK, HandInv, RowInv
<1>1. ASSUME state' = state, job'[w] = job[w] \/ job[w] \notin Jobs \/ state[job[w]] # "in_flight"
      PROVE  SettledKept /\ InFlightKept(w)
  BY <1>1
<1>2. ASSUME pc[w] \in HoldsPending \cup HoldsInFlight, NEW s, Mark(job[w], s),
             s # "in_flight" \/ job'[w] = job[w]
      PROVE  SettledKept /\ InFlightKept(w)
  BY <1>0, <1>2 DEF HoldSteps
<1>3. CASE Abort(w)
  <2>1. pc[w] \in HoldsPending /\ Mark(job[w], "permanent")
    BY <1>3 DEF Abort, HoldsPending
  <2> QED
    BY <1>2, <2>1
<1>4. CASE CacheHit(w) \/ SkipEmpty(w) \/ Launch(w)
  <2>1. pc[w] \in HoldsPending /\ Mark(job[w], "in_flight") /\ job' = job
    BY <1>4 DEF CacheHit, SkipEmpty, Launch, MarkInFlight, HoldsPending
  <2> QED
    BY <1>2, <2>1
<1>5. CASE MarkDone(w)
  <2>1. pc[w] \in HoldsInFlight /\ Mark(job[w], "done")
    BY <1>5 DEF MarkDone, HoldsInFlight
  <2> QED
    BY <1>2, <2>1
<1>6. CASE Throttle(w) \/ Retry(w)
  <2>1. pc[w] \in HoldsInFlight /\ Mark(job[w], "pending")
    BY <1>6 DEF Throttle, Retry, HoldsInFlight
  <2> QED
    BY <1>2, <2>1
<1>7. CASE Reject(w)
  <2>1. pc[w] \in HoldsInFlight /\ Mark(job[w], "permanent")
    BY <1>7 DEF Reject, HoldsInFlight
  <2> QED
    BY <1>2, <2>1
<1>8. CASE GiveUp(w)
  <2>1. pc[w] \in HoldsInFlight /\ Mark(job[w], "failed")
    BY <1>8 DEF GiveUp, HoldsInFlight
  <2> QED
    BY <1>2, <2>1
<1>9. CASE MarkSubdivided(w)
  <2>1. pc[w] \in HoldsInFlight /\ Mark(job[w], "subdivided")
    BY <1>9 DEF MarkSubdivided, HoldsInFlight
  <2> QED
    BY <1>2, <2>1
<1>10. CASE UpsertChild(w)
  BY <1>0, <1>10 DEF UpsertChild, Upsert
<1>11. CASE Fault(w)
  BY <1>11 DEF Fault
<1>12. CASE Take(w)
  <2>1. state' = state /\ job[w] = NoJob
    BY <1>0, <1>12 DEF Take, HoldSteps, HoldsPending, HoldsInFlight, HoldsSettled
  <2> QED
    BY <1>0, <1>1, <2>1
<1>13. CASE Drop(w) \/ Exit(w) \/ Finish(w) \/ Proceed(w) \/ Succeed(w) \/ Persist(w) \/ Exhaust(w)
  BY <1>1, <1>13 DEF Drop, Exit, Finish, Proceed, Succeed, Persist, Exhaust
<1>14. CASE CachePut(w) \/ Requeue(w) \/ Trip(w)
  <2>1. state' = state /\ state[job[w]] # "in_flight"
    BY <1>0, <1>14 DEF CachePut, Requeue, Trip, HoldsPending
  <2> QED
    BY <1>1, <2>1
<1>15. CASE EnqueueChild(w)
  <2>1. state' = state /\ state[job[w]] # "in_flight"
    BY <1>0, <1>15 DEF EnqueueChild
  <2> QED
    BY <1>1, <2>1
<1> QED
  BY <1>3, <1>4, <1>5, <1>6, <1>7, <1>8, <1>9, <1>10, <1>11, <1>12, <1>13, <1>14, <1>15
     DEF Worker, Process

\* An in-flight row is in some worker's hands.
HeldInv ==
  phase = "running" => \A j \in Jobs : state[j] = "in_flight" => \E w \in Workers : job[w] = j

LEMMA NextHeld ==
  ASSUME "fault" \notin Outcomes, OwnershipInv, HeldInv, [Next]_vars
  PROVE  HeldInv'
<1>1. ASSUME NEW w \in Workers, Worker(w)
      PROVE  HeldInv'
  <2>1. \A v \in Workers \ {w} : job'[v] = job[v]
    BY <1>1, WorkerActsAlone DEF OwnershipInv
  <2>2. phase' = phase
    BY <1>1 DEF Worker, Process, runVars, Take, Drop, Exit, Finish, Abort, CacheHit,
       SkipEmpty, Proceed, Launch, Succeed, Persist, MarkDone, CachePut, Throttle, Reject, Retry,
       Requeue, Exhaust, UpsertChild, MarkSubdivided, EnqueueChild, GiveUp, Trip, Fault
  <2> QED
    BY <1>1, <2>1, <2>2, WorkerKeepsSettled DEF HeldInv, InFlightKept
<1>2. CASE Begin
  BY <1>2 DEF Begin, HeldInv, Claimable, Stale
<1>3. CASE Plan \/ Return \/ Crash
  BY <1>3 DEF Plan, Return, Crash, ProcessGone, HeldInv
<1>4. CASE Cancel \/ Idle \/ UNCHANGED vars
  BY <1>4 DEF Cancel, Idle, vars, ledgerVars, HeldInv
<1> QED
  BY <1>1, <1>2, <1>3, <1>4 DEF Next

\* While the pool runs a queued job is pending and an in-flight row is held,
\* unless a worker died of an error that no handler catches.
THEOREM LedgerTellsThePool ==
  ASSUME Crashes # "anywhere", "fault" \notin Outcomes
  PROVE  Spec => []LedgerMatchesPool
<1>1. Init => HeldInv
  BY DEF Init, HeldInv
<1>2. OwnershipInv /\ HeldInv /\ [Next]_vars => HeldInv'
  BY NextHeld
<1>3. OwnershipInv /\ HeldInv => LedgerMatchesPool
  BY DEF OwnershipInv, QueueInv, HeldInv, LedgerMatchesPool
<1> QED
  BY <1>1, <1>2, <1>3, SpecOwnership, PTL DEF Spec

-----------------------------------------------------------------------------
(* The circuit breakers.                                                   *)

LEMMA TripHasCause ==
  ASSUME OwnershipInv, NEW w \in Workers, Trip(w)
  PROVE  /\ UNCHANGED state /\ job[w] \in Jobs
         /\ broken' = [broken EXCEPT ![QueryOf(job[w])] =
                         IF pc[w] = "trip_syntax" THEN "syntax" ELSE "exhausted"]
         /\ state[job[w]] = IF pc[w] = "trip_syntax" THEN "permanent" ELSE "failed"
BY DEF Trip, ledgerVars, OwnershipInv, TypeInv, TypeOK, WorkerTypeOK, HandInv, RowInv, HoldSteps,
   HoldsSettled

LEMMA WorkerKeepsCause ==
  ASSUME OwnershipInv, BreakerHasCause, NEW w \in Workers, Worker(w)
  PROVE  BreakerHasCause'
<1>1. broken \in [Queries -> {"no", "syntax", "exhausted"}]
  BY DEF OwnershipInv, TypeInv, TypeOK, RunTypeOK
<1>2. \A q \in Queries, v \in Windows :
        state[<<q, v>>] \in {"failed", "permanent"} => state'[<<q, v>>] = state[<<q, v>>]
  BY WorkerKeepsSettled DEF SettledKept, Jobs
<1>3. CASE broken' = broken
  BY <1>2, <1>3 DEF BreakerHasCause
<1>4. CASE Trip(w)
  <2>1. PICK p \in Queries, z \in Windows : job[w] = <<p, z>>
    BY <1>4, TripHasCause DEF Jobs
  <2>2. /\ broken' = [broken EXCEPT ![p] = IF pc[w] = "trip_syntax" THEN "syntax" ELSE "exhausted"]
        /\ state'[<<p, z>>] = IF pc[w] = "trip_syntax" THEN "permanent" ELSE "failed"
    BY <1>4, <2>1, TripHasCause DEF QueryOf
  <2>3. ASSUME NEW q \in Queries
        PROVE  /\ broken'[q] = "syntax" => \E v \in Windows : state'[<<q, v>>] = "permanent"
               /\ broken'[q] = "exhausted" => \E v \in Windows : state'[<<q, v>>] = "failed"
    <3>1. CASE q = p
      BY <1>1, <2>1, <2>2, <3>1
    <3>2. CASE q # p
      <4>1. broken'[q] = broken[q]
        BY <1>1, <2>2, <3>2
      <4>2. ASSUME broken[q] = "syntax"
            PROVE  \E v \in Windows : state'[<<q, v>>] = "permanent"
        <5>1. PICK v \in Windows : state[<<q, v>>] = "permanent"
          BY <4>2 DEF BreakerHasCause
        <5> QED
          BY <1>2, <5>1
      <4>3. ASSUME broken[q] = "exhausted"
            PROVE  \E v \in Windows : state'[<<q, v>>] = "failed"
        <5>1. PICK v \in Windows : state[<<q, v>>] = "failed"
          BY <4>3 DEF BreakerHasCause
        <5> QED
          BY <1>2, <5>1
      <4> QED
        BY <4>1, <4>2, <4>3
    <3> QED
      BY <3>1, <3>2
  <2> QED
    BY <2>3 DEF BreakerHasCause
<1>5. Trip(w) \/ broken' = broken
  BY DEF Worker, Process, Take, Drop, Exit, Finish, Abort, CacheHit, SkipEmpty, Proceed, Launch,
     Succeed, Persist, MarkDone, CachePut, Throttle, Reject, Retry, Requeue, Exhaust, UpsertChild,
     MarkSubdivided, EnqueueChild, GiveUp, Fault
<1> QED
  BY <1>3, <1>4, <1>5

\* A query is cut off only with the cause on record: a rejected row when its
\* breaker says syntax, a failed one when it says exhausted.
THEOREM BreakersHaveCauses ==
  ASSUME Crashes # "anywhere"
  PROVE  Spec => []BreakerHasCause
<1>1. Init => BreakerHasCause
  BY DEF Init, BreakerHasCause
<1>2. OwnershipInv /\ BreakerHasCause /\ [Next]_vars => BreakerHasCause'
  <2> SUFFICES ASSUME OwnershipInv, BreakerHasCause, [Next]_vars
               PROVE  BreakerHasCause'
    OBVIOUS
  <2>1. CASE Begin \/ Return \/ Crash
    <3>1. broken' = [q \in Queries |-> "no"]
      BY <2>1 DEF Begin, Return, Crash, ProcessGone
    <3>2. \A q \in Queries : broken'[q] = "no"
      BY <3>1
    <3> QED
      BY <3>2 DEF BreakerHasCause
  <2>2. CASE Plan
    <3>1. \A q \in Queries, v \in Windows :
            state[<<q, v>>] # "absent" => state'[<<q, v>>] = state[<<q, v>>]
      BY <2>2 DEF Plan, Upsert, Jobs
    <3> QED
      BY <2>2, <3>1 DEF Plan, BreakerHasCause
  <2>3. CASE Cancel \/ Idle \/ UNCHANGED vars
    BY <2>3 DEF Cancel, Idle, vars, ledgerVars, BreakerHasCause
  <2>4. ASSUME NEW w \in Workers, Worker(w) PROVE BreakerHasCause'
    BY <2>4, WorkerKeepsCause
  <2> QED
    BY <2>1, <2>2, <2>3, <2>4 DEF Next
<1> QED
  BY <1>1, <1>2, SpecOwnership, PTL DEF Spec

-----------------------------------------------------------------------------
(* A run that returns.                                                     *)

\* No worker dies of an exception.
AliveInv == \A w \in Workers : after[w] = "finish" /\ pc[w] \notin {"raise", "dead"}

\* A pending job has somebody who will run it or put it in the queue.
Expected(j) ==
  \/ \E i \in DOMAIN queue : queue[i] = j
  \/ \E w \in Workers :
       \/ job[w] = j
       \/ Splitting(w) /\ j \in Children(job[w])
       \/ pc[w] = "enqueue" /\ j \in todo[w]

\* While the pool runs uncancelled, every pending job is expected by somebody.
WaitInv ==
  phase = "running" /\ cancel = "clear" => \A j \in Jobs : state[j] = "pending" => Expected(j)

\* What a run that has returned promises holds until the pool runs again.
QuietInv ==
  phase # "running" =>
    /\ status \in {"complete", "incomplete", "cancelled"} => \A j \in Jobs : state[j] # "in_flight"
    /\ status \in {"complete", "incomplete"} => \A j \in Jobs : state[j] # "pending"

\* Without faults and wall timeouts no step sends a worker to its death.
LEMMA NextAlive ==
  ASSUME Outcomes \cap {"fault", "timeout"} = {}, TypeInv, AliveInv, [Next]_vars
  PROVE  AliveInv'
<1> USE DEF AliveInv, Goto, Release, localVars
<1>1. ASSUME NEW w \in Workers, Worker(w) PROVE AliveInv'
  <2>1. WorkerTypeOK
    BY DEF TypeInv, TypeOK
  <2>2. CASE Take(w) \/ Drop(w) \/ Exit(w) \/ Finish(w)
    BY <2>1, <2>2 DEF WorkerTypeOK, Take, Drop, Exit, Finish
  <2>3. CASE Abort(w) \/ CacheHit(w) \/ SkipEmpty(w) \/ Proceed(w) \/ Launch(w)
    BY <2>1, <2>3 DEF WorkerTypeOK, Abort, CacheHit, SkipEmpty, Proceed, Launch
  <2>4. CASE Succeed(w) \/ Persist(w) \/ MarkDone(w) \/ CachePut(w)
    BY <2>1, <2>4 DEF WorkerTypeOK, Succeed, Persist, MarkDone, CachePut
  <2>5. CASE Throttle(w) \/ Reject(w) \/ Retry(w) \/ Requeue(w)
    BY <2>1, <2>5 DEF WorkerTypeOK, Throttle, Reject, Retry, Requeue
  <2>6. CASE Exhaust(w) \/ UpsertChild(w) \/ MarkSubdivided(w) \/ EnqueueChild(w)
    BY <2>1, <2>6 DEF WorkerTypeOK, Exhaust, UpsertChild, MarkSubdivided, EnqueueChild
  <2>7. CASE GiveUp(w) \/ Trip(w)
    BY <2>1, <2>7 DEF WorkerTypeOK, GiveUp, Trip
  <2>8. ~Fault(w)
    BY DEF Fault
  <2> QED
    BY <1>1, <2>2, <2>3, <2>4, <2>5, <2>6, <2>7, <2>8 DEF Worker, Process
<1>2. CASE Plan \/ Cancel \/ Idle \/ UNCHANGED vars
  BY <1>2 DEF Plan, Cancel, Idle, vars
<1>3. CASE Begin
  BY <1>3 DEF Begin
<1>4. CASE Return \/ Crash
  BY <1>4 DEF Return, Crash, ProcessGone
<1> QED
  BY <1>1, <1>2, <1>3, <1>4 DEF Next

\* Neither taking from the queue nor adding to it forgets another job in it.
LEMMA QueueRemembers ==
  ASSUME TypeInv, NEW j \in Jobs, NEW i \in DOMAIN queue, queue[i] = j,
         \/ \E x \in Jobs \cup {NoJob} : queue' = Append(queue, x)
         \/ \E s \in Seq({NoJob}) : queue' = queue \o s
         \/ queue' = Tail(queue) /\ Head(queue) # j
  PROVE  \E k \in DOMAIN queue' : queue'[k] = j
<1>1. queue \in Seq(Jobs \cup {NoJob})
  BY DEF TypeInv, TypeOK, RunTypeOK
<1>2. ASSUME NEW x \in Jobs \cup {NoJob}, queue' = Append(queue, x)
      PROVE  \E k \in DOMAIN queue' : queue'[k] = j
  <2>1. i \in DOMAIN queue' /\ queue'[i] = j
    BY <1>1, <1>2
  <2> QED
    BY <2>1
<1>3. ASSUME NEW s \in Seq({NoJob}), queue' = queue \o s
      PROVE  \E k \in DOMAIN queue' : queue'[k] = j
  <2>1. i \in DOMAIN queue' /\ queue'[i] = j
    BY <1>1, <1>3
  <2> QED
    BY <2>1
<1>4. ASSUME queue' = Tail(queue), Head(queue) # j
      PROVE  \E k \in DOMAIN queue' : queue'[k] = j
  <2>1. i # 1
    BY <1>1, <1>4
  <2>2. i - 1 \in DOMAIN queue' /\ queue'[i - 1] = j
    BY <1>1, <1>4, <2>1
  <2> QED
    BY <2>2
<1> QED
  BY <1>2, <1>3, <1>4

\* No step of a worker strands a pending job: put back, split or requeued, it
\* stays in the queue or in the hands of the worker that will queue it.
LEMMA WorkerKeepsWait ==
  ASSUME "fault" \notin Outcomes, OwnershipInv, WaitInv, NEW w \in Workers, Worker(w)
  PROVE  WaitInv'
<1>0. /\ TypeInv /\ StoreTypeOK /\ WorkerTypeOK /\ queue \in Seq(Jobs \cup {NoJob})
      /\ pc[w] \in HoldSteps => job[w] \in Jobs
      /\ pc[w] \in HoldsPending => state[job[w]] = "pending"
      /\ pc[w] \in HoldsInFlight => state[job[w]] = "in_flight"
      /\ pc[w] = "put" => state[job[w]] = "done"
      /\ pc[w] = "enqueue" => state[job[w]] = "subdivided"
      /\ pc[w] = "trip" => state[job[w]] = "failed"
      /\ pc[w] = "trip_syntax" => state[job[w]] = "permanent"
      /\ pc[w] \notin HoldSteps => job[w] = NoJob
      /\ NoJob \notin Jobs
  <2>1. /\ TypeInv /\ StoreTypeOK /\ WorkerTypeOK /\ queue \in Seq(Jobs \cup {NoJob})
        /\ RowInv /\ HandInv
    BY DEF OwnershipInv, TypeInv, TypeOK, RunTypeOK
  <2>2. job[w] \in Jobs \cup {NoJob} /\ (job[w] # NoJob <=> pc[w] \in HoldSteps)
    BY <2>1 DEF WorkerTypeOK, HandInv
  <2> QED
    BY <2>1, <2>2, FiniteAssumption DEF RowInv
<1>1. \A v \in Workers \ {w} : pc'[v] = pc[v] /\ job'[v] = job[v] /\ todo'[v] = todo[v]
  BY <1>0, WorkerActsAlone
<1>2. phase' = phase /\ cancel' = cancel
  BY DEF Worker, Process, runVars, Take, Drop, Exit, Finish, Abort, CacheHit, SkipEmpty, Proceed,
     Launch, Succeed, Persist, MarkDone, CachePut, Throttle, Reject, Retry, Requeue, Exhaust,
     UpsertChild, MarkSubdivided, EnqueueChild, GiveUp, Trip, Fault
<1> SUFFICES ASSUME cancel = "clear", NEW j \in Jobs, state'[j] = "pending",
                    state[j] = "pending" => Expected(j)
             PROVE  Expected(j)'
  BY <1>2 DEF WaitInv
<1> DEFINE InQueue == \E i \in DOMAIN queue : queue[i] = j
           WithMe == \/ job[w] = j
                     \/ Splitting(w) /\ j \in Children(job[w])
                     \/ pc[w] = "enqueue" /\ j \in todo[w]
<1>3. (InQueue \/ WithMe)' => Expected(j)'
  BY DEF Expected
<1>4. state[j] = "pending" => Expected(j)' \/ InQueue \/ WithMe
  <2>1. ASSUME NEW v \in Workers \ {w},
               job[v] = j \/ (Splitting(v) /\ j \in Children(job[v])) \/ (pc[v] = "enqueue" /\ j \in todo[v])
        PROVE  Expected(j)'
    <3>1. pc'[v] = pc[v] /\ job'[v] = job[v] /\ todo'[v] = todo[v]
      BY <1>1
    <3>2. Children(job[v])' = Children(job[v]) /\ Splitting(v)' = Splitting(v)
      BY <3>1 DEF Children, QueryOf, WindowOf, Splitting
    <3> QED
      BY <2>1, <3>1, <3>2 DEF Expected
  <2> QED
    BY <2>1 DEF Expected
<1>5. ASSUME state' = state \/ \E s \in States : Mark(job[w], s) /\ s # "pending", queue' = queue,
             WithMe => WithMe' \/ (job[w] = j /\ state'[j] # "pending")
      PROVE  Expected(j)'
  <2>1. state[j] = "pending"
    BY <1>0, <1>5 DEF Mark, StoreTypeOK
  <2> QED
    BY <1>3, <1>4, <1>5, <2>1
<1>6. CASE Take(w)
  <2>1. PICK x \in Jobs : Get(x) /\ job' = [job EXCEPT ![w] = x]
    BY <1>6 DEF Take
  <2>2. state[j] = "pending" /\ pc[w] = "idle" /\ job'[w] = x /\ queue' = Tail(queue) /\ Head(queue) = x
    BY <1>0, <1>6, <2>1 DEF Take, Goto, Get, ledgerVars, WorkerTypeOK
  <2>3. ~WithMe
    BY <1>0, <2>2 DEF HoldSteps, HoldsPending, HoldsInFlight, HoldsSettled, Splitting
  <2>4. InQueue => (InQueue \/ WithMe)'
    BY <1>0, <2>2, QueueRemembers
  <2> QED
    BY <1>3, <1>4, <2>2, <2>3, <2>4
<1>7. CASE Exit(w)
  <2>1. state[j] = "pending" /\ pc[w] = "idle" /\ queue' = Tail(queue) /\ Head(queue) = NoJob
    BY <1>0, <1>7 DEF Exit, Goto, Get, ledgerVars
  <2>2. ~WithMe
    BY <1>0, <2>1 DEF HoldSteps, HoldsPending, HoldsInFlight, HoldsSettled, Splitting
  <2>3. InQueue => InQueue'
    BY <1>0, <2>1, QueueRemembers
  <2> QED
    BY <1>3, <1>4, <2>1, <2>2, <2>3
<1>8. CASE Finish(w)
  <2>1. state[j] = "pending" /\ pc[w] \in {"finish", "raise"} /\ Pills \in Seq({NoJob})
        /\ (queue' = queue \/ queue' = queue \o Pills)
    <3>1. Cardinality(Workers) \in Nat
      BY FiniteAssumption, FS_CardinalityType
    <3> QED
      BY <1>8, <3>1 DEF Finish, Goto, ledgerVars, Pills
  <2>2. ~WithMe
    BY <1>0, <2>1 DEF HoldSteps, HoldsPending, HoldsInFlight, HoldsSettled, Splitting
  <2>3. InQueue => InQueue'
    BY <1>0, <2>1, QueueRemembers
  <2> QED
    BY <1>3, <1>4, <2>1, <2>2, <2>3
<1>9. CASE Requeue(w)
  <2>1. state' = state /\ queue' = Append(queue, job[w]) /\ pc[w] = "requeue" /\ job[w] \in Jobs
    BY <1>0, <1>9 DEF Requeue, enqueue, ledgerVars, HoldSteps, HoldsPending
  <2>2. WithMe => job[w] = j
    BY <2>1 DEF Splitting
  <2>3. InQueue \/ job[w] = j => InQueue'
    <3>1. Len(queue) + 1 \in DOMAIN queue' /\ queue'[Len(queue) + 1] = job[w]
      BY <1>0, <2>1
    <3> QED
      BY <1>0, <2>1, <3>1, QueueRemembers
  <2> QED
    BY <1>3, <1>4, <2>1, <2>2, <2>3
<1>10. CASE EnqueueChild(w)
  <2>1. PICK c \in todo[w] : /\ queue' = Append(queue, c)
                             /\ \/ todo' = [todo EXCEPT ![w] = @ \ {c}] /\ pc' = pc
                                \/ todo[w] = {c}
    BY <1>10 DEF EnqueueChild, enqueue
  <2>2. state' = state /\ pc[w] = "enqueue" /\ job[w] # j /\ c \in Jobs
    BY <1>0, <1>10 DEF EnqueueChild, ledgerVars, WorkerTypeOK
  <2>3. InQueue \/ c = j => InQueue'
    <3>1. Len(queue) + 1 \in DOMAIN queue' /\ queue'[Len(queue) + 1] = c
      BY <1>0, <2>1
    <3> QED
      BY <1>0, <2>1, <2>2, <3>1, QueueRemembers
  <2>4. WithMe => j \in todo[w]
    BY <2>2 DEF Splitting
  <2>5. j \in todo[w] /\ j # c => WithMe'
    BY <1>0, <2>1, <2>2 DEF WorkerTypeOK
  <2> QED
    BY <1>3, <1>4, <2>2, <2>3, <2>4, <2>5
<1>11. CASE UpsertChild(w)
  <2>1. PICK c \in todo[w] : Upsert({c})
    BY <1>11 DEF UpsertChild
  <2>2. /\ pc[w] = "split" /\ Splitting(w)' /\ job'[w] = job[w] /\ queue' = queue
        /\ c \in Children(job[w])
    BY <1>0, <1>11, <2>1
       DEF UpsertChild, Goto, poolVars, Splitting, WorkerTypeOK, OwnershipInv, SplitInv, SplitInvOf
  <2>3. state[j] = "pending" \/ j = c
    BY <1>0, <2>1 DEF Upsert
  <2>4. WithMe \/ j = c => WithMe'
    BY <2>2 DEF Splitting
  <2> QED
    BY <1>3, <1>4, <2>2, <2>3, <2>4
<1>12. CASE MarkSubdivided(w)
  <2>1. /\ Mark(job[w], "subdivided") /\ queue' = queue
        /\ pc'[w] = "enqueue" /\ todo'[w] = Children(job[w]) /\ pc[w] = "subdivide" /\ job[w] \in Jobs
    BY <1>0, <1>12
       DEF MarkSubdivided, Goto, poolVars, WorkerTypeOK, HoldSteps, HoldsInFlight
  <2>2. state'[job[w]] # "pending"
    BY <1>0, <2>1 DEF Mark, StoreTypeOK
  <2>3. WithMe => WithMe' \/ (job[w] = j /\ state'[j] # "pending")
    BY <2>1, <2>2
  <2> QED
    BY <1>5, <2>1, <2>3 DEF States
<1>13. CASE Throttle(w) \/ Retry(w)
  <2>1. /\ Mark(job[w], "pending") /\ queue' = queue /\ job' = job /\ pc[w] = "running"
    BY <1>13 DEF Throttle, Retry, Goto, poolVars
  <2>2. state[j] = "pending" \/ job[w] = j
    BY <1>0, <2>1 DEF Mark, StoreTypeOK
  <2>3. WithMe => job[w] = j
    BY <2>1 DEF Splitting
  <2> QED
    BY <1>3, <1>4, <2>1, <2>2, <2>3
<1>14. CASE CacheHit(w) \/ SkipEmpty(w) \/ Launch(w)
  <2>1. /\ Mark(job[w], "in_flight") /\ queue' = queue /\ job' = job /\ pc[w] \in {"taken", "slot"}
    BY <1>14 DEF CacheHit, SkipEmpty, Launch, MarkInFlight, Goto, poolVars
  <2> QED
    BY <1>5, <2>1 DEF States, Splitting
<1>15. CASE Abort(w) \/ Reject(w)
  <2>1. /\ Mark(job[w], "permanent") /\ queue' = queue /\ pc[w] \in {"taken", "running"} /\ job[w] \in Jobs
    BY <1>0, <1>15 DEF Abort, Reject, Goto, poolVars, HoldSteps, HoldsPending, HoldsInFlight
  <2>2. state'[job[w]] # "pending"
    BY <1>0, <2>1 DEF Mark, StoreTypeOK
  <2> QED
    BY <1>5, <2>1, <2>2 DEF States, Splitting
<1>16. CASE MarkDone(w)
  <2>1. /\ Mark(job[w], "done") /\ queue' = queue /\ pc[w] \in {"served", "mark"} /\ job[w] \in Jobs
    BY <1>0, <1>16 DEF MarkDone, Goto, poolVars, HoldSteps, HoldsInFlight
  <2>2. state'[job[w]] # "pending"
    BY <1>0, <2>1 DEF Mark, StoreTypeOK
  <2> QED
    BY <1>5, <2>1, <2>2 DEF States, Splitting
<1>17. CASE GiveUp(w)
  <2>1. /\ Mark(job[w], "failed") /\ queue' = queue /\ pc[w] = "giveup" /\ job[w] \in Jobs
    BY <1>0, <1>17 DEF GiveUp, Goto, poolVars, HoldSteps, HoldsInFlight
  <2>2. state'[job[w]] # "pending"
    BY <1>0, <2>1 DEF Mark, StoreTypeOK
  <2> QED
    BY <1>5, <2>1, <2>2 DEF States, Splitting
<1>18. CASE CachePut(w) \/ Trip(w)
  <2>1. /\ state' = state /\ queue' = queue /\ pc[w] \in {"put", "trip", "trip_syntax"}
        /\ state[job[w]] # "pending"
    BY <1>0, <1>18 DEF CachePut, Trip, ledgerVars, poolVars
  <2> QED
    BY <1>5, <2>1 DEF Splitting
<1>19. CASE Proceed(w) \/ Succeed(w) \/ Persist(w)
  <2>1. /\ state' = state /\ queue' = queue /\ job' = job
        /\ pc[w] \in {"taken", "running", "serve", "persist"}
    BY <1>19 DEF Proceed, Succeed, Persist, Goto, ledgerVars, poolVars
  <2> QED
    BY <1>5, <2>1 DEF Splitting
<1>20. CASE Exhaust(w)
  <2>1. state' = state /\ queue' = queue /\ job' = job /\ pc[w] = "running"
    BY <1>20 DEF Exhaust, Goto, ledgerVars, poolVars
  <2> QED
    BY <1>5, <2>1 DEF Splitting
<1>21. ~Drop(w) /\ ~Fault(w)
  BY DEF Drop, Fault
<1> QED
  BY <1>6, <1>7, <1>8, <1>9, <1>10, <1>11, <1>12, <1>13, <1>14, <1>15, <1>16, <1>17, <1>18,
     <1>19, <1>20, <1>21 DEF Worker, Process

\* The queue built from a claimed set holds every member of the set.
LEMMA ClaimCovers ==
  ASSUME NEW S, IsFiniteSet(S), NEW x \in S
  PROVE  \E i \in DOMAIN SetToSeq(S) : SetToSeq(S)[i] = x
<1>1. Cardinality(S) \in Nat /\ ExistsBijection(1..Cardinality(S), S)
  BY FS_CardinalityType
<1>2. \E f \in [1..Cardinality(S) -> S] : IsInjective(f)
  BY <1>1 DEF ExistsBijection, Bijection, Injection, IsInjective
<1>3. SetToSeq(S) \in [1..Cardinality(S) -> S] /\ IsInjective(SetToSeq(S))
  BY <1>2 DEF SetToSeq
<1>4. SetToSeq(S) \in Injection(1..Cardinality(S), S)
  BY <1>3 DEF Injection, IsInjective
<1>5. Cardinality(1..Cardinality(S)) = Cardinality(S)
  <2>1. \A n \in Nat : Cardinality(1..n) = n
    BY FS_Interval
  <2> QED
    BY <1>1, <2>1
<1>6. SetToSeq(S) \in Surjection(1..Cardinality(S), S)
  BY <1>4, <1>5, FS_Injection
<1> QED
  BY <1>3, <1>6 DEF Surjection

\* Every step keeps pending jobs expected; the pool starts with all of them queued.
LEMMA NextWait ==
  ASSUME "fault" \notin Outcomes, OwnershipInv, WaitInv, [Next]_vars
  PROVE  WaitInv'
<1>1. CASE Begin
  <2> DEFINE claim == Claimable \cup Stale
  <2>1. /\ queue' = SetToSeq(claim)
        /\ state' = [j \in Jobs |-> IF j \in claim THEN "pending" ELSE state[j]]
    BY <1>1 DEF Begin
  <2>2. IsFiniteSet(claim)
    BY JobsFinite, FS_Subset DEF Claimable, Stale
  <2>3. ASSUME NEW j \in Jobs, state'[j] = "pending" PROVE Expected(j)'
    <3>1. j \in claim
      BY <2>1, <2>3 DEF Claimable
    <3>2. \E i \in DOMAIN queue' : queue'[i] = j
      BY <2>1, <2>2, <3>1, ClaimCovers
    <3> QED
      BY <3>2 DEF Expected
  <2> QED
    BY <2>3 DEF WaitInv
<1>2. CASE Plan \/ Return \/ Crash
  BY <1>2 DEF Plan, Return, Crash, ProcessGone, WaitInv
<1>3. CASE Cancel
  BY <1>3 DEF Cancel, WaitInv
<1>4. CASE Idle \/ UNCHANGED vars
  BY <1>4 DEF Idle, vars, WaitInv, Expected, Splitting
<1>5. ASSUME NEW w \in Workers, Worker(w) PROVE WaitInv'
  BY <1>5, WorkerKeepsWait
<1> QED
  BY <1>1, <1>2, <1>3, <1>4, <1>5 DEF Next

\* When every thread is gone, nothing is held, and unless cancelled nothing waits.
LEMMA ReturnIsQuiet ==
  ASSUME OwnershipInv, PoolAccounting, HeldInv, WaitInv, AliveInv, Return
  PROVE  /\ \A j \in Jobs : state[j] # "in_flight"
         /\ cancel = "clear" => \A j \in Jobs : state[j] # "pending"
<1>1. /\ TypeInv /\ phase = "running"
      /\ \A w \in Workers : pc[w] = "exited"
  BY DEF Return, AliveInv, OwnershipInv
<1>2. \A w \in Workers : job[w] = NoJob
  BY <1>1 DEF TypeInv, HandInv, HoldSteps, HoldsPending, HoldsInFlight, HoldsSettled
<1>3. outstanding = 0 /\ \E w \in Workers : TRUE
  BY <1>1, FiniteAssumption DEF PoolAccounting
<1>4. Cardinality(Queued(queue)) \in Nat /\ Cardinality(BusyWorkers) \in Nat
      /\ (Queued(queue) # {} => Cardinality(Queued(queue)) >= 1)
  BY <1>1, <1>3, QueuedFinite, BusyCount DEF TypeInv, TypeOK, RunTypeOK
<1>5. Queued(queue) = {}
  BY <1>3, <1>4, AccountingParts
<1>6. \A j \in Jobs : ~Expected(j)
  BY <1>1, <1>2, <1>5, FiniteAssumption DEF Expected, Queued, Splitting
<1> QED
  BY <1>1, <1>2, <1>6, FiniteAssumption DEF HeldInv, WaitInv

\* A plan, a resume, a return or a crash keeps what a returned run promises.
LEMMA NextQuiet ==
  ASSUME PlansStable, OwnershipInv, CoverInv, StatusInv, PoolAccounting, HeldInv, WaitInv,
         AliveInv, QuietInv, [Next]_vars
  PROVE  QuietInv'
<1> USE DEF QuietInv
<1>0. TypeInv /\ cancel \in {"clear", "set"}
  BY DEF OwnershipInv, TypeInv, TypeOK, RunTypeOK
<1>1. CASE Plan
  <2>1. /\ status' = IF status = "none" THEN "planned" ELSE status
        /\ phase = "idle"
    BY <1>1 DEF Plan
  <2>2. CASE status \in {"none", "planned"}
    BY <2>1, <2>2
  <2>3. CASE status \notin {"none", "planned"}
    <3>1. state' = [j \in Jobs |-> state[j]]
      BY <1>0, <1>1, <2>3, ReplanAddsNothing DEF StatusInv
    <3> QED
      BY <2>1, <2>3, <3>1
  <2> QED
    BY <2>2, <2>3
<1>2. CASE Begin
  <2>1. CASE Claimable \cup Stale = {}
    <3>1. state' = [j \in Jobs |-> state[j]] /\ Complete
      BY <1>2, <2>1, NothingClaimed DEF Begin
    <3> QED
      BY <3>1 DEF Complete
  <2>2. CASE Claimable \cup Stale # {}
    BY <1>2, <2>2 DEF Begin
  <2> QED
    BY <2>1, <2>2
<1>3. CASE Return
  <2>1. state' = state /\ status' = IF cancel = "set" THEN "cancelled"
                                    ELSE IF Complete THEN "complete" ELSE "incomplete"
    BY <1>3 DEF Return, ledgerVars
  <2> QED
    BY <1>0, <1>3, <2>1, ReturnIsQuiet
<1>4. CASE Crash
  BY <1>4 DEF Crash, ProcessGone, ledgerVars, StatusInv
<1>5. CASE Cancel \/ Idle \/ UNCHANGED vars
  BY <1>5 DEF Cancel, Idle, vars, ledgerVars
<1>6. ASSUME NEW w \in Workers, Worker(w) PROVE QuietInv'
  <2>1. phase = "running" /\ phase' = phase
    BY <1>0, <1>6 DEF TypeInv, PhaseInv, Worker, Process, Goto, runVars, Take, Drop, Exit, Finish,
       Abort, CacheHit, SkipEmpty, Proceed, Launch, Succeed, Persist, MarkDone, CachePut, Throttle,
       Reject, Retry, Requeue, Exhaust, UpsertChild, MarkSubdivided, EnqueueChild, GiveUp, Trip, Fault
  <2> QED
    BY <2>1
<1> QED
  BY <1>1, <1>2, <1>3, <1>4, <1>5, <1>6 DEF Next

\* A run that returns has settled its rows: none is in flight, and unless the
\* run was cancelled none is pending.  The wall timeout, which kills a worker
\* with work still queued, is what the condition on the outcomes leaves out.
THEOREM ReturnLeavesNothing ==
  ASSUME Crashes # "anywhere", PlansStable, Outcomes \cap {"fault", "timeout"} = {}
  PROVE  Spec => []ReturnSettles
<1> DEFINE Inv == HeldInv /\ WaitInv /\ AliveInv
<1>1. Init => Inv /\ QuietInv
  BY DEF Init, HeldInv, WaitInv, AliveInv, QuietInv
<1>2. OwnershipInv /\ Inv /\ [Next]_vars => Inv'
  BY NextHeld, NextWait, NextAlive DEF OwnershipInv
<1>3. OwnershipInv /\ CoverInv /\ StatusInv /\ PoolAccounting /\ Inv /\ QuietInv /\ [Next]_vars
      => QuietInv'
  BY NextQuiet
<1>4. QuietInv => ReturnSettles
  BY DEF QuietInv, ReturnSettles
<1>5. Init => StatusInv
  BY DEF Init, StatusInv
<1>6. OwnershipInv /\ CoverInv /\ StatusInv /\ [Next]_vars => StatusInv'
  BY NextStatus DEF OwnershipInv
<1> HIDE DEF Inv
<1> QED
  BY <1>1, <1>2, <1>3, <1>4, <1>5, <1>6, SpecOwnership, SpecCover, PoolIsAccounted, PTL DEF Spec
=============================================================================

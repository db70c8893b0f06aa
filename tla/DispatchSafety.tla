--------------------------- MODULE DispatchSafety ---------------------------
(***************************************************************************)
(* The safety of Dispatch, for any number of workers, jobs, sources and    *)
(* throttles and any setting of the governor.                              *)
(*                                                                         *)
(* HandInv says what a worker has in its hands at each step: without it    *)
(* nothing is known of the probe a worker asks about or of the files its   *)
(* fill touches.                                                           *)
(*                                                                         *)
(* At the end, the files of SliceCache implement ResultCache: FilesInv     *)
(* keeps the files of different keys apart.                                *)
(***************************************************************************)
EXTENDS Dispatch, FiniteSetTheorems, TLAPS

\* The steps of _field_has_data and what follows it.
Asking == {"ask", "wait", "probe", "probing", "tell", "decide"}
Filling == {"open", "write", "publish"}
Holding == Asking \cup Filling \cup {"lookup", "slot", "query"}

HandInvOf(w) ==
  /\ pc[w] \in Holding => job[w] \in Jobs
  /\ pc[w] \in Filling => job[w] \in Writers
  /\ pc[w] \in Asking => SourceOf[job[w]] \in Sources
HandInv == \A w \in Workers : HandInvOf(w)

TypeInv == TypeOK /\ HandInv

-----------------------------------------------------------------------------
(* The governor's limit, and the operators on fields.                      *)

LEMMA LimitRange ==
  /\ MinLimit * Unit \in Nat \ {0}
  /\ MaxLimit * Unit \in Nat \ {0}
  /\ MinLimit * Unit <= MaxLimit * Unit
<1>1. \A x, y, u \in Nat \ {0} : x * u \in Nat \ {0} /\ (x <= y => x * u <= y * u)
  <2> TAKE x, y, u \in Nat \ {0}
  <2>1. x * u \in Nat \ {0}
    OBVIOUS
  <2>2. x <= y => x * u <= y * u
    OBVIOUS
  <2> QED
    BY <2>1, <2>2
<1> QED
  BY <1>1, GovernorAssumption

LEMMA LimitInit ==
  Unit * Larger(MinLimit, Smaller(InitialLimit, MaxLimit))
    \in (MinLimit * Unit)..(MaxLimit * Unit)
<1> DEFINE start == Larger(MinLimit, Smaller(InitialLimit, MaxLimit))
<1>1. start \in Nat /\ MinLimit <= start /\ start <= MaxLimit
  BY GovernorAssumption DEF Larger, Smaller
<1>2. \A x, y, z, u \in Nat : x <= y /\ y <= z => u * y \in (x * u)..(z * u)
  OBVIOUS
<1> HIDE DEF start
<1>3. Unit * start \in (MinLimit * Unit)..(MaxLimit * Unit)
  BY <1>1, <1>2, GovernorAssumption
<1> QED
  BY <1>3 DEF start

LEMMA LimitSteps ==
  ASSUME GovernorTypeOK
  PROVE  /\ OnSuccess => GovernorTypeOK'
         /\ OnThrottle => GovernorTypeOK' /\ limit' <= limit
<1> DEFINE low == MinLimit * Unit
           high == MaxLimit * Unit
<1>1. low \in Nat \ {0} /\ high \in Nat \ {0} /\ low <= high /\ limit \in low..high
  BY LimitRange DEF GovernorTypeOK
<1>2. Unit \in Nat \ {0} /\ streak \in Nat /\ active \in Int
  BY GovernorAssumption DEF GovernorTypeOK
<1>3. OnSuccess => limit' \in {limit, Smaller(high, limit + Unit)}
                   /\ streak' \in Nat /\ active' = active
  BY <1>2 DEF OnSuccess
<1>4. OnThrottle => limit' = Larger(low, limit \div 2) /\ streak' = 0 /\ active' = active
  BY DEF OnThrottle
<1>5. (limit' \in low..high /\ streak' \in Nat /\ active' \in Int) => GovernorTypeOK'
  BY DEF GovernorTypeOK
<1> HIDE DEF low, high
<1> QED
  BY <1>1, <1>2, <1>3, <1>4, <1>5 DEF Larger, Smaller

LEMMA FieldFacts ==
  /\ FirstField \in Fields
  /\ \A f \in Fields : Other(f) \in Fields /\ Other(f) # f
<1>1. PICK x, y : x # y /\ Fields = {x, y}
  BY FieldAssumption
<1>2. \E z \in Fields : TRUE
  BY <1>1
<1>3. FirstField \in Fields
  BY <1>2 DEF FirstField
<1>4. ASSUME NEW f \in Fields
      PROVE  \E z \in Fields : z # f
  BY <1>1
<1> QED
  BY <1>3, <1>4 DEF Other

-----------------------------------------------------------------------------
(* Types.                                                                  *)

LEMMA InitTypes == Init => TypeInv
<1> SUFFICES ASSUME Init
             PROVE  TypeInv
  OBVIOUS
<1>1. GovernorTypeOK
  BY LimitInit DEF Init, GovernorInit, GovernorTypeOK
<1>2. PrecheckTypeOK /\ CacheTypeOK
  BY DEF Init, PrecheckInit, PrecheckTypeOK, CacheInit, CacheTypeOK, Answers, Contents, Broken
<1>3. TypeOK
  BY <1>1, <1>2, FieldFacts DEF Init, TypeOK, Steps, Outcomes
<1>4. HandInv
  BY DEF Init, HandInv, HandInvOf, Holding, Filling, Asking
<1> QED
  BY <1>3, <1>4 DEF TypeInv

\* What a worker has in its hands is its own business.
LEMMA WorkerActsAlone ==
  ASSUME TypeInv, NEW w \in Workers, Worker(w)
  PROVE  \A v \in Workers \ {w} :
           /\ pc'[v] = pc[v] /\ job'[v] = job[v]
           /\ field'[v] = field[v] /\ found'[v] = found[v]
<1> USE DEF TypeInv, TypeOK, Goto, Drop, handVars
<1>1. CASE Take(w)
  BY <1>1 DEF Take
<1>2. CASE CacheHit(w) \/ CacheMiss(w)
  BY <1>2 DEF CacheHit, CacheMiss
<1>3. CASE Ask(w)
  BY <1>3 DEF Ask, AskKnown, AskOwn, AskWait, StopWaiting
<1>4. CASE RunProbe(w)
  BY <1>4 DEF RunProbe, ProbeStart, ProbeEnd, TellOthers
<1>5. CASE Decide(w)
  BY <1>5 DEF Decide, DecideLaunch, DecideAskOther, DecideSkip
<1>6. CASE Query(w)
  BY <1>6 DEF Query, Launch, Succeed, Throttle, Fail, TimeOut
<1>7. CASE Fill(w)
  BY <1>7 DEF Fill, FillOpen, FillWrite, FillFails, FillPublish
<1>8. CASE LeaveSlot(w)
  BY <1>8 DEF LeaveSlot
<1> QED
  BY <1>1, <1>2, <1>3, <1>4, <1>5, <1>6, <1>7, <1>8 DEF Worker

\* The hands of the worker that moves are all there is to check.
LEMMA HandSuffices ==
  ASSUME TypeInv, NEW w \in Workers, Worker(w), HandInvOf(w)'
  PROVE  HandInv'
<1>1. \A v \in Workers \ {w} : HandInvOf(v)'
  BY WorkerActsAlone DEF TypeInv, HandInv, HandInvOf
<1> QED
  BY <1>1 DEF HandInv

\* A cached job's file is always a writer's, and so is what is renamed.
LEMMA CacheSteps ==
  ASSUME CacheTypeOK, NEW j \in Writers,
         Open(j) \/ Write(j) \/ WriteFails(j) \/ Publish(j)
  PROVE  CacheTypeOK'
<1> USE CacheAssumption DEF CacheTypeOK, Contents, Broken
<1>0. KeyOf[j] \in Keys /\ temporary[KeyOf[j]] \in Writers \cup {Nothing}
  OBVIOUS
<1>1. CASE Open(j)
  BY <1>0, <1>1 DEF Open
<1>2. CASE Write(j)
  <2>1. PICK c \in {j} \cup (IF content[handle[j]] = "empty" THEN {} ELSE {"torn"}) :
          content' = [content EXCEPT ![handle[j]] = c]
    BY <1>2 DEF Write
  <2>2. c \in Contents
    BY <2>1
  <2>3. UNCHANGED <<published, temporary, handle>>
    BY <1>2 DEF Write
  <2> QED
    BY <2>1, <2>2, <2>3
<1>3. CASE WriteFails(j)
  BY <1>3 DEF WriteFails
<1>4. CASE Publish(j)
  BY <1>0, <1>4 DEF Publish
<1> QED
  BY <1>1, <1>2, <1>3, <1>4

LEMMA LookupType ==
  ASSUME CacheTypeOK, NEW j \in Writers
  PROVE  Lookup(KeyOf[j]) \in Writers \cup {Nothing}
BY CacheAssumption DEF CacheTypeOK, Contents, Lookup

LEMMA ProbeType ==
  ASSUME TypeInv, NEW w \in Workers, pc[w] \in Asking
  PROVE  Probe(w) \in Probes
BY DEF TypeInv, TypeOK, HandInv, HandInvOf, Probe, Probes

LEMMA WorkerTypes ==
  ASSUME TypeInv, NEW w \in Workers, Worker(w)
  PROVE  TypeInv'
<1> USE DEF TypeOK, GovernorTypeOK, PrecheckTypeOK, CacheTypeOK, HandInvOf, Holding,
            Asking, Filling, Steps, Outcomes, Goto, Drop, Settle, handVars, historyVars,
            governorVars, precheckVars, cacheVars
<1>0. TypeOK /\ HandInv /\ HandInvOf(w)
  BY DEF TypeInv, HandInv
<1> SUFFICES TypeOK' /\ HandInvOf(w)'
  BY HandSuffices DEF TypeInv
<1>1. CASE Take(w)
  BY <1>0, <1>1, JobAssumption DEF Take
<1>2. CASE CacheHit(w)
  BY <1>0, <1>2, FieldFacts, LookupType DEF CacheHit
<1>3. CASE CacheMiss(w)
  BY <1>0, <1>3, JobAssumption DEF CacheMiss
<1>4. CASE AskKnown(w)
  BY <1>0, <1>4, ProbeType DEF AskKnown, Known, Answers
<1>5. CASE AskOwn(w)
  BY <1>0, <1>5, ProbeType DEF AskOwn, Own, MayOwn
<1>6. CASE AskWait(w)
  BY <1>0, <1>6 DEF AskWait
<1>7. CASE StopWaiting(w)
  BY <1>0, <1>7, ProbeType DEF StopWaiting, Heard, Known, Answers
<1>8. CASE ProbeStart(w)
  BY <1>0, <1>8, ProbeType DEF ProbeStart, Enter
<1>9. CASE ProbeEnd(w)
  BY <1>0, <1>9, ProbeType DEF ProbeEnd, Leave, Seen
<1>10. CASE TellOthers(w)
  BY <1>0, <1>10, ProbeType DEF TellOthers, Tell, Answers
<1>11. CASE DecideLaunch(w)
  BY <1>0, <1>11 DEF DecideLaunch
<1>12. CASE DecideAskOther(w)
  BY <1>0, <1>12, FieldFacts DEF DecideAskOther
<1>13. CASE DecideSkip(w)
  BY <1>0, <1>13, FieldFacts DEF DecideSkip
<1>14. CASE Launch(w)
  BY <1>0, <1>14 DEF Launch, Enter
<1>15. CASE Succeed(w)
  BY <1>0, <1>15, LimitSteps DEF Succeed
<1>16. CASE Throttle(w)
  BY <1>0, <1>16, LimitSteps, FieldFacts DEF Throttle
<1>17. CASE Fail(w)
  BY <1>0, <1>17 DEF Fail
<1>18. CASE FillOpen(w)
  BY <1>0, <1>18, CacheSteps DEF FillOpen
<1>19. CASE FillWrite(w)
  BY <1>0, <1>19, CacheSteps DEF FillWrite
<1>20. CASE FillFails(w)
  BY <1>0, <1>20, CacheSteps DEF FillFails
<1>21. CASE FillPublish(w)
  BY <1>0, <1>21, CacheSteps DEF FillPublish
<1>22. CASE LeaveSlot(w)
  BY <1>0, <1>22, FieldFacts DEF LeaveSlot, Leave
<1>23. CASE TimeOut(w)
  BY <1>0, <1>23, LimitSteps DEF TimeOut
<1> QED
  BY <1>1, <1>2, <1>3, <1>4, <1>5, <1>6, <1>7, <1>8, <1>9, <1>10, <1>11, <1>12,
     <1>13, <1>14, <1>15, <1>16, <1>17, <1>18, <1>19, <1>20, <1>21, <1>22, <1>23
     DEF Worker, Ask, RunProbe, Decide, Query, Fill

LEMMA NextTypes == TypeInv /\ [Next]_vars => TypeInv'
<1> SUFFICES ASSUME TypeInv, [Next]_vars
             PROVE  TypeInv'
  OBVIOUS
<1>1. ASSUME NEW w \in Workers, Worker(w)
      PROVE  TypeInv'
  BY <1>1, WorkerTypes
<1>2. CASE UNCHANGED vars
  BY <1>2 DEF vars, governorVars, precheckVars, cacheVars, handVars, historyVars, TypeInv, TypeOK,
     GovernorTypeOK, PrecheckTypeOK, CacheTypeOK, HandInv, HandInvOf
<1> QED
  BY <1>1, <1>2 DEF Next

LEMMA SpecTypes == Spec => []TypeInv
BY InitTypes, NextTypes, PTL DEF Spec

\* Every variable keeps its type: among others the limit of the governor stays
\* between its minimum and its maximum, whatever throttles and streaks come.
THEOREM TypeCorrect == Spec => []TypeOK
<1>1. TypeInv => TypeOK
  BY DEF TypeInv
<1> QED
  BY <1>1, SpecTypes, PTL

-----------------------------------------------------------------------------
(* A skip is proven: the evidence a worker carries while it asks.          *)

OwnProbe(w) == <<FieldOf[job[w]], SourceOf[job[w]]>>

\* What the table says, what a worker heard of the probe it is at, and what a
\* worker that asks about the other field knows of its own.
EvidenceOf(w) ==
  /\ pc[w] \in {"tell", "decide"} /\ found[w] = "empty" => Probe(w) \notin data
  /\ pc[w] \in Asking /\ field[w] # FieldOf[job[w]] => OwnProbe(w) \notin data
Evidence ==
  /\ \A p \in Probes : answer[p] = "empty" => p \notin data
  /\ \A w \in Workers : EvidenceOf(w)

SkipInv == Evidence /\ SkipIsProven

LEMMA SkipStep ==
  ASSUME TypeInv, SkipInv, NEW w \in Workers, Worker(w)
  PROVE  SkipInv'
<1> USE DEF TypeOK, Goto, Drop, Settle, handVars, historyVars, precheckVars, Evidence, EvidenceOf,
            OwnProbe, SkipIsProven, HandInvOf, Holding, Asking, Filling
<1>0. /\ TypeOK /\ PrecheckTypeOK /\ HandInvOf(w) /\ Evidence /\ SkipIsProven
      /\ SourceOf \in [Jobs -> Sources \cup {Nothing}] /\ Nothing \notin Sources
  BY JobAssumption DEF TypeInv, HandInv, SkipInv
<1>1. \A v \in Workers \ {w} : pc'[v] = pc[v] /\ job'[v] = job[v]
                               /\ field'[v] = field[v] /\ found'[v] = found[v]
  BY WorkerActsAlone
<1> SUFFICES /\ data' = data
             /\ \A p \in Probes : answer'[p] = "empty" => p \notin data
             /\ EvidenceOf(w)'
             /\ SkipIsProven'
  BY <1>0, <1>1 DEF SkipInv, Probe
<1>2. CASE Take(w)
  BY <1>0, <1>2 DEF Take
<1>3. CASE CacheHit(w)
  BY <1>0, <1>3 DEF CacheHit
<1>4. CASE CacheMiss(w)
  BY <1>0, <1>4 DEF CacheMiss
<1>5. CASE AskKnown(w)
  BY <1>0, <1>5, ProbeType DEF AskKnown, Probe, Known
<1>6. CASE AskOwn(w) \/ AskWait(w)
  BY <1>0, <1>6 DEF AskOwn, Own, AskWait
<1>7. CASE StopWaiting(w)
  BY <1>0, <1>7, ProbeType DEF StopWaiting, Probe, Heard
<1>8. CASE ProbeStart(w)
  BY <1>0, <1>8 DEF ProbeStart
<1>9. CASE ProbeEnd(w)
  BY <1>0, <1>9 DEF ProbeEnd, Probe, Seen
<1>10. CASE TellOthers(w)
  BY <1>0, <1>10, ProbeType DEF TellOthers, Tell, Probe, PrecheckTypeOK
<1>11. CASE DecideLaunch(w)
  BY <1>0, <1>11 DEF DecideLaunch
<1>12. CASE DecideAskOther(w)
  BY <1>0, <1>12 DEF DecideAskOther, Probe
<1>13. CASE DecideSkip(w)
  BY <1>0, <1>13 DEF DecideSkip
<1>14. CASE Query(w)
  <2>1. UNCHANGED <<answer, data>> /\ pc'[w] \notin {"tell", "decide"} \cup Asking
    BY <1>0, <1>14 DEF Query, Launch, Succeed, Throttle, Fail, TimeOut
  <2>2. \A j \in Jobs : outcome'[j] = outcome[j] \/ outcome'[j] = "launched"
    BY <1>0, <1>14 DEF Query, Launch, Succeed, Throttle, Fail, TimeOut
  <2> QED
    BY <1>0, <2>1, <2>2
<1>15. CASE Fill(w)
  <2>1. CASE FillOpen(w) \/ FillWrite(w)
    BY <1>0, <2>1 DEF FillOpen, FillWrite
  <2>2. CASE FillFails(w) \/ FillPublish(w)
    BY <1>0, <2>2 DEF FillFails, FillPublish
  <2> QED
    BY <1>15, <2>1, <2>2 DEF Fill
<1>16. CASE LeaveSlot(w)
  BY <1>0, <1>16 DEF LeaveSlot
<1> QED
  BY <1>2, <1>3, <1>4, <1>5, <1>6, <1>7, <1>8, <1>9, <1>10, <1>11, <1>12, <1>13, <1>14,
     <1>15, <1>16 DEF Worker, Ask, RunProbe, Decide

\* A job is settled as empty only when the backend has no data for its source,
\* whatever probes fail and whoever gives up waiting.
THEOREM SkipsAreProven == Spec => []SkipIsProven
<1>1. Init => SkipInv
  BY DEF Init, PrecheckInit, SkipInv, Evidence, EvidenceOf, SkipIsProven, Asking
<1>2. TypeInv /\ SkipInv /\ [Next]_vars => SkipInv'
  <2> SUFFICES ASSUME TypeInv, SkipInv, [Next]_vars
               PROVE  SkipInv'
    OBVIOUS
  <2>1. ASSUME NEW w \in Workers, Worker(w)
        PROVE  SkipInv'
    BY <2>1, SkipStep
  <2>2. CASE UNCHANGED vars
    BY <2>2 DEF vars, precheckVars, handVars, SkipInv, Evidence, EvidenceOf, SkipIsProven,
       OwnProbe, Probe
  <2> QED
    BY <2>1, <2>2 DEF Next
<1>3. SkipInv => SkipIsProven
  BY DEF SkipInv
<1> QED
  BY <1>1, <1>2, <1>3, SpecTypes, PTL DEF Spec

-----------------------------------------------------------------------------
(* One probe for a question: who owns it has not launched it yet.          *)

OwnsUnlaunched(w) ==
  pc[w] = "probe" => Probe(w) \in inflight /\ launches[Probe(w)] = 0

ProbeInv ==
  /\ ProbedOnce
  /\ \A p \in Probes : p \notin inflight => launches[p] = 0
  /\ \A w \in Workers : OwnsUnlaunched(w)
  /\ \A v, w \in Workers :
       v # w /\ pc[v] = "probe" /\ pc[w] = "probe" => Probe(v) # Probe(w)

LEMMA ProbeStep ==
  ASSUME TypeInv, ProbeInv, NEW w \in Workers, Worker(w)
  PROVE  ProbeInv'
<1> USE DEF TypeOK, Goto, handVars, historyVars, precheckVars, OwnsUnlaunched, ProbedOnce
<1>0. TypeOK /\ ProbeInv /\ (pc[w] \in Asking => Probe(w) \in Probes)
  BY ProbeType DEF TypeInv
<1>1. \A v \in Workers \ {w} : pc'[v] = pc[v] /\ Probe(v)' = Probe(v)
  BY WorkerActsAlone DEF Probe
<1>2. CASE AskOwn(w)
  <2>1. /\ pc[w] = "ask" /\ pc'[w] = "probe" /\ Probe(w)' = Probe(w) /\ Probe(w) \notin inflight
        /\ inflight' = inflight \cup {Probe(w)} /\ launches' = launches
    BY <1>0, <1>2 DEF AskOwn, Own, MayOwn, Probe
  <2> QED
    BY <1>0, <1>1, <2>1 DEF ProbeInv, Asking
<1>3. CASE ProbeStart(w)
  <2>1. /\ pc[w] = "probe" /\ pc'[w] = "probing" /\ inflight' = inflight
        /\ launches' = [launches EXCEPT ![Probe(w)] = @ + 1]
    BY <1>0, <1>3 DEF ProbeStart
  <2> QED
    BY <1>0, <1>1, <2>1 DEF ProbeInv, Asking
<1>4. ASSUME inflight' = inflight, launches' = launches, pc'[w] # "probe"
      PROVE  ProbeInv'
  BY <1>0, <1>1, <1>4 DEF ProbeInv
<1>5. CASE Take(w) \/ CacheHit(w) \/ CacheMiss(w)
  BY <1>0, <1>4, <1>5 DEF Take, CacheHit, CacheMiss
<1>6. CASE AskKnown(w) \/ AskWait(w) \/ StopWaiting(w)
  BY <1>0, <1>4, <1>6 DEF AskKnown, AskWait, StopWaiting
<1>7. CASE ProbeEnd(w) \/ TellOthers(w)
  BY <1>0, <1>4, <1>7 DEF ProbeEnd, TellOthers, Tell
<1>8. CASE Decide(w)
  BY <1>0, <1>4, <1>8 DEF Decide, DecideLaunch, DecideAskOther, DecideSkip
<1>9. CASE Query(w) \/ LeaveSlot(w)
  BY <1>0, <1>4, <1>9 DEF Query, Launch, Succeed, Throttle, Fail, TimeOut, LeaveSlot
<1>10. CASE Fill(w)
  BY <1>0, <1>4, <1>10 DEF Fill, FillOpen, FillWrite, FillFails, FillPublish
<1> QED
  BY <1>2, <1>3, <1>5, <1>6, <1>7, <1>8, <1>9, <1>10 DEF Worker, Ask, RunProbe

\* However many workers ask about a source at once, in whatever order, one of
\* them launches a probe, once in the run.
THEOREM ProbesAreShared == Spec => []ProbedOnce
<1>1. Init => ProbeInv
  BY DEF Init, ProbeInv, ProbedOnce, OwnsUnlaunched
<1>2. TypeInv /\ ProbeInv /\ [Next]_vars => ProbeInv'
  <2> SUFFICES ASSUME TypeInv, ProbeInv, [Next]_vars
               PROVE  ProbeInv'
    OBVIOUS
  <2>1. ASSUME NEW w \in Workers, Worker(w)
        PROVE  ProbeInv'
    BY <2>1, ProbeStep
  <2>2. CASE UNCHANGED vars
    BY <2>2 DEF vars, precheckVars, handVars, historyVars, ProbeInv, ProbedOnce, OwnsUnlaunched,
       Probe
  <2> QED
    BY <2>1, <2>2 DEF Next
<1>3. ProbeInv => ProbedOnce
  BY DEF ProbeInv
<1> QED
  BY <1>1, <1>2, <1>3, SpecTypes, PTL DEF Spec

-----------------------------------------------------------------------------
(* The slots: counted by the worker that enters or leaves.                 *)

Holders == {w \in Workers : pc[w] \in Slotted}

LEMMA HoldersCount ==
  ASSUME NEW w \in Workers
  PROVE  /\ Cardinality(Holders) \in Nat
         /\ Cardinality(Holders \cup {w}) =
              IF w \in Holders THEN Cardinality(Holders) ELSE Cardinality(Holders) + 1
         /\ Cardinality(Holders \ {w}) =
              IF w \in Holders THEN Cardinality(Holders) - 1 ELSE Cardinality(Holders)
<1>1. IsFiniteSet(Holders)
  BY JobAssumption, FS_Subset DEF Holders
<1> QED
  BY <1>1, FS_CardinalityType, FS_AddElement, FS_RemoveElement

LEMMA SlotStep ==
  ASSUME TypeInv, SlotsAccounted, NEW w \in Workers, Worker(w)
  PROVE  SlotsAccounted'
<1> USE DEF TypeOK, GovernorTypeOK, Goto, governorVars, Slotted
<1>0. TypeOK /\ active = Cardinality(Holders)
  BY DEF TypeInv, SlotsAccounted, Holders
<1>1. \A v \in Workers \ {w} : pc'[v] = pc[v]
  BY WorkerActsAlone
<1>2. SUFFICES active' = Cardinality(Holders')
  BY DEF SlotsAccounted, Holders
<1>3. ASSUME active' = active, pc'[w] \in Slotted <=> pc[w] \in Slotted
      PROVE  active' = Cardinality(Holders')
  <2>1. Holders' = Holders
    BY <1>1, <1>3 DEF Holders
  <2> QED
    BY <1>0, <1>3, <2>1
<1>4. CASE ProbeStart(w) \/ Launch(w)
  <2>1. active' = active + 1 /\ pc[w] \notin Slotted /\ pc'[w] \in Slotted
    BY <1>0, <1>4 DEF ProbeStart, Launch, Enter
  <2>2. Holders' = Holders \cup {w} /\ w \notin Holders
    BY <1>1, <2>1 DEF Holders
  <2> QED
    BY <1>0, <2>1, <2>2, HoldersCount
<1>5. CASE ProbeEnd(w) \/ LeaveSlot(w)
  <2>1. active' = active - 1 /\ pc[w] \in Slotted /\ pc'[w] \notin Slotted
    BY <1>0, <1>5 DEF ProbeEnd, LeaveSlot, Leave
  <2>2. Holders' = Holders \ {w} /\ w \in Holders
    BY <1>1, <2>1 DEF Holders
  <2> QED
    BY <1>0, <2>1, <2>2, HoldersCount
<1>6. CASE Take(w) \/ CacheHit(w) \/ CacheMiss(w)
  BY <1>0, <1>3, <1>6 DEF Take, CacheHit, CacheMiss
<1>7. CASE Ask(w) \/ TellOthers(w)
  BY <1>0, <1>3, <1>7 DEF Ask, AskKnown, AskOwn, AskWait, StopWaiting, TellOthers
<1>8. CASE Decide(w)
  BY <1>0, <1>3, <1>8 DEF Decide, DecideLaunch, DecideAskOther, DecideSkip
<1>9. CASE Succeed(w) \/ Throttle(w) \/ Fail(w) \/ TimeOut(w)
  BY <1>0, <1>3, <1>9 DEF Succeed, OnSuccess, Throttle, OnThrottle, Fail, TimeOut
<1>10. CASE Fill(w)
  BY <1>0, <1>3, <1>10 DEF Fill, FillOpen, FillWrite, FillFails, FillPublish
<1> QED
  BY <1>4, <1>5, <1>6, <1>7, <1>8, <1>9, <1>10 DEF Worker, RunProbe, Query

\* No path out of a slot, an error of the cache or a throttle among them, leaves
\* the governor with a slot too many or too few.
THEOREM SlotsAreAccounted == Spec => []SlotsAccounted
<1>1. Init => SlotsAccounted
  <2>1. Init => active = 0 /\ Holders = {}
    BY DEF Init, GovernorInit, Holders, Slotted
  <2> QED
    BY <2>1, FS_EmptySet DEF SlotsAccounted, Holders
<1>2. TypeInv /\ SlotsAccounted /\ [Next]_vars => SlotsAccounted'
  <2> SUFFICES ASSUME TypeInv, SlotsAccounted, [Next]_vars
               PROVE  SlotsAccounted'
    OBVIOUS
  <2>1. ASSUME NEW w \in Workers, Worker(w)
        PROVE  SlotsAccounted'
    BY <2>1, SlotStep
  <2>2. CASE UNCHANGED vars
    BY <2>2 DEF vars, governorVars, SlotsAccounted
  <2> QED
    BY <2>1, <2>2 DEF Next
<1> QED
  BY <1>1, <1>2, SpecTypes, PTL DEF Spec

-----------------------------------------------------------------------------
(* The growth of the limit.                                                *)

StreakInv == streak <= earned + Cardinality(Dead)

LEMMA DeadCount ==
  ASSUME NEW w \in Workers
  PROVE  /\ Cardinality(Dead) \in Nat
         /\ w \notin Dead => Cardinality(Dead \cup {w}) = Cardinality(Dead) + 1
<1>1. IsFiniteSet(Dead)
  BY JobAssumption, FS_Subset DEF Dead
<1> QED
  BY <1>1, FS_CardinalityType, FS_AddElement

LEMMA StreakStep ==
  ASSUME TypeInv, StreakInv, NEW w \in Workers, Worker(w)
  PROVE  /\ StreakInv'
         /\ limit' > limit => earned' + Cardinality(Dead') >= IncreaseAfter
<1> USE DEF StreakInv, TypeOK, GovernorTypeOK, Goto, governorVars, historyVars
<1> DEFINE dead == Cardinality(Dead)
           Kept == StreakInv' /\ (limit' > limit => earned' + dead' >= IncreaseAfter)
<1>a. dead \in Nat
  BY DeadCount
<1>b. limit \in Int /\ IncreaseAfter \in Nat
  BY LimitRange, GovernorAssumption DEF TypeInv
<1>0. /\ TypeOK /\ streak <= earned + dead /\ {streak, earned, dead} \subseteq Nat
      /\ limit \in Int /\ IncreaseAfter \in Nat
  BY <1>a, <1>b DEF TypeInv
<1>1. \A v \in Workers \ {w} : pc'[v] = pc[v]
  BY WorkerActsAlone
\* All but a timeout leave the number of dead threads alone.
<1>2. ASSUME pc'[w] \in {"raise", "dead"} <=> pc[w] \in {"raise", "dead"}
      PROVE  dead' = dead
  <2>1. Dead' = Dead
    BY <1>1, <1>2 DEF Dead
  <2> QED
    BY <2>1
\* A report of a success, one more to count.
<1>3. ASSUME OnSuccess, earned' \in Nat, dead' \in Nat, earned' + dead' = earned + dead + 1
      PROVE  Kept
  <2> HIDE DEF dead
  <2>1. CASE streak + 1 >= IncreaseAfter
    BY <1>0, <1>3, <2>1 DEF OnSuccess, dead
  <2>2. CASE ~(streak + 1 >= IncreaseAfter)
    BY <1>0, <1>3, <2>2 DEF OnSuccess, dead
  <2> QED
    BY <2>1, <2>2
<1>4. ASSUME streak' = streak, earned' = earned, limit' = limit,
             pc'[w] \in {"raise", "dead"} <=> pc[w] \in {"raise", "dead"}
      PROVE  Kept
  BY <1>0, <1>2, <1>4
<1>5. CASE Succeed(w)
  <2>1. earned' = earned + 1 /\ OnSuccess /\ dead' = dead
    BY <1>0, <1>2, <1>5 DEF Succeed
  <2> QED
    BY <1>0, <1>3, <2>1
<1>6. CASE TimeOut(w)
  <2>1. earned' = earned /\ OnSuccess /\ pc[w] = "query" /\ pc'[w] = "raise"
    BY <1>0, <1>6 DEF TimeOut
  <2>2. Dead' = Dead \cup {w} /\ w \notin Dead
    BY <1>1, <2>1 DEF Dead
  <2>3. dead' = dead + 1
    BY <2>2, DeadCount
  <2> QED
    BY <1>0, <1>3, <2>1, <2>3
<1>7. CASE Throttle(w)
  <2>1. streak' = 0 /\ earned' = 0 /\ limit' <= limit /\ limit' \in Int /\ dead' = dead
    BY <1>0, <1>2, <1>7, LimitRange, LimitSteps DEF Throttle, OnThrottle
  <2> QED
    BY <1>0, <2>1
<1>8. CASE Take(w) \/ CacheHit(w) \/ CacheMiss(w) \/ Ask(w)
  BY <1>0, <1>4, <1>8 DEF Take, CacheHit, CacheMiss, Ask, AskKnown, AskOwn, AskWait, StopWaiting
<1>9. CASE RunProbe(w)
  BY <1>0, <1>4, <1>9 DEF RunProbe, ProbeStart, Enter, ProbeEnd, Leave, TellOthers
<1>10. CASE Decide(w)
  BY <1>0, <1>4, <1>10 DEF Decide, DecideLaunch, DecideAskOther, DecideSkip
<1>11. CASE Launch(w) \/ Fail(w) \/ LeaveSlot(w)
  BY <1>0, <1>4, <1>11 DEF Launch, Enter, Fail, LeaveSlot, Leave
<1>12. CASE Fill(w)
  BY <1>0, <1>4, <1>12 DEF Fill, FillOpen, FillWrite, FillFails, FillPublish
<1> QED
  BY <1>5, <1>6, <1>7, <1>8, <1>9, <1>10, <1>11, <1>12 DEF Worker, Query

\* A limit that grows has been paid for by a full streak of successes reported
\* after the last throttle, up to one for each thread that a wall timeout killed.
THEOREM GrowthIsPaidFor == Spec => GrowthIsEarned
<1>1. Init => StreakInv
  <2>1. Init => streak = 0 /\ earned = 0 /\ Dead = {}
    BY DEF Init, GovernorInit, Dead
  <2> QED
    BY <2>1, FS_EmptySet DEF StreakInv
<1>2. TypeInv /\ StreakInv /\ [Next]_vars
        => StreakInv' /\ [limit' > limit => earned' + Cardinality(Dead') >= IncreaseAfter]_vars
  <2> SUFFICES ASSUME TypeInv, StreakInv, [Next]_vars
               PROVE  /\ StreakInv'
                      /\ [limit' > limit => earned' + Cardinality(Dead') >= IncreaseAfter]_vars
    OBVIOUS
  <2>1. ASSUME NEW w \in Workers, Worker(w)
        PROVE  StreakInv' /\ (limit' > limit => earned' + Cardinality(Dead') >= IncreaseAfter)
    BY <2>1, StreakStep
  <2>2. CASE UNCHANGED vars
    BY <2>2 DEF vars, governorVars, historyVars, StreakInv, Dead
  <2> QED
    BY <2>1, <2>2 DEF Next
<1> QED
  BY <1>1, <1>2, SpecTypes, PTL DEF Spec, GrowthIsEarned

-----------------------------------------------------------------------------
(***************************************************************************)
(* Dispatch implements ResultCache: what TLC checks as CacheContract for   *)
(* three jobs, for any number of jobs, keys and workers.                   *)
(*                                                                         *)
(* The contract holds although writers share a temporary file, because     *)
(* names, open files and their contents never leave the key they belong to *)
(* (FilesInv), and because a file that can still be truncated by an open   *)
(* is not the published one: a temporary name is taken away by the rename, *)
(* and a new file belongs to a job that writes for the first time          *)
(* (OwnerInv).                                                             *)
(***************************************************************************)

\* A job in hand is in one pair of hands and is not settled yet; a job that was
\* served is settled.
OwnerInv ==
  /\ \A v, w \in Workers : v # w /\ job[v] # Nothing => job[v] # job[w]
  /\ \A w \in Workers : pc[w] \in Holding => outcome[job[w]] = "none"
  /\ \A j \in Writers : served[j] # Nothing => outcome[j] = "cached"

\* The job has not opened its file.
Unopened(j) ==
  /\ outcome[j] = "none"
  /\ \A w \in Workers : job[w] = j => pc[w] \notin {"write", "publish"}

FilesInv ==
  /\ \A k \in Keys : published[k] # Nothing => KeyOf[published[k]] = k
  /\ \A k \in Keys : temporary[k] # Nothing =>
                       KeyOf[temporary[k]] = k /\ temporary[k] # published[k]
  /\ \A j \in Writers : handle[j] # Nothing => KeyOf[handle[j]] = KeyOf[j]
  /\ \A f \in Writers : content[f] \notin Broken => KeyOf[content[f]] = KeyOf[f]
  /\ \A j \in Writers : Unopened(j) =>
                          \A k \in Keys : published[k] # j /\ temporary[k] # j

Refines == Contract!Next \/ UNCHANGED <<[k \in Keys |-> Lookup(k)], [j \in Writers |-> served[j]]>>

-----------------------------------------------------------------------------
(* Who has which job.                                                      *)

LEMMA OwnerStep ==
  ASSUME TypeInv, OwnerInv, NEW w \in Workers, Worker(w)
  PROVE  OwnerInv'
<1> USE DEF TypeOK, HandInvOf, Holding, Asking, Filling, Goto, Settle, Drop, handVars
<1>0. /\ TypeOK /\ HandInvOf(w) /\ OwnerInv
      /\ Writers \subseteq Jobs /\ Nothing \notin Jobs
  BY JobAssumption DEF TypeInv, HandInv
<1>1. \A v \in Workers \ {w} : pc'[v] = pc[v] /\ job'[v] = job[v]
  BY WorkerActsAlone
<1>2. \A v \in Workers : pc[v] \in Holding => job[v] \in Jobs
  BY DEF TypeInv, HandInv
<1>3. CASE Take(w)
  BY <1>0, <1>1, <1>2, <1>3 DEF Take, OwnerInv
<1>4. ASSUME job' = job, outcome' = outcome, served' = served,
             pc'[w] \in Holding => pc[w] \in Holding
      PROVE  OwnerInv'
  BY <1>0, <1>1, <1>4 DEF OwnerInv
\* The worker settles its job, or not, and has it no more or is done with it.
<1>5. ASSUME job'[w] \in {job[w], Nothing}, pc'[w] \notin Holding, served' = served,
             \/ outcome' = outcome
             \/ /\ pc[w] \in Holding
                /\ \E how \in Outcomes : outcome' = [outcome EXCEPT ![job[w]] = how]
      PROVE  OwnerInv'
  <2>1. \A v \in Workers \ {w} : pc'[v] \in Holding => outcome'[job'[v]] = "none"
    BY <1>0, <1>1, <1>2, <1>5 DEF OwnerInv
  <2>2. \A j \in Writers : served'[j] # Nothing => outcome'[j] = "cached"
    BY <1>0, <1>2, <1>5 DEF OwnerInv
  <2>3. \A u, v \in Workers : u # v /\ job'[u] # Nothing => job'[u] # job'[v]
    BY <1>0, <1>1, <1>5 DEF OwnerInv
  <2> QED
    BY <1>5, <2>1, <2>2, <2>3 DEF OwnerInv
<1>6. CASE CacheHit(w)
  <2>1. /\ job[w] \in Writers /\ pc[w] \in Holding /\ pc'[w] \notin Holding /\ job'[w] = Nothing
        /\ outcome' = [outcome EXCEPT ![job[w]] = "cached"]
        /\ \A j \in Writers : j # job[w] => served'[j] = served[j]
    BY <1>0, <1>6 DEF CacheHit
  <2>2. \A v \in Workers \ {w} : pc'[v] \in Holding => outcome'[job'[v]] = "none"
    BY <1>0, <1>1, <1>2, <2>1 DEF OwnerInv
  <2>3. \A j \in Writers : served'[j] # Nothing => outcome'[j] = "cached"
    BY <1>0, <2>1 DEF OwnerInv
  <2>4. \A u, v \in Workers : u # v /\ job'[u] # Nothing => job'[u] # job'[v]
    BY <1>0, <1>1, <2>1 DEF OwnerInv
  <2> QED
    BY <2>1, <2>2, <2>3, <2>4 DEF OwnerInv
<1>7. CASE CacheMiss(w) \/ Ask(w)
  BY <1>0, <1>4, <1>7 DEF CacheMiss, Ask, AskKnown, AskOwn, AskWait, StopWaiting
<1>8. CASE RunProbe(w)
  BY <1>0, <1>4, <1>8 DEF RunProbe, ProbeStart, ProbeEnd, TellOthers
<1>9. CASE DecideLaunch(w) \/ DecideAskOther(w)
  BY <1>0, <1>4, <1>9 DEF DecideLaunch, DecideAskOther
<1>10. CASE DecideSkip(w)
  BY <1>0, <1>5, <1>10 DEF DecideSkip, Outcomes
<1>11. CASE Launch(w) \/ FillOpen(w) \/ FillWrite(w)
  BY <1>0, <1>4, <1>11 DEF Launch, FillOpen, FillWrite
<1>12. CASE Succeed(w)
  <2>1. CASE job[w] \in Writers
    BY <1>0, <1>4, <1>12, <2>1 DEF Succeed
  <2>2. CASE job[w] \notin Writers
    BY <1>0, <1>5, <1>12, <2>2 DEF Succeed, Outcomes
  <2> QED
    BY <2>1, <2>2
<1>13. CASE Throttle(w) \/ LeaveSlot(w)
  BY <1>0, <1>5, <1>13 DEF Throttle, LeaveSlot
<1>14. CASE Fail(w) \/ TimeOut(w) \/ FillFails(w) \/ FillPublish(w)
  BY <1>0, <1>5, <1>14 DEF Fail, TimeOut, FillFails, FillPublish, Outcomes
<1> QED
  BY <1>3, <1>6, <1>7, <1>8, <1>9, <1>10, <1>11, <1>12, <1>13, <1>14
     DEF Worker, Decide, Query, Fill

-----------------------------------------------------------------------------
(* Names, files and contents stay with their key.                          *)

LEMMA FilesStep ==
  ASSUME TypeInv, OwnerInv, FilesInv, NEW w \in Workers, Worker(w)
  PROVE  FilesInv'
<1> USE DEF TypeOK, CacheTypeOK, HandInvOf, Holding, Filling, Goto, Settle, Drop, handVars,
            cacheVars, Unopened
<1> DEFINE j == job[w]
           K == KeyOf[j]
<1>0. /\ TypeOK /\ CacheTypeOK /\ HandInvOf(w) /\ FilesInv /\ KeyOf \in [Writers -> Keys]
      /\ Nothing \notin Writers /\ Writers \subseteq Jobs
  BY JobAssumption, CacheAssumption DEF TypeInv, HandInv
<1>1. \A v \in Workers \ {w} : pc'[v] = pc[v] /\ job'[v] = job[v]
  BY WorkerActsAlone
<1>2. \A i \in Writers : outcome'[i] = "none" => outcome[i] = "none"
  <2>1. ASSUME outcome' = outcome
               \/ \E how \in Outcomes \ {"none"} : outcome' = [outcome EXCEPT ![j] = how]
        PROVE  \A i \in Writers : outcome'[i] = "none" => outcome[i] = "none"
    BY <1>0, <2>1
  <2>2. CASE Take(w) \/ CacheHit(w) \/ CacheMiss(w)
    BY <2>1, <2>2 DEF Take, CacheHit, CacheMiss, Outcomes
  <2>3. CASE Ask(w) \/ RunProbe(w)
    BY <2>1, <2>3 DEF Ask, AskKnown, AskOwn, AskWait, StopWaiting, RunProbe, ProbeStart,
       ProbeEnd, TellOthers
  <2>4. CASE Decide(w)
    BY <2>1, <2>4 DEF Decide, DecideLaunch, DecideAskOther, DecideSkip, Outcomes
  <2>5. CASE Query(w) \/ LeaveSlot(w)
    BY <2>1, <2>5 DEF Query, Launch, Succeed, Throttle, Fail, TimeOut, LeaveSlot, Outcomes
  <2>6. CASE Fill(w)
    BY <2>1, <2>6 DEF Fill, FillOpen, FillWrite, FillFails, FillPublish, Outcomes
  <2> QED
    BY <2>2, <2>3, <2>4, <2>5, <2>6 DEF Worker
\* A writer that has not opened its file after the step had not before.
<1>3. ASSUME NEW i \in Writers, Unopened(i)', pc[w] \notin {"write", "publish"} \/ i # j
      PROVE  Unopened(i)
  BY <1>0, <1>1, <1>2, <1>3
<1>4. ASSUME UNCHANGED cacheVars, pc[w] \notin {"write", "publish"}
      PROVE  FilesInv'
  BY <1>3, <1>4 DEF FilesInv
<1>5. CASE FillOpen(w)
  <2>1. j \in Writers /\ K \in Keys /\ Open(j) /\ pc'[w] = "write" /\ job'[w] = j
        /\ pc[w] = "open"
    BY <1>0, <1>5 DEF FillOpen
  <2>2. Unopened(j)
    BY <1>0, <2>1 DEF OwnerInv
  <2>3. PICK f \in Writers :
          /\ f = IF temporary[K] = Nothing THEN j ELSE temporary[K]
          /\ temporary' = [temporary EXCEPT ![K] = f]
          /\ content' = [content EXCEPT ![f] = "empty"]
          /\ handle' = [handle EXCEPT ![j] = f]
          /\ published' = published
    BY <1>0, <2>1 DEF Open
  <2>4. KeyOf[f] = K /\ f # published[K]
    BY <1>0, <2>1, <2>2, <2>3 DEF FilesInv
  <2>5. \A i \in Writers : Unopened(i)' => i # j /\ Unopened(i)
    BY <1>0, <1>3, <2>1
  <2>6. \A k \in Keys : temporary'[k] # Nothing =>
          KeyOf[temporary'[k]] = k /\ temporary'[k] # published'[k]
    BY <1>0, <2>1, <2>3, <2>4 DEF FilesInv
  <2>7. \A i \in Writers : handle'[i] # Nothing => KeyOf[handle'[i]] = KeyOf[i]
    BY <1>0, <2>1, <2>3, <2>4 DEF FilesInv
  <2>8. \A g \in Writers : content'[g] \notin Broken => KeyOf[content'[g]] = KeyOf[g]
    BY <1>0, <2>1, <2>3 DEF FilesInv, Broken
  <2>9. \A i \in Writers : Unopened(i)' =>
          \A k \in Keys : published'[k] # i /\ temporary'[k] # i
    BY <1>0, <2>1, <2>3, <2>5 DEF FilesInv
  <2> QED
    BY <1>0, <2>3, <2>6, <2>7, <2>8, <2>9 DEF FilesInv
<1>6. CASE FillWrite(w)
  <2>1. j \in Writers /\ Write(j) /\ pc'[w] = "publish" /\ job'[w] = j /\ pc[w] = "write"
    BY <1>0, <1>6 DEF FillWrite
  <2>2. PICK c \in {j, "torn"} : content' = [content EXCEPT ![handle[j]] = c]
    BY <2>1 DEF Write
  <2>3. \A g \in Writers : content'[g] \notin Broken => KeyOf[content'[g]] = KeyOf[g]
    BY <1>0, <2>1, <2>2 DEF FilesInv, Broken
  <2>4. \A i \in Writers : Unopened(i)' => Unopened(i)
    BY <1>0, <1>3, <2>1
  <2> QED
    BY <1>0, <2>1, <2>3, <2>4 DEF FilesInv, Write
<1>7. CASE FillFails(w)
  <2>1. j \in Writers /\ WriteFails(j) /\ outcome'[j] = "launched"
    BY <1>0, <1>7 DEF FillFails
  <2>2. \A i \in Writers : Unopened(i)' => Unopened(i)
    BY <1>3, <2>1
  <2>3. /\ \A g \in Writers : content'[g] \notin Broken => KeyOf[content'[g]] = KeyOf[g]
        /\ \A i \in Writers : handle'[i] # Nothing => KeyOf[handle'[i]] = KeyOf[i]
    BY <1>0, <2>1 DEF WriteFails, FilesInv, Broken
  <2> QED
    BY <1>0, <2>1, <2>2, <2>3 DEF FilesInv, WriteFails
<1>8. CASE FillPublish(w)
  <2>1. j \in Writers /\ K \in Keys /\ Publish(j) /\ outcome'[j] = "launched"
    BY <1>0, <1>8 DEF FillPublish
  <2>2. \A i \in Writers : Unopened(i)' => Unopened(i)
    BY <1>3, <2>1
  <2>3. /\ \A k \in Keys : published'[k] # Nothing => KeyOf[published'[k]] = k
        /\ \A k \in Keys : temporary'[k] # Nothing =>
             KeyOf[temporary'[k]] = k /\ temporary'[k] # published'[k]
        /\ \A i \in Writers : handle'[i] # Nothing => KeyOf[handle'[i]] = KeyOf[i]
    BY <1>0, <2>1 DEF Publish, FilesInv
  <2>4. \A i \in Writers : Unopened(i)' =>
          \A k \in Keys : published'[k] # i /\ temporary'[k] # i
    BY <1>0, <2>1, <2>2 DEF Publish, FilesInv
  <2> QED
    BY <1>0, <2>1, <2>3, <2>4 DEF FilesInv, Publish
<1>9. CASE Take(w) \/ CacheHit(w) \/ CacheMiss(w)
  BY <1>4, <1>9 DEF Take, CacheHit, CacheMiss
<1>10. CASE Ask(w) \/ RunProbe(w)
  BY <1>4, <1>10 DEF Ask, AskKnown, AskOwn, AskWait, StopWaiting, RunProbe, ProbeStart,
     ProbeEnd, TellOthers
<1>11. CASE Decide(w)
  BY <1>4, <1>11 DEF Decide, DecideLaunch, DecideAskOther, DecideSkip
<1>12. CASE Query(w) \/ LeaveSlot(w)
  BY <1>4, <1>12 DEF Query, Launch, Succeed, Throttle, Fail, TimeOut, LeaveSlot
<1> QED
  BY <1>5, <1>6, <1>7, <1>8, <1>9, <1>10, <1>11, <1>12 DEF Worker, Fill

-----------------------------------------------------------------------------
(* Every step is one of the contract, or none.                             *)

Entries == [k \in Keys |-> Lookup(k)]
Given == [i \in Writers |-> served[i]]

\* The step changes the entry of one key at most.
LEMMA EntryMoves ==
  ASSUME NEW K \in Keys, \A k \in Keys \ {K} : Lookup(k)' = Lookup(k)
  PROVE  Entries' = [Entries EXCEPT ![K] = Lookup(K)']
BY DEF Entries

\* A file that becomes, or stays, the published one of its key is remembered
\* as the document it holds, and forgotten when it does not parse.
LEMMA EntryStep ==
  ASSUME NEW K \in Keys, \A k \in Keys \ {K} : Lookup(k)' = Lookup(k), served' = served,
         \/ Lookup(K)' = Nothing
         \/ Lookup(K)' \in Writers /\ KeyOf[Lookup(K)'] = K
  PROVE  Refines
<1>1. Entries' = [Entries EXCEPT ![K] = Lookup(K)'] /\ Given' = Given
  BY EntryMoves DEF Given
<1>2. CASE Lookup(K)' = Nothing
  BY <1>1, <1>2 DEF Refines, Contract!Next, Contract!Forget, Entries, Given
<1>3. CASE Lookup(K)' \in Writers /\ KeyOf[Lookup(K)'] = K
  BY <1>1, <1>3 DEF Refines, Contract!Next, Contract!Store, Entries, Given
<1> QED
  BY <1>2, <1>3

LEMMA RefinementStep ==
  ASSUME TypeInv, OwnerInv, FilesInv, NEW w \in Workers, Worker(w)
  PROVE  Refines
<1> USE DEF TypeOK, CacheTypeOK, HandInvOf, Holding, Filling, Goto, Settle, Drop, handVars
<1>a. PICK j, K : j = job[w] /\ K = KeyOf[j]
  OBVIOUS
<1> USE <1>a
<1>0. /\ TypeOK /\ CacheTypeOK /\ HandInvOf(w) /\ FilesInv /\ KeyOf \in [Writers -> Keys]
      /\ Nothing \notin Writers /\ Writers \subseteq Jobs
  BY JobAssumption, CacheAssumption DEF TypeInv, HandInv
<1>1. ASSUME \A k \in Keys : Lookup(k)' = Lookup(k), served' = served
      PROVE  Refines
  BY <1>1 DEF Refines
<1>2. CASE FillOpen(w)
  <2>1. j \in Writers /\ K \in Keys /\ Open(j) /\ pc[w] = "open" /\ served' = served
    BY <1>0, <1>2 DEF FillOpen
  <2>2. Unopened(j)
    BY <1>0, <2>1 DEF OwnerInv, Unopened
  <2>3. PICK f \in Writers : /\ f = IF temporary[K] = Nothing THEN j ELSE temporary[K]
                             /\ content' = [content EXCEPT ![f] = "empty"]
                             /\ published' = published
    BY <1>0, <2>1 DEF Open
  <2>4. \A k \in Keys : published[k] # f
    BY <1>0, <2>1, <2>2, <2>3 DEF FilesInv
  <2>5. \A k \in Keys : Lookup(k)' = Lookup(k)
    BY <1>0, <2>3, <2>4 DEF Lookup
  <2> QED
    BY <1>1, <2>1, <2>5
\* A write reaches a file of its key, which may be the published one.
<1>3. ASSUME j \in Writers, K \in Keys, published' = published, served' = served,
             NEW c \in {j, "torn"}, content' = [content EXCEPT ![handle[j]] = c]
      PROVE  Refines
  <2>1. \A k \in Keys \ {K} : published[k] # Nothing => published[k] # handle[j]
    BY <1>0, <1>3 DEF FilesInv
  <2>2. \A k \in Keys \ {K} : Lookup(k)' = Lookup(k)
    BY <1>0, <1>3, <2>1 DEF Lookup
  <2>3. CASE published[K] # Nothing /\ published[K] = handle[j]
    <3>1. Lookup(K)' = IF c \in Broken THEN Nothing ELSE c
      BY <1>0, <1>3, <2>3 DEF Lookup
    <3> QED
      BY <1>3, <2>2, <3>1, EntryStep DEF Broken
  <2>4. CASE ~(published[K] # Nothing /\ published[K] = handle[j])
    <3>1. Lookup(K)' = Lookup(K)
      BY <1>0, <1>3, <2>4 DEF Lookup
    <3> QED
      BY <1>1, <1>3, <2>2, <3>1
  <2> QED
    BY <2>3, <2>4
<1>4. CASE FillWrite(w)
  <2>1. j \in Writers /\ K \in Keys /\ served' = served /\ Write(j)
    BY <1>0, <1>4 DEF FillWrite
  <2>2. PICK c \in {j, "torn"} : content' = [content EXCEPT ![handle[j]] = c]
    BY <2>1 DEF Write
  <2> QED
    BY <1>3, <2>1, <2>2 DEF Write
<1>5. CASE FillFails(w)
  BY <1>0, <1>3, <1>5 DEF FillFails, WriteFails
<1>6. CASE FillPublish(w)
  <2>1. j \in Writers /\ K \in Keys /\ Publish(j) /\ served' = served
    BY <1>0, <1>6 DEF FillPublish
  <2>2. \A k \in Keys \ {K} : Lookup(k)' = Lookup(k)
    BY <1>0, <2>1 DEF Publish, Lookup
  <2>3. CASE temporary[K] = Nothing
    BY <1>0, <1>1, <2>1, <2>2, <2>3 DEF Publish, Lookup
  <2>4. CASE temporary[K] # Nothing
    <3>1. published'[K] = temporary[K] /\ content' = content /\ temporary[K] \in Writers
      BY <1>0, <2>1, <2>4 DEF Publish
    <3>2. Lookup(K)' = IF content[temporary[K]] \in Broken THEN Nothing
                                                            ELSE content[temporary[K]]
      BY <1>0, <2>4, <3>1 DEF Lookup
    <3>3. content[temporary[K]] \notin Broken =>
            content[temporary[K]] \in Writers /\ KeyOf[content[temporary[K]]] = K
      BY <1>0, <2>1, <2>4, <3>1 DEF FilesInv, Contents
    <3> QED
      BY <2>1, <2>2, <3>2, <3>3, EntryStep
  <2> QED
    BY <2>3, <2>4
<1>7. CASE CacheHit(w)
  <2>1. /\ j \in Writers /\ K \in Keys /\ Lookup(K) # Nothing /\ UNCHANGED cacheVars
        /\ served' = [served EXCEPT ![j] = Lookup(K)]
    BY <1>0, <1>7 DEF CacheHit
  <2>2. served[j] = Nothing
    BY <1>0, <1>7, <2>1 DEF CacheHit, OwnerInv
  <2>3. Entries' = Entries
    BY <2>1 DEF Entries, Lookup, cacheVars
  <2>4. Given' = [Given EXCEPT ![j] = Entries[K]] /\ Given[j] = Nothing /\ Entries[K] # Nothing
    BY <1>0, <2>1, <2>2 DEF Given, Entries
  <2> QED
    BY <2>1, <2>3, <2>4 DEF Refines, Contract!Next, Contract!Serve, Entries, Given
<1>8. ASSUME UNCHANGED cacheVars, served' = served
      PROVE  Refines
  BY <1>1, <1>8 DEF cacheVars, Lookup
<1>9. CASE Take(w) \/ CacheMiss(w) \/ Ask(w)
  BY <1>8, <1>9 DEF Take, CacheMiss, Ask, AskKnown, AskOwn, AskWait, StopWaiting
<1>10. CASE RunProbe(w) \/ Decide(w)
  BY <1>8, <1>10 DEF RunProbe, ProbeStart, ProbeEnd, TellOthers, Decide, DecideLaunch,
     DecideAskOther, DecideSkip
<1>11. CASE Query(w) \/ LeaveSlot(w)
  BY <1>8, <1>11 DEF Query, Launch, Succeed, Throttle, Fail, TimeOut, LeaveSlot
<1> QED
  BY <1>2, <1>4, <1>5, <1>6, <1>7, <1>9, <1>10, <1>11 DEF Worker, Fill

\* A job is only ever served a whole document stored under its key, however the
\* writers of a key interleave and whatever fills the disk refuses.
THEOREM CacheIsSafe == Spec => CacheContract
<1> DEFINE Inv == OwnerInv /\ FilesInv
<1>1. Init => Inv /\ Contract!Init
  <2> SUFFICES ASSUME Init
               PROVE  Inv /\ Contract!Init
    OBVIOUS
  <2>1. OwnerInv
    BY JobAssumption DEF Init, OwnerInv, Holding, Asking, Filling
  <2>2. FilesInv
    BY CacheAssumption DEF Init, CacheInit, FilesInv, Broken
  <2>3. Contract!Init
    BY JobAssumption DEF Init, CacheInit, Contract!Init, Lookup
  <2> QED
    BY <2>1, <2>2, <2>3
<1>2. TypeInv /\ Inv /\ [Next]_vars => Inv' /\ Refines
  <2> SUFFICES ASSUME TypeInv, Inv, [Next]_vars
               PROVE  Inv' /\ Refines
    OBVIOUS
  <2>1. ASSUME NEW w \in Workers, Worker(w)
        PROVE  Inv' /\ Refines
    BY <2>1, OwnerStep, FilesStep, RefinementStep
  <2>2. CASE UNCHANGED vars
    BY <2>2 DEF vars, cacheVars, handVars, OwnerInv, FilesInv, Unopened, Refines, Lookup
  <2> QED
    BY <2>1, <2>2 DEF Next
<1>3. Refines => [Contract!Next]_<<[k \in Keys |-> Lookup(k)], [j \in Writers |-> served[j]]>>
  BY DEF Refines
<1> QED
  BY <1>1, <1>2, <1>3, SpecTypes, PTL DEF Spec, CacheContract, Contract!Spec
=============================================================================

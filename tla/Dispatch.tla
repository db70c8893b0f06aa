------------------------------ MODULE Dispatch ------------------------------
(***************************************************************************)
(* How a worker of s1engine/engine.py brings one job to the backend: the   *)
(* middle of _process_job, from the cache lookup to the cache fill, with   *)
(* what the workers share on the way: the slice cache, the table of source *)
(* probes and the governor's slots.  The queue, the ledger and the retry   *)
(* policy around it are in Engine; here a job that fails is just settled.  *)
(***************************************************************************)
EXTENDS Governor, SourcePrecheck, SliceCache, FiniteSets

CONSTANTS
  Jobs,         \* the jobs of the run; Writers are the cacheable ones
  FieldOf,      \* _query_source: the field a job's query anchors its source by
  SourceOf,     \* _query_source: the source, or Nothing for an unanchored query
  Workers,      \* worker threads
  MaxThrottles  \* bound: 429 answers in all

ASSUME JobAssumption ==
  /\ Writers \subseteq Jobs
  /\ Nothing \notin Jobs /\ Nothing \notin Sources
  /\ FieldOf \in [Jobs -> Fields]
  /\ SourceOf \in [Jobs -> Sources \cup {Nothing}]
  /\ IsFiniteSet(Workers)
  /\ MaxThrottles \in Nat

VARIABLES
  data,       \* backend: the probes that find data, fixed for past days
  outcome,    \* per job: "none" while it waits or is worked on, then how it ended
  served,     \* per job: the cached document it was given
  pc,         \* per worker: the step it is at
  job,        \* per worker: the job in its hands
  field,      \* per worker: the field it is asking about
  found,      \* per worker: the answer of the last _field_has_data
  throttles,  \* bound: 429 answers so far
  launches,   \* history: per probe, the launches it caused
  earned      \* history: successes reported since the last throttle

handVars == <<job, field, found>>
historyVars == <<throttles, launches, earned>>
vars == <<governorVars, precheckVars, cacheVars, data, outcome, served, pc,
          handVars, historyVars>>

Steps == {"idle", "lookup", "ask", "wait", "probe", "probing", "tell", "decide",
          "slot", "query", "open", "write", "publish", "leave", "raise", "dead"}
\* The steps at which a worker holds a governor slot.
Slotted == {"probing", "query", "open", "write", "publish", "leave", "raise"}
\* The threads that a wall timeout has killed, or is about to.
Dead == {w \in Workers : pc[w] \in {"raise", "dead"}}

Outcomes == {"none", "cached", "skipped", "mismatch", "launched"}

TypeOK ==
  /\ GovernorTypeOK /\ PrecheckTypeOK /\ CacheTypeOK
  /\ data \subseteq Probes
  /\ outcome \in [Jobs -> Outcomes]
  /\ served \in [Jobs -> Writers \cup {Nothing}]
  /\ pc \in [Workers -> Steps]
  /\ job \in [Workers -> Jobs \cup {Nothing}]
  /\ field \in [Workers -> Fields]
  /\ found \in [Workers -> {"data", "empty"}]
  /\ throttles \in Nat /\ earned \in Nat
  /\ launches \in [Probes -> Nat]

FirstField == CHOOSE f \in Fields : TRUE

Init ==
  /\ GovernorInit /\ PrecheckInit /\ CacheInit
  /\ data \in SUBSET Probes
  /\ outcome = [j \in Jobs |-> "none"]
  /\ served = [j \in Jobs |-> Nothing]
  /\ pc = [w \in Workers |-> "idle"]
  /\ job = [w \in Workers |-> Nothing]
  /\ field = [w \in Workers |-> FirstField]
  /\ found = [w \in Workers |-> "data"]
  /\ throttles = 0 /\ earned = 0
  /\ launches = [p \in Probes |-> 0]

Goto(w, from, to) == pc[w] = from /\ pc' = [pc EXCEPT ![w] = to]
Probe(w) == <<field[w], SourceOf[job[w]]>>
Settle(w, how) == outcome' = [outcome EXCEPT ![job[w]] = how]

\* A worker gets a job nobody has.
Take(w) ==
  /\ Goto(w, "idle", "lookup")
  /\ \E j \in Jobs : /\ outcome[j] = "none" /\ \A v \in Workers : job[v] # j
                     /\ job' = [job EXCEPT ![w] = j]
  /\ UNCHANGED <<governorVars, precheckVars, cacheVars, data, outcome, served,
                 field, found, historyVars>>

\* The call returns: its locals are gone with the job.
Drop(w) ==
  /\ job' = [job EXCEPT ![w] = Nothing]
  /\ field' = [field EXCEPT ![w] = FirstField]
  /\ found' = [found EXCEPT ![w] = "data"]

CacheHit(w) ==
  LET j == job[w] IN
  /\ Goto(w, "lookup", "idle")
  /\ j \in Writers /\ Lookup(KeyOf[j]) # Nothing
  /\ served' = [served EXCEPT ![j] = Lookup(KeyOf[j])]
  /\ Settle(w, "cached") /\ Drop(w)
  /\ UNCHANGED <<governorVars, precheckVars, cacheVars, data, historyVars>>

\* No usable entry: a job anchored to one source asks about its own field.
CacheMiss(w) ==
  LET j == job[w] IN
  /\ Goto(w, "lookup", IF SourceOf[j] = Nothing THEN "slot" ELSE "ask")
  /\ j \in Writers => Lookup(KeyOf[j]) = Nothing
  /\ field' = [field EXCEPT ![w] = FieldOf[j]]
  /\ UNCHANGED <<governorVars, precheckVars, cacheVars, data, outcome, served,
                 job, found, historyVars>>

-----------------------------------------------------------------------------
(* _field_has_data                                                         *)

AskKnown(w) ==
  /\ Goto(w, "ask", "decide")
  /\ Known(Probe(w))
  /\ found' = [found EXCEPT ![w] = answer[Probe(w)]]
  /\ UNCHANGED <<governorVars, precheckVars, cacheVars, data, outcome, served,
                 job, field, historyVars>>

AskOwn(w) ==
  /\ Goto(w, "ask", "probe")
  /\ Own(Probe(w))
  /\ UNCHANGED <<governorVars, cacheVars, data, outcome, served, handVars, historyVars>>

AskWait(w) ==
  /\ Goto(w, "ask", "wait")
  /\ ~Known(Probe(w)) /\ ~MayOwn(Probe(w))
  /\ UNCHANGED <<governorVars, precheckVars, cacheVars, data, outcome, served,
                 handVars, historyVars>>

\* The event is set, or 120 s are over: time is not modelled, so either may come.
StopWaiting(w) ==
  /\ Goto(w, "wait", "decide")
  /\ found' = [found EXCEPT ![w] = Heard(Probe(w))]
  /\ UNCHANGED <<governorVars, precheckVars, cacheVars, data, outcome, served,
                 job, field, historyVars>>

ProbeStart(w) ==
  /\ Goto(w, "probe", "probing")
  /\ Enter
  /\ launches' = [launches EXCEPT ![Probe(w)] = @ + 1]
  /\ UNCHANGED <<precheckVars, cacheVars, data, outcome, served, handVars,
                 throttles, earned>>

\* The backend answers, or the probe raises anything: it fails open, and not
\* even a 429 reaches the governor.
Seen(p) == IF p \in data THEN {"data"} ELSE {"empty", "data"}

ProbeEnd(w) ==
  /\ Goto(w, "probing", "tell")
  /\ \E a \in Seen(Probe(w)) : found' = [found EXCEPT ![w] = a]
  /\ Leave
  /\ UNCHANGED <<precheckVars, cacheVars, data, outcome, served, job, field, historyVars>>

TellOthers(w) ==
  /\ Goto(w, "tell", "decide")
  /\ Tell(Probe(w), found[w])
  /\ UNCHANGED <<governorVars, cacheVars, data, outcome, served, handVars, historyVars>>

\* Back in _process_job: with data under the query's own field it is launched,
\* otherwise the other field tells why there is none.
DecideLaunch(w) ==
  /\ Goto(w, "decide", "slot")
  /\ field[w] = FieldOf[job[w]] /\ found[w] = "data"
  /\ UNCHANGED <<governorVars, precheckVars, cacheVars, data, outcome, served,
                 handVars, historyVars>>

DecideAskOther(w) ==
  /\ Goto(w, "decide", "ask")
  /\ field[w] = FieldOf[job[w]] /\ found[w] = "empty"
  /\ field' = [field EXCEPT ![w] = Other(@)]
  /\ UNCHANGED <<governorVars, precheckVars, cacheVars, data, outcome, served,
                 job, found, historyVars>>

DecideSkip(w) ==
  /\ Goto(w, "decide", "idle")
  /\ field[w] # FieldOf[job[w]]
  /\ Settle(w, IF found[w] = "data" THEN "mismatch" ELSE "skipped") /\ Drop(w)
  /\ UNCHANGED <<governorVars, precheckVars, cacheVars, data, served, historyVars>>

-----------------------------------------------------------------------------
(* The launch, under a governor slot, and the cache fill.                  *)

Launch(w) ==
  /\ Goto(w, "slot", "query")
  /\ Enter
  /\ UNCHANGED <<precheckVars, cacheVars, data, outcome, served, handVars, historyVars>>

\* The query succeeds; the result of a past day goes to the cache.
Succeed(w) ==
  /\ Goto(w, "query", IF job[w] \in Writers THEN "open" ELSE "leave")
  /\ OnSuccess
  /\ earned' = earned + 1
  /\ IF job[w] \in Writers THEN UNCHANGED outcome ELSE Settle(w, "launched")
  /\ UNCHANGED <<precheckVars, cacheVars, data, served, handVars, throttles, launches>>

\* A 429: the job is queued again before its slot is given back.
Throttle(w) ==
  /\ Goto(w, "query", "leave")
  /\ throttles < MaxThrottles
  /\ OnThrottle
  /\ throttles' = throttles + 1 /\ earned' = 0
  /\ Drop(w)
  /\ UNCHANGED <<precheckVars, cacheVars, data, outcome, served, launches>>

\* An error that returns from the call: rejected, split or failed, the job is
\* settled here.  Engine has the one that is tried again.
Fail(w) ==
  /\ Goto(w, "query", "leave")
  /\ Settle(w, "launched")
  /\ UNCHANGED <<governorVars, precheckVars, cacheVars, data, served, handVars, historyVars>>

\* A wall timeout settles the job too, split or failed, but its handler does not
\* return: the call goes on, reports a success and fails for want of a result.
TimeOut(w) ==
  /\ Goto(w, "query", "raise")
  /\ OnSuccess
  /\ Settle(w, "launched")
  /\ UNCHANGED <<precheckVars, cacheVars, data, served, handVars, historyVars>>

FillOpen(w) ==
  /\ Goto(w, "open", "write")
  /\ Open(job[w])
  /\ UNCHANGED <<governorVars, precheckVars, data, outcome, served, handVars, historyVars>>

FillWrite(w) ==
  /\ Goto(w, "write", "publish")
  /\ Write(job[w])
  /\ UNCHANGED <<governorVars, precheckVars, data, outcome, served, handVars, historyVars>>

\* Mutant: an error of the cache ends the call without giving the slot back.
FillFailsLeaks(w) ==
  /\ Goto(w, "write", "idle")
  /\ WriteFails(job[w])
  /\ Settle(w, "launched") /\ Drop(w)
  /\ UNCHANGED <<governorVars, precheckVars, data, served, historyVars>>

FillFails(w) ==
  /\ Goto(w, "write", "leave")
  /\ WriteFails(job[w])
  /\ Settle(w, "launched")
  /\ UNCHANGED <<governorVars, precheckVars, data, served, handVars, historyVars>>

FillPublish(w) ==
  /\ Goto(w, "publish", "leave")
  /\ Publish(job[w])
  /\ Settle(w, "launched")
  /\ UNCHANGED <<governorVars, precheckVars, data, served, handVars, historyVars>>

\* Out of the with block, by a return or by the error that ends the thread.
LeaveSlot(w) ==
  /\ Goto(w, "leave", "idle") \/ Goto(w, "raise", "dead")
  /\ Leave
  /\ Drop(w)
  /\ UNCHANGED <<precheckVars, cacheVars, data, outcome, served, historyVars>>

Ask(w) == AskKnown(w) \/ AskOwn(w) \/ AskWait(w) \/ StopWaiting(w)
RunProbe(w) == ProbeStart(w) \/ ProbeEnd(w) \/ TellOthers(w)
Decide(w) == DecideLaunch(w) \/ DecideAskOther(w) \/ DecideSkip(w)
Query(w) == Launch(w) \/ Succeed(w) \/ Throttle(w) \/ Fail(w) \/ TimeOut(w)
Fill(w) == FillOpen(w) \/ FillWrite(w) \/ FillFails(w) \/ FillPublish(w)

Worker(w) == \/ Take(w) \/ CacheHit(w) \/ CacheMiss(w)
             \/ Ask(w) \/ RunProbe(w) \/ Decide(w)
             \/ Query(w) \/ Fill(w) \/ LeaveSlot(w)

Next == \E w \in Workers : Worker(w)

Spec == Init /\ [][Next]_vars

\* The scheduler does not stop the process while some thread can take a step.
FairSpec == Spec /\ WF_vars(Next)

-----------------------------------------------------------------------------
(* Properties                                                              *)

\* A job is recorded as empty without a launch only if the backend has no data
\* for its source under its own field, whatever probes failed, and however
\* long the workers that wait for another's probe had to wait.
SkipIsProven ==
  \A j \in Jobs : outcome[j] \in {"skipped", "mismatch"} =>
    SourceOf[j] # Nothing /\ <<FieldOf[j], SourceOf[j]>> \notin data

\* Workers that ask at the same time share one probe: each (field, source, day)
\* costs one launch in a run, a failed probe included.
ProbedOnce == \A p \in Probes : launches[p] <= 1

\* The governor's count is exact: it is the number of workers that probe,
\* query or fill the cache, on every path out of a slot.
SlotsAccounted == active = Cardinality({w \in Workers : pc[w] \in Slotted})

\* The limit grows only on a full streak of successes since the last throttle,
\* to which a thread that a wall timeout kills adds one that it did not have.
GrowthIsEarned ==
  [][limit' > limit => earned' + Cardinality(Dead') >= IncreaseAfter]_vars

\* Shared temporary files, renames of another writer's file and full disks
\* included, a job is only ever served a whole document stored under its key.
Contract == INSTANCE ResultCache WITH
  entry <- [k \in Keys |-> Lookup(k)],
  served <- [j \in Writers |-> served[j]]
CacheContract == Contract!Spec

\* No wait for a probe, for a slot or for a limit that was halved is for ever:
\* every thread ends with nothing in its hands, and every job is settled unless
\* wall timeouts have killed all the threads.
EveryJobSettles ==
  <>(/\ \A w \in Workers : pc[w] \in {"idle", "dead"}
     /\ Workers = Dead \/ \A j \in Jobs : outcome[j] # "none")
=============================================================================

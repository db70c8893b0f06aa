------------------------------- MODULE Engine -------------------------------
(***************************************************************************)
(* The execution engine of s1engine/engine.py together with the durable    *)
(* job ledger of s1engine/ledger.py it drives.                             *)
(*                                                                         *)
(* A process plans a run (one ledger row per query and time window), then  *)
(* drains the claimable rows through a pool of worker threads that share   *)
(* one queue.  A worker marks its job in flight, runs it on the backend    *)
(* and settles it: done, pending again (throttled, transient error),       *)
(* permanent (rejected, or skipped by the query's circuit breaker),        *)
(* subdivided into child windows, or failed.  The process may be cancelled *)
(* or killed at any time; a later process plans again under the same run   *)
(* id and resumes from the ledger.                                         *)
(*                                                                         *)
(* Each action is one step of a thread between two points where another    *)
(* thread, or a kill, can come in between and be noticed.                  *)
(***************************************************************************)
EXTENDS Integers, Sequences, FiniteSets, SequencesExt

CONSTANTS
  Queries,            \* enabled, runnable queries of the catalog
  Windows,            \* time windows: planned slices and their sub-slices
  Span,               \* the units of time in each window
  Split,              \* the sub-slices of a window, {} at floor granularity
  Plans,              \* the windows planned by each successive process
  PastWindows,        \* windows that end before today: cacheable
  Workers,            \* worker threads of the pool
  NoJob,              \* Python's None: the pill, and an empty hand
  MaxAttempts,        \* RunParams.max_attempts
  AbortOnPermanent,   \* RunParams.abort_query_on_permanent
  SubdivideOnTimeout, \* RunParams.subdivide_on_timeout
  Precheck,           \* RunParams.precheck_source_existence
  Outcomes,           \* how a backend call may end in this instance
  Crashes,            \* when the process may be killed in this instance
  MaxRuns,            \* bound: processes started under this run id
  MaxThrottles        \* bound: 429 answers per job

\* A job's id is a hash of the run, the query, the window and the scope; the run
\* and its scope are fixed here, so the query and the window identify a job.
Jobs == Queries \X Windows
QueryOf(j) == j[1]
WindowOf(j) == j[2]

\* Mutant: the split stops one step early and loses the last sub-slice.
ChildrenShort(j) ==
  {QueryOf(j)} \X {v \in Split[WindowOf(j)] :
                    \E u \in Split[WindowOf(j)] : \A x \in Span[v], y \in Span[u] : x < y}
Children(j) == {QueryOf(j)} \X Split[WindowOf(j)]

AllOutcomes == {"ok", "throttle", "syntax", "error", "timeout", "fault"}

ASSUME FiniteAssumption ==
  /\ IsFiniteSet(Queries) /\ IsFiniteSet(Windows)
  /\ IsFiniteSet(Workers) /\ Workers # {}
  /\ NoJob \notin Jobs

\* subdivide() partitions the window, and a window is a sub-slice of at most
\* one other: the sub-slices of different windows start or end elsewhere.
ASSUME SplitAssumption ==
  /\ Split \in [Windows -> SUBSET Windows]
  /\ Span \in [Windows -> SUBSET Nat]
  /\ \A w \in Windows : Split[w] # {} => UNION {Span[c] : c \in Split[w]} = Span[w]
  /\ \A w \in Windows : \A c, d \in Split[w] : c # d => Span[c] \cap Span[d] = {}
  /\ \A v, w \in Windows : v # w => Split[v] \cap Split[w] = {}

ASSUME PlanAssumption ==
  /\ MaxRuns \in Nat /\ MaxThrottles \in Nat /\ MaxAttempts \in Nat
  /\ Plans \in [1..MaxRuns -> SUBSET Windows]
  /\ \A r \in 1..MaxRuns : Plans[r] \cap UNION {Split[w] : w \in Windows} = {}
  /\ PastWindows \subseteq Windows
  /\ {AbortOnPermanent, SubdivideOnTimeout, Precheck} \subseteq BOOLEAN
  /\ Outcomes \subseteq AllOutcomes
  /\ Crashes \in {"never", "between_splits", "anywhere"}

VARIABLES
  state,       \* ledger: jobs.state ("absent": no such row)
  attempts,    \* ledger: jobs.attempts
  status,      \* ledger: runs.status
  files,       \* jobs whose slice result file is written
  cache,       \* jobs whose result is in the shared slice cache
  throttles,   \* bound: 429 answers each job has had
  run,         \* bound: processes started so far
  phase,       \* where the process is: "idle" (none), "planned", "running"
  cancel,      \* the event engine._cancel: "clear" or "set"
  broken,      \* engine._broken: why a query's breaker tripped, or "no"
  queue,       \* work, the shared FIFO queue
  outstanding, \* outstanding["n"]
  pc,          \* per worker: the step it is at
  job,         \* per worker: the job in its hands
  attempt,     \* per worker: the local `attempts`
  after,       \* per worker: the step that follows _handle_transient
  todo         \* per worker: sub-slices not yet inserted, then not yet queued

ledgerVars == <<state, attempts, throttles>>
storeVars  == <<files, cache>>
runVars    == <<status, run, phase, cancel>>
poolVars   == <<queue, outstanding>>
localVars  == <<attempt, after, todo>>
vars == <<state, attempts, throttles, files, cache, status, run, phase, cancel,
          broken, queue, outstanding, pc, job, attempt, after, todo>>

States == {"absent", "pending", "in_flight", "done", "failed", "permanent",
           "subdivided"}
Steps == {"off", "idle", "taken", "slot", "serve", "served", "running",
          "persist", "mark", "put", "requeue", "split", "subdivide", "enqueue",
          "giveup", "trip", "trip_syntax", "finish", "raise", "exited", "dead"}

StoreTypeOK ==
  /\ state \in [Jobs -> States]
  /\ attempts \in [Jobs -> Nat]
  /\ throttles \in [Jobs -> Nat]
  /\ files \subseteq Jobs
  /\ cache \subseteq Queries \X PastWindows

RunTypeOK ==
  /\ status \in {"none", "planned", "running", "complete", "incomplete", "cancelled"}
  /\ run \in 0..MaxRuns
  /\ phase \in {"idle", "planned", "running"}
  /\ cancel \in {"clear", "set"}
  /\ broken \in [Queries -> {"no", "syntax", "exhausted"}]
  /\ queue \in Seq(Jobs \cup {NoJob})
  /\ outstanding \in Int

WorkerTypeOK ==
  /\ pc \in [Workers -> Steps]
  /\ job \in [Workers -> Jobs \cup {NoJob}]
  /\ attempt \in [Workers -> Nat]
  /\ after \in [Workers -> {"finish", "raise"}]
  /\ todo \in [Workers -> SUBSET Jobs]

TypeOK == StoreTypeOK /\ RunTypeOK /\ WorkerTypeOK

\* The shared cache outlives the run: other cases may have filled it already.
Init ==
  /\ state = [j \in Jobs |-> "absent"]
  /\ attempts = [j \in Jobs |-> 0]
  /\ throttles = [j \in Jobs |-> 0]
  /\ files = {}
  /\ cache \in SUBSET (Queries \X PastWindows)
  /\ status = "none" /\ run = 0 /\ phase = "idle" /\ cancel = "clear"
  /\ broken = [q \in Queries |-> "no"]
  /\ queue = <<>> /\ outstanding = 0
  /\ pc = [w \in Workers |-> "off"]
  /\ job = [w \in Workers |-> NoJob]
  /\ attempt = [w \in Workers |-> 0]
  /\ after = [w \in Workers |-> "finish"]
  /\ todo = [w \in Workers |-> {}]

-----------------------------------------------------------------------------
(* Ledger operations.                                                      *)

\* Mutant: INSERT OR REPLACE, an existing row is pending again.
UpsertReplaces(js) ==
  state' = [j \in Jobs |-> IF j \in js THEN "pending" ELSE state[j]]

\* upsert_job: insert a pending row unless the row exists, in any state.
Upsert(js) ==
  state' = [j \in Jobs |-> IF j \in js /\ state[j] = "absent" THEN "pending"
                           ELSE state[j]]

\* _update: a plain UPDATE of the row's state, whatever the state was.
Mark(j, s) == state' = [state EXCEPT ![j] = s]

\* mark_in_flight: the one update that also bumps the attempts.
MarkInFlight(j) ==
  /\ Mark(j, "in_flight")
  /\ attempts' = [attempts EXCEPT ![j] = @ + 1]

\* Mutants: rejected jobs are claimed too; rows left in flight are not reset;
\* a run with failed rows is complete.
ClaimableRejected == {j \in Jobs : state[j] \in {"pending", "failed", "permanent"}}
StaleIgnored == {}
CompleteDespiteFailures == \A j \in Jobs : state[j] \notin {"pending", "in_flight"}

\* claimable; the rows reset_stale resets; whether coverage finds none left.
Claimable == {j \in Jobs : state[j] \in {"pending", "failed"}}
Stale == {j \in Jobs : state[j] = "in_flight"}
Complete == \A j \in Jobs : state[j] \notin {"pending", "failed", "in_flight"}

-----------------------------------------------------------------------------
(* The process that owns the run.                                          *)

\* A new process, with a new engine (not cancelled), plans the run.
Plan ==
  /\ phase = "idle" /\ run < MaxRuns
  /\ Upsert(Queries \X Plans[run + 1])
  /\ status' = IF status = "none" THEN "planned" ELSE status
  /\ run' = run + 1
  /\ phase' = "planned"
  /\ cancel' = "clear"
  /\ UNCHANGED <<attempts, throttles, storeVars, broken, poolVars, pc, job, localVars>>

\* The prologue of run(): stale in-flight rows and failed rows are pending
\* again, every claimable row is queued, and the pool starts.
Begin ==
  LET claim == Claimable \cup Stale IN
  /\ phase = "planned"
  /\ state' = [j \in Jobs |-> IF j \in claim THEN "pending" ELSE state[j]]
  /\ broken' = [q \in Queries |-> "no"]
  /\ queue' = SetToSeq(claim)
  /\ outstanding' = Cardinality(claim)
  /\ IF claim = {} THEN /\ status' = "complete"
                        /\ phase' = "idle"
                        /\ UNCHANGED pc
                   ELSE /\ status' = "running"
                        /\ phase' = "running"
                        /\ pc' = [w \in Workers |-> "idle"]
  /\ UNCHANGED <<attempts, throttles, storeVars, run, cancel, job, localVars>>

\* What a process leaves behind in memory when it is gone: nothing.
ProcessGone ==
  /\ phase' = "idle"
  /\ cancel' = "clear"
  /\ broken' = [q \in Queries |-> "no"]
  /\ queue' = <<>> /\ outstanding' = 0
  /\ pc' = [w \in Workers |-> "off"]
  /\ job' = [w \in Workers |-> NoJob]
  /\ attempt' = [w \in Workers |-> 0]
  /\ after' = [w \in Workers |-> "finish"]
  /\ todo' = [w \in Workers |-> {}]

\* Every thread is joined: run() records the status and returns.
Return ==
  /\ phase = "running"
  /\ \A w \in Workers : pc[w] \in {"exited", "dead"}
  /\ status' = IF cancel = "set" THEN "cancelled" ELSE IF Complete THEN "complete" ELSE "incomplete"
  /\ ProcessGone
  /\ UNCHANGED <<ledgerVars, storeVars, run>>

\* request_cancel, from another thread.
Cancel ==
  /\ phase \in {"planned", "running"} /\ cancel = "clear"
  /\ cancel' = "set"
  /\ UNCHANGED <<ledgerVars, storeVars, status, run, phase, broken, poolVars, pc, job, localVars>>

\* The rows of some sub-slices may exist while their parent is not yet marked.
Splitting(w) == pc[w] \in {"split", "subdivide"}

\* The process is killed: only the ledger and the files survive.
Crash ==
  /\ phase \in {"planned", "running"}
  /\ \/ Crashes = "anywhere"
     \/ Crashes = "between_splits" /\ \A w \in Workers : ~Splitting(w)
  /\ ProcessGone
  /\ UNCHANGED <<ledgerVars, storeVars, status, run>>

-----------------------------------------------------------------------------
(* A worker thread.                                                        *)

Goto(w, from, to) == pc[w] = from /\ pc' = [pc EXCEPT ![w] = to]

\* The thread is through with its job; only its finally clause remains.
Release(w, to) ==
  /\ pc' = [pc EXCEPT ![w] = to]
  /\ job' = [job EXCEPT ![w] = NoJob]
  /\ attempt' = [attempt EXCEPT ![w] = 0]
  /\ after' = [after EXCEPT ![w] = "finish"]
  /\ todo' = [todo EXCEPT ![w] = {}]

\* Mutant: a requeued job is not counted.
EnqueueUncounted(j) == queue' = Append(queue, j) /\ UNCHANGED outstanding

enqueue(j) ==
  /\ queue' = Append(queue, j)
  /\ outstanding' = outstanding + 1

Get(j) == queue # <<>> /\ j = Head(queue) /\ queue' = Tail(queue)

\* work.get() gives a job to process.
Take(w) ==
  /\ cancel = "clear"
  /\ Goto(w, "idle", "taken")
  /\ \E j \in Jobs : Get(j) /\ job' = [job EXCEPT ![w] = j]
  /\ UNCHANGED <<ledgerVars, storeVars, runVars, broken, outstanding, localVars>>

\* Once cancelled, the job is dropped: its row stays pending, resumable.
Drop(w) ==
  /\ cancel = "set"
  /\ Goto(w, "idle", "finish")
  /\ \E j \in Jobs : Get(j)
  /\ UNCHANGED <<ledgerVars, storeVars, runVars, broken, outstanding, job, localVars>>

\* work.get() gives a pill.
Exit(w) ==
  /\ Goto(w, "idle", "exited")
  /\ Get(NoJob)
  /\ UNCHANGED <<ledgerVars, storeVars, runVars, broken, outstanding, job, localVars>>

Tripped(j) == AbortOnPermanent /\ broken[QueryOf(j)] # "no"
\* Mutant: today's slice is cached too.
CacheableAlways(j) == TRUE

Cacheable(j) == WindowOf(j) \in PastWindows

\* The circuit breaker of the job's query is tripped: do not run it.
Abort(w) ==
  /\ pc[w] = "taken" /\ Tripped(job[w])
  /\ Mark(job[w], "permanent")
  /\ Release(w, "finish")
  /\ UNCHANGED <<attempts, throttles, storeVars, runVars, broken, poolVars>>

\* The slice cache has the result.
CacheHit(w) ==
  /\ Goto(w, "taken", "serve")
  /\ ~Tripped(job[w]) /\ Cacheable(job[w]) /\ job[w] \in cache
  /\ MarkInFlight(job[w])
  /\ UNCHANGED <<throttles, storeVars, runVars, broken, poolVars, job, localVars>>

\* The pre-check finds the query's source empty in this window.
SkipEmpty(w) ==
  /\ Goto(w, "taken", "serve")
  /\ ~Tripped(job[w]) /\ job[w] \notin cache
  /\ Precheck /\ cancel = "clear"
  /\ MarkInFlight(job[w])
  /\ UNCHANGED <<throttles, storeVars, runVars, broken, poolVars, job, localVars>>

\* Nothing spares the backend the job: the worker waits for a governor slot.
Proceed(w) ==
  /\ Goto(w, "taken", "slot")
  /\ ~Tripped(job[w]) /\ job[w] \notin cache
  /\ UNCHANGED <<ledgerVars, storeVars, runVars, broken, poolVars, job, localVars>>

\* It has the slot: mark the job, read back its attempts, call run_pq.
Launch(w) ==
  /\ Goto(w, "slot", "running")
  /\ MarkInFlight(job[w])
  /\ attempt' = [attempt EXCEPT ![w] = attempts'[job[w]]]
  /\ UNCHANGED <<throttles, storeVars, runVars, broken, poolVars, job, after, todo>>

\* run_pq returns a result.
Succeed(w) ==
  /\ "ok" \in Outcomes
  /\ Goto(w, "running", "persist")
  /\ UNCHANGED <<ledgerVars, storeVars, runVars, broken, poolVars, job, localVars>>

\* Mutant: a result served without a launch is not written.
PersistFresh(w) ==
  /\ Goto(w, "serve", "served") \/ Goto(w, "persist", "mark")
  /\ files' = IF pc[w] = "persist" THEN files \cup {job[w]} ELSE files
  /\ UNCHANGED <<ledgerVars, cache, runVars, broken, poolVars, job, localVars>>

\* _persist_slice: write the job's result file, whatever the result came from.
Persist(w) ==
  /\ Goto(w, "serve", "served") \/ Goto(w, "persist", "mark")
  /\ files' = files \cup {job[w]}
  /\ UNCHANGED <<ledgerVars, cache, runVars, broken, poolVars, job, localVars>>

\* mark_done; a cacheable result of the backend is still to be cached.
MarkDone(w) ==
  /\ \/ pc[w] = "served" /\ Release(w, "finish")
     \/ pc[w] = "mark" /\ ~Cacheable(job[w]) /\ Release(w, "finish")
     \/ Goto(w, "mark", "put") /\ Cacheable(job[w]) /\ UNCHANGED <<job, localVars>>
  /\ Mark(job[w], "done")
  /\ UNCHANGED <<attempts, throttles, storeVars, runVars, broken, poolVars>>

CachePut(w) ==
  /\ pc[w] = "put"
  /\ cache' = cache \cup {job[w]}
  /\ Release(w, "finish")
  /\ UNCHANGED <<ledgerVars, files, runVars, broken, poolVars>>

\* RateLimitError: the job is pending again and will be requeued after a nap.
Throttle(w) ==
  /\ Goto(w, "running", "requeue")
  /\ "throttle" \in Outcomes /\ throttles[job[w]] < MaxThrottles
  /\ Mark(job[w], "pending")
  /\ throttles' = [throttles EXCEPT ![job[w]] = @ + 1]
  /\ UNCHANGED <<attempts, storeVars, runVars, broken, poolVars, job, localVars>>

\* QuerySyntaxError: the job is permanent, and so is its query's breaker.
Reject(w) ==
  /\ "syntax" \in Outcomes
  /\ pc[w] = "running"
  /\ Mark(job[w], "permanent")
  /\ \/ AbortOnPermanent /\ Goto(w, "running", "trip_syntax") /\ UNCHANGED <<job, localVars>>
     \/ ~AbortOnPermanent /\ Release(w, "finish")
  /\ UNCHANGED <<attempts, throttles, storeVars, runVars, broken, poolVars>>

\* Mutant: the job is requeued without mark_pending.
RetryUnmarked(w) ==
  /\ Goto(w, "running", "requeue")
  /\ "error" \in Outcomes /\ attempt[w] < MaxAttempts
  /\ UNCHANGED <<ledgerVars, storeVars, runVars, broken, poolVars, job, localVars>>

\* ServerError or LRQError with budget left: pending, requeued after a backoff.
Retry(w) ==
  /\ Goto(w, "running", "requeue")
  /\ "error" \in Outcomes /\ attempt[w] < MaxAttempts
  /\ Mark(job[w], "pending")
  /\ UNCHANGED <<attempts, throttles, storeVars, runVars, broken, poolVars, job, localVars>>

\* Mutant: the handler and its caller both put the job back.
RequeueTwice(w) ==
  /\ pc[w] = "requeue"
  /\ queue' = queue \o <<job[w], job[w]>> /\ outstanding' = outstanding + 2
  /\ Release(w, "finish")
  /\ UNCHANGED <<ledgerVars, storeVars, runVars, broken>>

Requeue(w) ==
  /\ pc[w] = "requeue"
  /\ enqueue(job[w])
  /\ Release(w, "finish")
  /\ UNCHANGED <<ledgerVars, storeVars, runVars, broken>>

\* A SliceTimeout, or an error with the budget spent: split the window if it
\* can be split, else give up on it.  The handlers of ServerError and LRQError
\* then return; the one of SliceTimeout has no return and falls into the
\* success path, where `res` is unbound and the thread raises.
Exhaust(w) ==
  LET children == Children(job[w]) IN
  /\ pc[w] = "running"
  /\ \/ /\ "timeout" \in Outcomes
        /\ after' = [after EXCEPT ![w] = "raise"]
     \/ /\ "error" \in Outcomes /\ attempt[w] >= MaxAttempts
        /\ UNCHANGED after
  /\ \/ /\ SubdivideOnTimeout /\ children # {}
        /\ Goto(w, "running", "split")
        /\ todo' = [todo EXCEPT ![w] = children]
     \/ /\ ~SubdivideOnTimeout \/ children = {}
        /\ Goto(w, "running", "giveup")
        /\ UNCHANGED todo
  /\ UNCHANGED <<ledgerVars, storeVars, runVars, broken, poolVars, job, attempt>>

\* Sub-slices are handled left to right.
Earliest(c, js) ==
  \A d \in js \ {c} : \A x \in Span[WindowOf(c)], y \in Span[WindowOf(d)] : x < y

\* _subdivide_job upserts one child.
UpsertChild(w) ==
  \E c \in todo[w] :
    /\ Goto(w, "split", IF todo[w] = {c} THEN "subdivide" ELSE "split")
    /\ Earliest(c, todo[w])
    /\ Upsert({c})
    /\ todo' = [todo EXCEPT ![w] = @ \ {c}]
    /\ UNCHANGED <<attempts, throttles, storeVars, runVars, broken, poolVars, job, attempt, after>>

MarkSubdivided(w) ==
  /\ Goto(w, "subdivide", "enqueue")
  /\ Mark(job[w], "subdivided")
  /\ todo' = [todo EXCEPT ![w] = Children(job[w])]
  /\ UNCHANGED <<attempts, throttles, storeVars, runVars, broken, poolVars, job, attempt, after>>

EnqueueChild(w) ==
  \E c \in todo[w] :
    /\ pc[w] = "enqueue"
    /\ Earliest(c, todo[w])
    /\ enqueue(c)
    /\ \/ /\ todo[w] # {c}
          /\ todo' = [todo EXCEPT ![w] = @ \ {c}]
          /\ UNCHANGED <<pc, job, attempt, after>>
       \/ todo[w] = {c} /\ Release(w, after[w])
    /\ UNCHANGED <<ledgerVars, storeVars, runVars, broken>>

\* Mutant: the breaker trips without mark_failed.
GiveUpUnmarked(w) ==
  /\ Goto(w, "giveup", "trip") /\ AbortOnPermanent
  /\ UNCHANGED <<ledgerVars, storeVars, runVars, broken, poolVars, job, localVars>>

GiveUp(w) ==
  /\ pc[w] = "giveup"
  /\ Mark(job[w], "failed")
  /\ \/ AbortOnPermanent /\ Goto(w, "giveup", "trip") /\ UNCHANGED <<job, localVars>>
     \/ ~AbortOnPermanent /\ Release(w, after[w])
  /\ UNCHANGED <<attempts, throttles, storeVars, runVars, broken, poolVars>>

\* Trip the breaker of the query, for the reason the job was settled with.
Trip(w) ==
  /\ pc[w] \in {"trip_syntax", "trip"}
  /\ broken' = [broken EXCEPT ![QueryOf(job[w])] =
                  IF pc[w] = "trip_syntax" THEN "syntax" ELSE "exhausted"]
  /\ Release(w, after[w])
  /\ UNCHANGED <<ledgerVars, storeVars, runVars, poolVars>>

\* An exception no handler catches: a malformed answer, a full disk.
Fault(w) ==
  /\ "fault" \in Outcomes
  /\ pc[w] \in {"running", "persist", "serve"}
  /\ Release(w, "raise")
  /\ UNCHANGED <<ledgerVars, storeVars, runVars, broken, poolVars>>

\* Mutant: one pill too few.
PillsShort == [i \in 1..(Cardinality(Workers) - 1) |-> NoJob]

Pills == [i \in 1..Cardinality(Workers) |-> NoJob]

\* The finally clause: whoever brings the count to zero wakes the whole pool.
\* An uncaught exception then ends the thread.
Finish(w) ==
  /\ Goto(w, "finish", "idle") \/ Goto(w, "raise", "dead")
  /\ outstanding' = outstanding - 1
  /\ queue' = IF outstanding' = 0 THEN queue \o Pills ELSE queue
  /\ UNCHANGED <<ledgerVars, storeVars, runVars, broken, job, localVars>>

\* _process_job, cut where other threads can be noticed.
Process(w) ==
  \/ Abort(w) \/ CacheHit(w) \/ SkipEmpty(w) \/ Proceed(w) \/ Launch(w)
  \/ Succeed(w) \/ Persist(w) \/ MarkDone(w) \/ CachePut(w)
  \/ Throttle(w) \/ Reject(w) \/ Retry(w) \/ Requeue(w)
  \/ Exhaust(w) \/ UpsertChild(w) \/ MarkSubdivided(w) \/ EnqueueChild(w)
  \/ GiveUp(w) \/ Trip(w) \/ Fault(w)

Worker(w) == Take(w) \/ Drop(w) \/ Exit(w) \/ Process(w) \/ Finish(w)

\* Nobody starts another process under this run id.
Idle == phase = "idle" /\ run = MaxRuns /\ UNCHANGED vars

Next ==
  \/ Plan \/ Begin \/ Return \/ Cancel \/ Crash \/ Idle
  \/ \E w \in Workers : Worker(w)

Spec == Init /\ [][Next]_vars

\* Threads are scheduled and backend calls end (HTTP timeouts, wall timeout).
\* Nothing is assumed of users: they need not cancel, restart or resume.
Fairness ==
  /\ WF_vars(Begin) /\ WF_vars(Return)
  /\ \A w \in Workers : WF_vars(Worker(w))
FairSpec == Spec /\ Fairness

-----------------------------------------------------------------------------
(* Properties.                                                             *)

\* Each job has at most one owner: it is in the queue once, or in the hands
\* of one worker, never both ("in_flight -> a worker currently owns it").
SoleOwner ==
  /\ \A i, k \in DOMAIN queue : queue[i] = queue[k] /\ queue[i] # NoJob => i = k
  /\ \A v, w \in Workers : job[v] = job[w] /\ job[v] # NoJob => v = w
  /\ \A i \in DOMAIN queue, w \in Workers : queue[i] # NoJob => queue[i] # job[w]

\* While the pool runs, the ledger agrees with the threads: a queued job is
\* pending, and an in-flight row is in some worker's hands.
LedgerMatchesPool ==
  phase = "running" =>
    /\ \A i \in DOMAIN queue : queue[i] # NoJob => state[queue[i]] = "pending"
    /\ \A j \in Jobs : state[j] = "in_flight" => \E w \in Workers : job[w] = j

\* A row that is done, or about to be marked so, has its result file, however
\* the process was interrupted ("done -> completed (result_path written)").
DoneHasResult ==
  /\ \A j \in Jobs : state[j] = "done" => j \in files
  /\ \A w \in Workers : pc[w] \in {"served", "mark"} => job[w] \in files

Planned == UNION {Plans[r] : r \in 1..run}
SpanOf(ws) == UNION {Span[w] : w \in ws}

\* "Nothing is ever silently dropped": at every moment each unit of planned
\* time is in a row that is neither missing nor replaced by its sub-slices.
NoHole ==
  phase # "idle" =>
    \A q \in Queries :
      SpanOf(Planned) \subseteq
        SpanOf({w \in Windows : state[<<q, w>>] \notin {"absent", "subdivided"}})

\* The rows finalize() merges for a query never cover the same time twice.
NoDoubleCount ==
  \A q \in Queries : \A v, w \in Windows :
    v # w /\ state[<<q, v>>] = "done" /\ state[<<q, w>>] = "done"
      => Span[v] \cap Span[w] = {}

\* A run that returned left no row in flight, and one that returned without
\* being cancelled left none pending either ("every job ends in a terminal
\* ledger state you can audit").
ReturnSettles ==
  /\ phase = "idle" /\ status \in {"complete", "incomplete", "cancelled"} =>
       \A j \in Jobs : state[j] # "in_flight"
  /\ phase = "idle" /\ status \in {"complete", "incomplete"} =>
       \A j \in Jobs : state[j] # "pending"

\* A run reported complete has an answer, or a recorded rejection, for every
\* unit of time it ever planned.
CompleteIsCovered ==
  phase = "idle" /\ status = "complete" =>
    \A q \in Queries :
      SpanOf(Planned) \subseteq
        SpanOf({w \in Windows : state[<<q, w>>] \in {"done", "permanent"}})

Busy(w) == pc[w] \notin {"off", "idle", "exited", "dead"}

\* outstanding counts the jobs that are queued or still in a worker's try
\* block, so the pills come when, and only when, there is no work left.
PoolAccounting ==
  /\ outstanding = Cardinality({i \in DOMAIN queue : queue[i] # NoJob})
                     + Cardinality({w \in Workers : Busy(w)})
  /\ (\E i \in DOMAIN queue : queue[i] = NoJob) => outstanding = 0
  /\ (\E w \in Workers : pc[w] = "exited") => outstanding = 0

\* A tripped breaker has a cause on record: a rejected row for "syntax", a
\* failed one for "exhausted".
BreakerHasCause ==
  \A q \in Queries :
    /\ broken[q] = "syntax" => \E w \in Windows : state[<<q, w>>] = "permanent"
    /\ broken[q] = "exhausted" => \E w \in Windows : state[<<q, w>>] = "failed"

\* The ledger keeps its promise about every job, interrupted or not.
Lifecycle == INSTANCE JobLifecycle
LifecycleSpec == Lifecycle!Spec

\* A row that is done is never touched again: what a resumed run executes is
\* "only what is outstanding".
DoneStaysDone ==
  [][\A j \in Jobs : state[j] = "done" => state'[j] = "done"]_vars

\* A job is given up, or split, for a transient error only after MaxAttempts
\* launches that were not throttled: a 429 is "not counted against the retry
\* budget".
ThrottlesAreFree ==
  [][\A j \in Jobs : state[j] = "in_flight" /\ state'[j] \in {"failed", "subdivided"}
       => attempts[j] - throttles[j] >= MaxAttempts]_vars

\* "permanent -> non-retryable (query syntax error / catalog bug)": a row
\* becomes permanent when the backend rejects it, or its query's breaker was
\* tripped by a rejection.
PermanentIsRejected ==
  [][\A j \in Jobs : state[j] # "permanent" /\ state'[j] = "permanent"
       => state[j] = "in_flight" \/ broken[QueryOf(j)] = "syntax"]_vars

\* After request_cancel "in-flight slices finish; no new ones start".
NoLaunchAfterCancel ==
  [][cancel = "set" => \A j \in Jobs : state[j] = "pending" => state'[j] # "in_flight"]_vars

\* run() returns: no retry, requeue, subdivision or shutdown goes on for ever
\* or leaves the pool waiting on itself.
RunReturns == phase = "planned" ~> phase = "idle"
=============================================================================

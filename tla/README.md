# A verification project for s1-soc-investigation

TLA+ specifications, TLC runs and TLAPS proofs about the investigation engine:
the program that splits a long look-back into one job per query and time window,
runs the jobs as Long Running Queries against a rate-limited backend, and keeps
a durable ledger so that a run can be killed and resumed.

## 1. The system

| Part | Source | State it keeps | Operations |
|---|---|---|---|
| Execution engine | `s1engine/engine.py` | the work queue, the count of outstanding jobs, the circuit breaker, the cancel event, the pool's threads | `plan`, `run`, `request_cancel`, `finalize`; per job: breaker, cache, pre-check, launch, settle, retry, subdivide |
| Job ledger | `s1engine/ledger.py` | SQLite rows: a run's status, a job's state and attempts | `record_run`, `upsert_job`, `reset_stale_in_flight`, `claimable`, `mark_*`, `coverage` |
| Slice cache | `s1engine/cache.py` | one file per content-addressed slice, shared by all runs | `get`, `put` |
| Slicing | `s1engine/slicing.py` | none | `day_slices`, `slices_for_lookback`, `subdivide` |
| Source pre-check | `engine.py:481-515` | one answer or one event per probed source and window | `_field_has_data` |
| Rate governor | `s1engine/rate_limiter.py` | the AIMD limit, active slots, success streak; the tokens of a bucket | `slot`, `on_success`, `on_throttle`, `acquire` |
| LRQ client | `s1engine/lrq_client.py` | one remote query per call | `launch`, `poll`, `cancel`, `run_pq` |
| Activity log | `s1engine/activity.py` | a ring of events with sequence numbers, and their file | `log`, `tail`, `last_seq`, `read_file` |
| Run registry | `app/server.py` | `_RUNS` in memory, `run_meta.json` and `run_status.json` on disk | `start_run`, `resume_run`, status, history, reopen |
| Merge, verify | `merge.py`, `verify.py` | none | re-aggregation of slices; the verdict of a run |
| Catalog, scope gate | `catalog.py` | none | which queries a subject's variables allow |

How they interact: the server (or the command line) starts one thread that calls
`plan` and `run`. `run` starts the pool; its threads share the queue, the count,
the breaker, the cache, the table of probes and the governor, call the LRQ client
(whose requests share a token bucket), and write result files, then ledger rows.
When `run` has returned, the same thread merges, verifies and persists the
verdict. Every event goes to the activity log, which the web page polls together
with the status. Only the ledger and the files survive the process.

Hard to get right, and hard to test: workers that requeue, subdivide and finish
while the last one out must stop the pool, exactly once; ledger rows that are
updated unconditionally, so that only the callers' order protects them; a kill
between any two writes; a breaker that one worker trips while others run the
same query; a limit that is halved below the slots in use; waiters for a probe
that give up while it still runs; writers of one key that share a temporary
file; answers lost on the way to and from the backend; a status that turns final
before its verdict is on disk; slices that are clipped, split, rounded and planned
again; and outcomes, such as a wall timeout, that no test drives through the whole
`_process_job`. `PROJECT.json` lists them with their lines.

What makes each component correct:

* Engine and ledger: a job has one owner; rows follow the documented state
  machine; a done row has its result; no planned time is lost or counted twice;
  `run` returns, with every row settled.
* Cache: what is read is a complete result of that very slice, never today's.
* Slicing: the slices partition the window, the sub-slices partition the slice.
* Pre-check: each source and window is probed once; a job is skipped only on an
  answer.
* Governor: at most `limit` jobs are admitted, and waiting jobs get on.
* Client: each remote query that was launched is cancelled or finished.
* Registry: one engine per run id; the status a reader sees is one the run had,
  and once terminal it stays so until a resume.
* Activity: a polling client sees each event at most once, in order, and misses
  only what the ring has given up.
* Merge: re-aggregating the slices gives what the unsliced rows give.

## 2. The modules

| Module | What it is |
|---|---|
| `Engine` | the engine, its pool and the ledger it drives: the whole of `plan` and `run` |
| `JobLifecycle` | abstract: the ledger's state machine, with no process, thread or queue |
| `Dispatch` | the middle of `_process_job` in detail; composes the next three |
| `Governor` | the AIMD controller and its slots |
| `SourcePrecheck` | the table of source probes, their owners and waiters |
| `SliceCache` | the cache as files: published and temporary names, open handles |
| `ResultCache` | abstract: a cache of whole documents that may forget |
| `LRQClient` | the calls of `run_pq`, the backend and the clock; extends the next |
| `TokenBucket` | the bucket with its lazy refill |
| `IdealBucket` | abstract: a bucket that gains at every tick |
| `RunServer` | the registry, the run threads, the files of a run, kill and resume |
| `ActivityLog` | the log of a start: numbers, ring, file; used by `RunServer` |
| `Console` | `RunServer` with the page that starts, watches, cancels and resumes runs |
| `Investigation` | a run as its data sees it: plan, answers, splits, merge, verdict; composes the next three |
| `Slicing`, `Merging`, `ScopeGate` | the pure algorithms of `slicing.py`, `merge.py`, `catalog.py` |
| `MCEngine`, `MCDispatch`, `MCInvestigation` | small instances for TLC |
| `EngineOwnership` | proofs about `Engine`: its types, the ownership of jobs, the refinement of `JobLifecycle` |
| `EngineCoverage`, `EngineAccounting` | proofs about `Engine`: the planned time, the pool's count and the ledger |
| `DispatchSafety` | proofs about `Dispatch`, and that `SliceCache` implements `ResultCache` |
| `ClientSafety` | proofs about `LRQClient` and `TokenBucket` |
| `ConsoleSafety` | proofs about `Console`, and so `RunServer` and `ActivityLog` |
| `InvestigationSafety` | proofs about `Investigation`, `Slicing` and `Merging` |
| `Reductions` | lemmas of the last two: induction over a finite set, minimum, maximum, sum |

`Engine`, `Dispatch` and `Investigation` look at the same code at three grains.
`Engine` has the queue, the ledger and the retry policy, and lets the pre-check,
the slot and the cache come out either way. `Dispatch` has these three in full, and
leaves to `Engine` the errors after which a job is tried again. `Investigation` has one
step per job, and what `Engine` abstracts: times, rows and values. `RunServer` in
turn knows of an engine only what `verify_run` can tell of its ledger.

### `Engine`: state and actions

The ledger is `state`, `attempts` and `status`; the result files are `files`, the
slice cache is `cache`. A kill keeps these. The process is `phase`, `cancel`,
`broken`, `queue` and `outstanding`; each worker has a program counter `pc`, the
`job` in its hands, its local `attempt`, the step that follows
`_handle_transient` (`after`), and the sub-slices it still has to insert or queue
(`todo`). `run` and `throttles` only bound the model.

A step ends where another thread, or a kill, can come in and tell the
difference: at every ledger commit, file write, queue operation, breaker access
and read of the cancel event. The code between two such points, and what only
logs, counts statistics or sleeps, is part of the step before it.

| Code | Actions |
|---|---|
| `plan` | `Plan` |
| `run`, before and after the pool | `Begin`, `Return` |
| `run.worker`: `work.get`, its three outcomes, `finally` | `Take`, `Drop`, `Exit`, `Finish` |
| `_process_job`: breaker, cache, pre-check, slot, launch | `Abort`, `CacheHit`, `SkipEmpty`, `Proceed`, `Launch` |
| success: file, row, cache | `Succeed`, `Persist`, `MarkDone`, `CachePut` |
| 429, 400 | `Throttle`, `Reject` |
| `_handle_transient`: retry, split, give up, trip | `Retry`, `Requeue`, `Exhaust`, `UpsertChild`, `MarkSubdivided`, `EnqueueChild`, `GiveUp`, `Trip` |
| an exception nobody catches | `Fault` |
| `request_cancel`, a kill | `Cancel`, `Crash` |

Two details are worth a reader's attention. The handler of `SliceTimeout`
(`engine.py:447-452`) has no `return`: after `_handle_transient` it runs into the
success path, where `res` is unbound, so the thread raises; that is `after[w] =
"raise"`, and `Finish` then ends the thread in `"dead"`. And `upsert_job`'s children
are committed one by one before `mark_subdivided`; `Splitting(w)` names that
interval.

What is abstracted: a job is a query and a window (its id is their hash with the
run and scope, which are fixed); windows carry the set of time units they span;
backend calls end in one of six ways (`Outcomes`); results have no content; the
pre-check answers either way; the governor lets a worker wait any time. A kill is
of the process, not of the machine: a committed transaction survives it, which
is what SQLite's WAL with `synchronous=NORMAL` gives. `Plan` and `Begin` are one
step each: a kill inside them leaves some rows inserted or reset, and the next
process inserts or resets the rest. The model assumes that a planned window is
never also a sub-slice of another (`PlanAssumption`): day windows never are, and a
clipped look-back window would have to fall on a quarter of a day to the second.

### `Dispatch`: cache, probes and slots

Per worker there is a step `pc`, the `job`, the `field` it asks about and the answer
it `found`; a step ends at each critical section and at each file operation.

| Code | Actions |
|---|---|
| `SliceCache.get` in `_process_job` | `CacheHit`, `CacheMiss` |
| `_field_has_data`, under `_src_lock` | `AskKnown`, `AskOwn`, `AskWait`, `TellOthers` (guards and updates in `SourcePrecheck`) |
| `ev.wait(timeout=120)` | `StopWaiting`: it may end before the answer comes |
| the probe, in a slot of its own | `ProbeStart`, `ProbeEnd` |
| what the answers decide | `DecideLaunch`, `DecideAskOther`, `DecideSkip` |
| `with self.gov.slot()`, `on_success`, `on_throttle`, the errors | `Launch`, `Succeed`, `Throttle`, `Fail`, `TimeOut`, `LeaveSlot` (in `Governor`) |
| `SliceCache.put`: open, dump, rename, error | `FillOpen`, `FillWrite`, `FillPublish`, `FillFails` (in `SliceCache`) |

The limit is a float that is only halved and incremented; `Governor` keeps it in
units of `1/Unit`, where all its values are integers. `SliceCache` has inodes: a name
points to a file, named after its creator, and a writer that has a file open goes
on writing it after another has renamed it. A second write over a file that was
not truncated since may leave a tail that does not parse (`"torn"`). A probe that
raises fails open and its 429 does not reach the governor, as in the code.

`Fail` is an error whose handler returns. A wall timeout is not one (see `Engine`):
`TimeOut` settles the job, reports a success to the governor, and leads through
`"raise"` to `"dead"`, where the thread stays (`Dead`). So timeouts feed the streak on
which the limit grows, one for each thread of the pool at most, and a pool may die
with jobs left over; `GrowthIsEarned` and `EveryJobSettles` say exactly that.

Abstracted: the queue (a job that nobody holds may be taken), the ledger, cancel,
retries and the parts of a split job, which `Engine` has; a probe of a day without
data may still answer "data", which stands for its failures.

### `LRQClient`: calls, bucket and backend

A call is one `run_pq` in a thread of its own: it launches, checks the time, polls,
sleeps, and cancels in its `finally`; each of the three requests first takes a token
(`Send`, or `AwaitToken` and a nap). The end of a request is one of `Launched`,
`LaunchUnanswered`, `LaunchRefused`, `PollAnswered`, `PollRefused`, `PollLost`, `Cancelled`,
`CancelLost`. The backend (`RemoteFinish`, `RemoteExpire`, and what its answers may
be) is external: it is modelled from how the client uses it. `Tick` moves the
clocks of the bucket, the sleepers, the calls and the backend.

`TokenBucket` has the refill as the code does it, lazily at each `acquire`; `since` is
the time since `_last`, and stands still once it could not matter any more. `ticks`
and `passed` watch one window, which may begin at any tick, so that `RateBound`
speaks of all of them. Request bodies, tags and the decoding of tables are left out.

### `RunServer`, `ActivityLog`, `Console`: a run and its watcher

A start is numbered; the number names its registry entry, engine, log and thread.
The thread's steps follow `_run` in `start_run`: `PlanRun`, `Work`, `RunReturns`, `Verify`,
`SetStatus`, `LogVerdict`, then `WriteVerdict` and `WriteStatus` of `_persist_status`;
`Raise` and `LogError` are its `except`. On disk are the ledger, reduced to what
`verify_run` can tell of it, the verdict and the status; `Kill` keeps these and the
activity file. `StatusOf`, `VerdictOf`, `FeedStatusOf` and `FeedOf` are what the requests
answer, live or from disk. `Console` adds the page: `viewRun` (`View`), its clicks, and
a poll in three steps: the server reads the records (`ReadFeed`), then the status,
with which the page receives them (`ReceiveFeed`), then the second request
(`ReceiveStatus`). The threads go on between any two of them, and `Crash` may come.

A record is its number and its log. `lines` has what the page shows, one set per
answer; within an answer the records of a log come by number, and nothing depends on
how those of two logs are mixed. `LASTSEQ` is `since`. A run is opened by `View`: on a
resume at once, and else by `ClickRow` when the user, or the answer to the request
that started it, gets round to it. So `ClickStart`, which may also be another client's
request, leaves the page alone, and a run may be opened when its ring has already
dropped its first records, or long after its end.

Where the page misses records, and where the properties stop:

* A view begins at `LASTSEQ = 0`. Of a run that has logged more than the ring holds it
  begins with a gap. A page that watches from the start misses records only if it
  falls behind until the ring drops what it has not read. `FeedLosesOnlyOld` allows
  both, and nothing else.
* After a kill the records come from the file, are shown, and move `LASTSEQ` on like
  the others. The file has those of every start, each of which numbers from 1, and
  the server leaves out all numbers up to `LASTSEQ`: a page that followed the third
  start then gets the rest of the third, and of the first two the part that has
  greater numbers. `FeedInOrder` says that no record comes twice and that each log
  stays in order; `FeedLosesOnlyOld` is about the logs that the page has been
  following since its first answer, not about these fragments of earlier ones.
* Nothing promises that the last records are shown. The page stops at a final status,
  which the server reads after the records, and one answer has at most `Limit`.

Abstracted: a start is one step (a kill inside it leaves a run like one that was
killed at once); batches start their items as `Start` does; one page, whose polls
are answered before the next is due, and whose user acts between two polls and
clicks Resume once; a cancel after `run` has returned, which only logs; and the
answer "unknown" of a status whose catalog cannot be loaded, so that `StopsOnVerdict`
takes the catalog to be readable. A resumed run may get new rows in a ledger that
had passed (`PlanRun`), as the look-back of `engine_lookback` does.

### `Investigation`: what the data sees

A request is a catalog, variables, a window and the events of the backend. `Plan`
crosses the queries that `Runnable` lets through (`ScopeGate`) with the slices of the
window (`Slicing`) into a ledger; `Fetch`, `TooSlow` and `GiveUp` end a job in one step;
`Finish` is `finalize` with `Merging`, and `verify_run`; `Resume` plans once more over
the rows that are there. Times are ticks, of which several make a second, and the
ledger rounds both ends down to a second, as `iso_z` does. The key columns are one
group key, and the alignment of columns between slices is left out.

## 3. The runs

The engine runs have two workers and one query. The windows are a day that splits into a
morning and an afternoon at the floor, and today's slice, which cannot be split;
`engine_lookback` has the first and the last window of a look-back instead, as two
successive processes clip them.

| Run | Shows |
|---|---|
| `engine_pool` | One process, all six outcomes, liveness. `NoHole`: each unit of planned time is always in a row that is neither missing nor replaced. `PoolAccounting`: the count that stops the pool is the number of queued and held jobs, pills come at zero only. `BreakerHasCause`. `RunReturns`. |
| `engine_resume` | Two processes, kills outside a subdivision, cancel, cache, pre-check, two attempts. `SoleOwner`, `LedgerMatchesPool`, `DoneHasResult`, `NoDoubleCount`, `ReturnSettles`, `CompleteIsCovered`, and `LifecycleSpec`: the engine implements `JobLifecycle`. |
| `engine_timeout` | violates `ReturnSettles`: wall timeouts kill the workers, rows stay pending |
| `engine_torn` | violates `DoneStaysDone`: a kill inside a subdivision re-runs finished children |
| `engine_throttled` | violates `ThrottlesAreFree`: a 429 uses up the retry budget |
| `engine_outage` | violates `PermanentIsRejected`: transient errors make siblings permanent |
| `engine_cancel` | violates `NoLaunchAfterCancel`: a worker past the check still launches |
| `engine_lookback` | violates `NoDoubleCount`: a resumed look-back overlaps itself |
| `dispatch` | Three workers, three jobs: two over one past day with the same text (so one cache key), one over today anchored by the other field; two throttles. `SkipIsProven`, `ProbedOnce`, `SlotsAccounted`, `EveryJobSettles`, and `CacheContract`: the files implement `ResultCache`. `GrowthIsEarned`: the limit grows on a full streak of successes, short by no more than the threads that a wall timeout has killed. |
| `client` | Two calls share a bucket of one token. `RateBound`, `NoOrphan`, `OneLatePoll`, `OkIsComplete`, `EveryCallReturns`, and `BucketContract`: the bucket implements `IdealBucket`. |
| `console` | One run, two starts, one kill. `CompleteIsTrue`: "complete" is never told of a ledger with an open or failed slice. `FeedInOrder`: no record is shown twice or before an earlier one of its log. `FeedLosesOnlyOld`: a log that is followed has a gap only where the ring has dropped records. `StopsOnVerdict`, `PollingEnds`. |
| `data` | 24 investigations. `SlicesTile`, `CountsAreExact`, `DistinctIsBound`, `ExtremesAreExact`: the merged tables against the answer of one unsliced query. `NeverTenantWide`, `PreviewIsBound`, `ReplanAddsNothing`. |

The six violations are disagreements between the code and its own documents;
`PROJECT.json` quotes the lines. The first was also confirmed by running the
code with a transport that never completes a query.

Bounds of the engine runs. Two workers are enough for every race in the pool: the code
distinguishes "me" from "the others" only (the proofs cover any number). One
query suffices because queries share nothing but the pool, the queue and the
count. Two processes cover a kill, a cancelled or an incomplete run, and its
resume; `MaxAttempts` 2 covers a retry that succeeds and one that exhausts;
`MaxThrottles` 1 covers a requeue, and without a bound a backend that always
answers 429 keeps a run alive for ever, as in the code. `engine_resume` leaves out
timeouts and faults because a dead worker leaves its row in flight, which
`LedgerMatchesPool` and `ReturnSettles` then rightly report (`engine_timeout`), and
kills inside a subdivision because of `engine_torn`.

Bounds of the other runs.

* `dispatch`: three workers are one that owns a probe, one that waits for it and one
  with a slot; also a limit of two slots that is below the number of active ones
  after a throttle, and two throttles take it to its minimum. Two writers of one key
  suffice for every pair of file operations. `Unit` 4 keeps the halves exact. Any call
  may time out, so that one, two or all threads may be dead.
* `client`: two threads overtake one another at the bucket; `Wall`, `Expiry` and the
  interval are one tick, so that each can come before or after the others. One
  refusal stands for all: the classes are told apart by `Classify` only, and no
  property but the types depends on the class.
* `console`: a second start is a resume after an end, a cancel or a kill, with the
  files of the first there. `MaxEvents` 2 lets a start log three records with the
  one that ends it; a ring of 2 then overflows, whether the page is open
  or not yet, and `Limit` 1 makes the page fall behind. The one kill leaves the file of
  one or of two starts to be read.
* `data`: a day has 32 ticks of half a second, with a floor of 8, so a day can be split
  twice, and the second split ends at the floor. The windows begin and end inside a
  day, inside a second, on a boundary, with slices of one and two days, and one is
  empty. The catalog of three queries has each scope, each kind of placeholder and
  variables that are absent, blank and given. Two splits at a time, one lost job and
  one resume reach every pair of states of neighbouring slices.

Fairness. `RunReturns`: weak fairness of `Begin`, of `Return` and of each worker.
Threads are scheduled by the operating system; a backend call ends because HTTP
calls and queries have timeouts; a wait for a slot ends because slots are
released in a `finally`. Nothing is assumed of the user: no cancel, restart or
resume has to happen.
`EveryJobSettles`: weak fairness of `Next` as a whole, so only that the system does
not stop while some thread can take a step; every job takes boundedly many. It says
that every thread ends without work, idle or dead, and that all jobs are settled
unless all threads are dead.
`EveryCallReturns`: of the clock and of each call, because a request ends by the
transport's timeout; nothing makes the backend finish a query, and no turn is
kept for a thread at the bucket. `PollingEnds`: of the page's timer and of the run
threads together, each of which takes boundedly many steps. `Investigation` states
safety only.

Each property has a mutant of a mapped definition (marked `Mutant` beside it)
that violates it: a pill too few, a requeue that is not counted, `INSERT OR
REPLACE` instead of the upsert, rows left in flight that are not reset, a waiter
that fails closed, a refused request that forgets to move `_last`, a finished
query that is not cancelled, a verdict that looks for failed rows only, equal
parts that lose the remainder, a minimum that starts from zero, and so on.

## 4. The proofs

TLAPS checks these for every value of the constants; the assumptions are the
`ASSUME`s of the modules, and what a theorem itself assumes.

`Engine`, for every catalog, window tree, pool size, attempt budget and number of
restarts:

* `TypeCorrect`: `Spec => []TypeOK`. Types alone are not inductive: a worker writes
  a file for the job in its hands, so `HandInv` (hands are full exactly at the
  steps that need a job), `PutInv` (what is about to be cached is past) and `PhaseInv`
  (no pool outside `run`) are carried along.
* `Ownership`: `Spec => []SoleOwner`, if `Crashes # "anywhere"`. The inductive
  invariant `OwnershipInv` adds: the row of a held job tells its worker's step
  (`RowInv`); a queued job is pending (`QueueInv`); the children of a job being split
  are unowned, absent while still to insert and pending after (`SplitInv`); and a
  child has a row only if its parent is subdivided or in the hands of a worker
  that is splitting it (`ChildInv`). The last part is what a kill inside a
  subdivision breaks, and `engine_torn` shows that the condition cannot be dropped.
* `Refinement`: under the same condition `Spec => LifecycleSpec`. The ledger's
  updates are unconditional, so that rows follow its state machine rests on
  `RowInv` and `SoleOwner`. `DoneIsFinal` follows: a done row is never touched again.
* `ResultsAreSafe`: `Spec => []DoneHasResult`, wherever a process is killed.

* `NothingIsDropped`: `Spec => []NoHole`, under the same condition. A planned
  window may be replaced by its sub-slices, and these by theirs, so `CoverInv` says of
  every row, planned or not, that what it spans is covered by rows that are neither
  missing nor replaced; `WholeInv`, that only a window with sub-slices is split.
* `NothingIsCountedTwice`: `Spec => []NoDoubleCount`, if also `PlansDisjoint`: two
  live rows that overlap are a job that a worker is just splitting and one of its
  sub-slices (`OverlapInv`), and every row lies in a planned window (`RootInv`). `engine_lookback` shows that
  `PlansDisjoint` cannot be dropped, and that look-back runs do not have it.
* `CompleteMeansCovered`: `Spec => []CompleteIsCovered`, if also `PlansStable`. While
  the status is "complete" no row is left for a process to work on, and as soon as
  the pool runs again the status is "running" (`StatusInv`).
* `PoolIsAccounted`: `Spec => []PoolAccounting`, with no condition on kills or faults, by
  the cardinality of the sets of queued jobs and of busy workers, one step at a time.
* `LedgerTellsThePool`: `Spec => []LedgerMatchesPool`, if no kill falls inside a
  subdivision and no worker dies of an exception. `HeldInv` is the half that
  `OwnershipInv` lacks: a row in flight is in somebody's hands.
* `BreakersHaveCauses`: `Spec => []BreakerHasCause`, because settled rows keep their state
  as long as a process lives, and a worker trips the breaker after it has settled.
* `ReturnLeavesNothing`: `Spec => []ReturnSettles`, if no kill falls inside a subdivision,
  `PlansStable`, and no worker dies of a wall timeout or an exception (`AliveInv`).
  A pending job is then queued, held, or a child that the worker at its parent will
  still queue (`WaitInv`); the count and `HeldInv` leave none of these when the last
  thread exits, and no plan or kill adds a row to a run that is over (`QuietInv`).
  `engine_timeout` shows that the condition on wall timeouts cannot be dropped.

`Dispatch`, for any numbers of workers, jobs, sources and keys, and any limits:

* `TypeCorrect`; for the limit's range the inductive part is that halving and adding
  a unit stay between the bounds.
* `SkipsAreProven`: `SkipInv` gives a worker's answer its evidence: a table entry, or a
  `found`, says "empty" only of a probe without data; and a worker that asks about the
  other field has an "empty" for its own.
* `ProbesAreShared`: a probe that is not in flight was never launched, and the worker
  about to launch one is its only owner and nobody has launched it before
  (`ProbeInv`).
* `SlotsAreAccounted`: `active` is the number of workers at a slotted step; needs the
  pool to be finite.
* `GrowthIsPaidFor`: the streak never exceeds the successes since the last throttle and
  the threads that a wall timeout has killed, together (`StreakInv`).
* `CacheIsSafe`: `Spec => CacheContract`. `FilesInv`: published names, temporary names,
  handles and documents stay with the files of their key, no file has both names,
  and none is named after a job that has not opened it yet; that a job opens its file
  once needs `OwnerInv` (a job in hand is in one pair of hands, and not settled). A writer with a handle to a published
  file may still tear it, which `ResultCache` sees as `Forget`, and complete it, which it
  sees as `Store`.

`LRQClient` and `TokenBucket`, for any number of calls and any rates and timeouts:

* `TypeCorrect`; `NoQueryIsOrphaned` and `LatePollsAreBounded` from `ClientInv`: no
  query exists before its launch, and once a call has sent a late poll its time is
  up wherever it would test it again.
* `ResultsAreComplete`: an action property, from the same invariant.
* `RateIsBounded`: what has passed and what is in the bucket, refilled to the
  moment, are together at most what the window allows (`BucketInv`).
* `BucketIsIdeal`: `Spec => BucketContract`. Under the mapping `level <- Refilled`, a refused
  `acquire` is a stutter because it keeps the refill together with its time.

`Console`, for any numbers of runs, starts, kills and records:

* `TypeCorrect`; the greatest number of an answer is one of its numbers because rings
  and files are finite (`FiniteInv`).
* `CompleteIsCorrect`: `Spec => []CompleteIsTrue`. Several threads may be at work for one
  run, because a run may be resumed as soon as its status is final, while its last
  start still writes its files. The inductive `PageInv` has: a start that is not the
  registered one is past its judgement (`RegisterInv`), and one that can still say
  "complete" is the registered one (`ClaimInv`); once one start was judged
  complete, or a file says so, every slice is done and no thread of the run works on
  slices any more (`TruthInv`); and the page offers to resume only a run that no
  thread works for (`ButtonInv`), which rests on `PollInv`: what a poll has been told of
  the end of a run is still so when the next answer comes.
* `StopsCorrectly`: `Spec => []StopsOnVerdict`. The verdict is on disk before the status
  is (`ThreadInv`, `FilesInv`), so a page that reads the files between the two, or after
  a kill between the two, finds no final status without its verdict.
* `FeedKeepsOrder`: `Spec => []FeedInOrder`, and `FeedMissesOnlyOld`:
  `Spec => []FeedLosesOnlyOld`, for a ring and a limit of any size, with no condition on
  how much a run logs or when it is opened. `RecordInv` ties the ring and the file to
  the log: the file has every record of a start, the ring the last `RingSize`.
  `LinesInv` says what the page has: nothing numbered above `since`, and of the log it
  follows every record up to `since` that the ring has not had to give up. `AnswerInv`
  says the same of an answer on its way: all of it is newer than `since`, and what it
  skips is old. An answer from the ring skips none that is in the ring, because `tail`
  takes the first `Limit` (`TailFacts`); one from the file skips none of its log.

`Investigation`, for any window, day, floor, length of slices, catalog, variables and
finite set of events, and any numbers of splits, lost jobs and resumes:

* `DaySlicesTile`, `SubdivideTiles`: the two algorithms of `slicing.py`, for every input.
  Rounding an end down keeps the order of the boundaries (`IsoZMonotone`), so slices
  that share boundaries before they are rounded share them after (`ChainTiles`).
* `TypeCorrect`, and `TilingIsExact`: `Spec => []SlicesTile`. That the rows that are not
  subdivided tile the window is not inductive: a part that happened to be a row
  already would keep the state of that row, subdivided perhaps, and leave a hole.
  `TileInv` therefore says of every row, subdivided or not, that what it spans is tiled by
  rows inside it that are not subdivided; parts are shorter than their slice and
  apart from the other rows, hence new (`SplitTiles`).
* `ReplanIsIdempotent`: `Spec => ReplanAddsNothing`, from `PlanInv`: what planning computes is
  there ever since the first plan.
* `ScopeIsKept` and `PreviewIsSafe`: `[]NeverTenantWide` and `[]PreviewIsBound`, because rows
  are only of queries that were runnable (`PlanInv`, too).
* `CountsAreRight`, `DistinctIsSafe`, `ExtremesAreRight`: `[]CountsAreExact`,
  `[]DistinctIsBound`, `[]ExtremesAreExact`. When a run has passed, all its rows are done
  or subdivided and its tables are those of its rows (`VerdictInv`), each file is the
  backend's answer for its slice (`ResultInv`), and the slices tile the window: so they
  share out its events (`PassedParts`). The rest is about `Partition`s of a finite set of
  events and knows nothing of runs: sums add up (`SumIsExact`), distinct counts are
  bounded by their sum (`DistinctBounds`), the least of the least values is the least
  (`MinIsExact`, `MaxIsExact`), rows come once (`RowsAreExact`).

The sums of `merge.py` run over a set of slices, and the community modules define them
by a recursive function. `Reductions` proves what they are nevertheless: among sets
that lack a property there is a minimal one, as strict inclusion is well-founded on
the subsets of a finite set, which gives an induction over finite sets with a family
of sets in place of a predicate (`FiniteInduction`); and the recursive function is the
cardinality of a set of pairs (`SumIsCount`), as that satisfies the same equation.

Assumptions about constants that the proofs added, and their grounds:
`MissingAssumption` (`None` is no number), `BoundAssumption`, `StartAssumption` and
`LogAssumption` (the bounds are naturals, and a ring holds at least one record), and in
`RequestAssumption` that the events of a request are finitely many. For the sake of the
proofs the sums of `Merging` are written with `SumFunction`.

Only model-checked: all liveness (`RunReturns`, `EveryJobSettles`, `EveryCallReturns`,
`PollingEnds`), which needs fairness and `ENABLED`. Every other property of a passing
run is proved. The six violations need no proof: a counterexample settles them.

## 5. Not modelled

* Configuration: credentials and tuning are read once, from files and environment,
  and stay constant; they are the constants of the models.
* Reports and exports, lint, validate and the catalog tools: one pass from an input
  to an output, with no state between two calls and nothing concurrent. What they
  get wrong is text.
* The command line: it calls `plan`, `run` and `finalize` in sequence, which is how the
  models run them.
* The test doubles: their outcomes are among those that `Engine` enumerates.
* Of the server: authentication, enrichment, catalog editing and file downloads,
  which change no run. Of the page: what only draws, and the batch view.
* Two pages, an API client or a second click on Resume before the first is answered,
  that resume a live run (two engines then work on one ledger); polls that take longer than
  the timer's interval; the sum of the buckets of several engines. `PROJECT.json`
  names the lines and the reason with each hazard.

## 6. The plan

Done: all of the above. What is left, in order:

1. The polls of a page as requests that may be late, and several pages: what a
   record shown twice, or a second engine on one ledger, would need of the code.
2. `Engine` with several queries and three workers in one run, for the breaker.

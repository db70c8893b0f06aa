----------------------------- MODULE RunServer ------------------------------
(***************************************************************************)
(* The runs of app/server.py: the registry of live runs, the thread that   *)
(* start_run starts for each, the files a run leaves in its directory, and *)
(* what the server tells of a run, live or from disk.  The server may be   *)
(* killed at any time; what is in memory is gone then, and a run that has  *)
(* ended or was cut off may be resumed under its id, as a new start.       *)
(* A start is numbered; its number also names its registry entry, its      *)
(* engine and its activity log.  The engine's work on the ledger is in     *)
(* Engine: here the ledger is what verify_run can tell of it.              *)
(***************************************************************************)
EXTENDS ActivityLog

CONSTANTS
  None,        \* no start, no run
  MaxEvents,   \* bound: records an engine logs while it runs
  MaxKills     \* bound: kills of the server

\* Starts are numbered from 1.
ASSUME StartAssumption ==
  /\ Logs \subseteq Nat \ {0}
  /\ \A n \in Logs : \A m \in 1..n : m \in Logs
  /\ None \notin Runs
  /\ MaxEvents \in Nat /\ MaxKills \in Nat

Starts == Logs

VARIABLES
  registry,    \* _RUNS: per run the start that is registered, or 0
  runOf,       \* per start: its run, or None when it has not been made
  step,        \* per start: where its thread is
  status,      \* per start: reg["status"]
  verdict,     \* per start: reg["verification"], reduced to its passed
  cancel,      \* per start: its engine is at work and has been asked to cancel
  ended,       \* per start: the result of engine.run
  ledger,      \* disk, per run: ledger.db
  statusFile,  \* disk, per run: the status in run_status.json
  verdictFile, \* disk, per run: the verdict in verification.json
  kills        \* bound: kills so far

regVars == <<registry, runOf, status, verdict, cancel>>
threadVars == <<step, ended>>
diskVars == <<ledger, statusFile, verdictFile>>
serverVars == <<logVars, regVars, threadVars, diskVars, kills>>

Final == {"complete", "incomplete", "cancelled", "error"}
Ledgers == {"none", "empty", "outstanding", "failed", "passed"}
Thread == {"new", "plan", "run", "verify", "status", "event",
           "except", "verdict_file", "status_file", "over", "killed"}

ServerTypeOK ==
  /\ LogTypeOK
  /\ registry \in [Runs -> Starts \cup {0}]
  /\ runOf \in [Starts -> Runs \cup {None}]
  /\ step \in [Starts -> Thread]
  /\ status \in [Starts -> {"running"} \cup Final]
  /\ verdict \in [Starts -> {"none", "passed", "failed"}]
  /\ cancel \in [Starts -> BOOLEAN]
  /\ ended \in [Starts -> {"ran", "cancelled"}]
  /\ ledger \in [Runs -> Ledgers]
  /\ statusFile \in [Runs -> {"none"} \cup Final]
  /\ verdictFile \in [Runs -> {"none", "passed", "failed"}]
  /\ kills \in 0..MaxKills

ServerInit ==
  /\ LogInit
  /\ registry = [r \in Runs |-> 0]
  /\ runOf = [i \in Starts |-> None]
  /\ step = [i \in Starts |-> "new"]
  /\ status = [i \in Starts |-> "running"]
  /\ verdict = [i \in Starts |-> "none"]
  /\ cancel = [i \in Starts |-> FALSE]
  /\ ended = [i \in Starts |-> "ran"]
  /\ ledger = [r \in Runs |-> "none"]
  /\ statusFile = [r \in Runs |-> "none"]
  /\ verdictFile = [r \in Runs |-> "none"]
  /\ kills = 0

-----------------------------------------------------------------------------
(* start_run, resume_run and cancel.                                       *)

NextStart(i) == runOf[i] = None /\ \A n \in Starts : n < i => runOf[n] # None

\* start_run: the directory, ledger and metadata are made, a new entry takes
\* the run's place in the registry and its thread starts.
Start(r) ==
  /\ \E i \in Starts :
       /\ NextStart(i)
       /\ registry' = [registry EXCEPT ![r] = i]
       /\ runOf' = [runOf EXCEPT ![i] = r]
       /\ step' = [step EXCEPT ![i] = "plan"]
  /\ ledger' = [ledger EXCEPT ![r] = IF @ = "none" THEN "empty" ELSE @]
  /\ UNCHANGED <<logVars, status, verdict, cancel, ended, statusFile,
                 verdictFile, kills>>

Known(r) == ledger[r] # "none"

StartNew(r) == ~Known(r) /\ Start(r)

\* resume_run: the same run id again; whether the run is live is not asked.
Resume(r) == Known(r) /\ Start(r)

\* request_cancel.  The record it logs is one of Work's, and a request that
\* comes after the engine has returned, which only logs one more, is left out.
CancelRun(r) ==
  /\ registry[r] # 0 /\ step[registry[r]] \in {"plan", "run"}
  /\ cancel' = [cancel EXCEPT ![registry[r]] = TRUE]
  /\ UNCHANGED <<logVars, registry, runOf, status, verdict, threadVars,
                 diskVars, kills>>

-----------------------------------------------------------------------------
(* The thread of a start.                                                  *)

Goto(i, from, to) == step[i] = from /\ step' = [step EXCEPT ![i] = to]

\* plan() adds rows, to a ledger that has some only when the windows have
\* moved; run() returns at once when it can claim none.
PlanRun(i) ==
  /\ step[i] = "plan"
  /\ \E rows \in {ledger[runOf[i]], "outstanding"} :
       /\ ledger' = [ledger EXCEPT ![runOf[i]] = rows]
       /\ \/ rows \in {"outstanding", "failed"} /\ Goto(i, "plan", "run")
          \/ rows # "outstanding" /\ Goto(i, "plan", "verify")
  /\ Log(i, runOf[i])
  /\ UNCHANGED <<regVars, ended, statusFile, verdictFile, kills>>

\* The engine works on its rows and logs it.
Work(i) ==
  /\ step[i] = "run" /\ seq[i] < MaxEvents
  /\ \E rows \in {"outstanding", "failed", "passed"} :
       ledger' = [ledger EXCEPT ![runOf[i]] = rows]
  /\ Log(i, runOf[i])
  /\ UNCHANGED <<regVars, threadVars, statusFile, verdictFile, kills>>

RunReturns(i) ==
  /\ Goto(i, "run", "verify")
  /\ ended' = [ended EXCEPT ![i] = IF cancel[i] THEN "cancelled" ELSE "ran"]
  /\ cancel' = [cancel EXCEPT ![i] = FALSE]
  /\ UNCHANGED <<logVars, registry, runOf, status, verdict, diskVars, kills>>

\* verify_run: there are rows, and all of them are done or subdivided.
Passed(r) == ledger[r] = "passed"

\* finalize, verify_run and the workbook; then the verdict is in the registry.
Verify(i) ==
  /\ Goto(i, "verify", "status")
  /\ verdict' = [verdict EXCEPT ![i] = IF Passed(runOf[i]) THEN "passed" ELSE "failed"]
  /\ UNCHANGED <<logVars, registry, runOf, status, cancel, ended, diskVars, kills>>

\* Mutant: a run that does not pass gets the status of its queries.
SetStatusFailed(i) ==
  /\ Goto(i, "status", "event")
  /\ status' = [status EXCEPT ![i] = IF ended[i] = "cancelled" THEN "cancelled"
                                     ELSE IF verdict[i] = "passed" THEN "complete"
                                     ELSE "failed"]
  /\ UNCHANGED <<logVars, registry, runOf, verdict, cancel, ended, diskVars, kills>>

SetStatus(i) ==
  /\ Goto(i, "status", "event")
  /\ status' = [status EXCEPT ![i] = IF ended[i] = "cancelled" THEN "cancelled"
                                     ELSE IF verdict[i] = "passed" THEN "complete"
                                     ELSE "incomplete"]
  /\ UNCHANGED <<logVars, registry, runOf, verdict, cancel, ended, diskVars, kills>>

LogVerdict(i) ==
  /\ Goto(i, "event", "verdict_file")
  /\ Log(i, runOf[i])
  /\ UNCHANGED <<regVars, ended, diskVars, kills>>

\* Mutant: the status is left as it was.
RaiseKeepsStatus(i) ==
  /\ step[i] \in {"plan", "run", "verify", "event"}
  /\ step' = [step EXCEPT ![i] = "except"]
  /\ UNCHANGED <<logVars, regVars, ended, diskVars, kills>>

\* Anything in the thread may raise, the last record too: the status is error.
Raise(i) ==
  /\ step[i] \in {"plan", "run", "verify", "event"}
  /\ step' = [step EXCEPT ![i] = "except"]
  /\ status' = [status EXCEPT ![i] = "error"]
  /\ UNCHANGED <<logVars, registry, runOf, verdict, cancel, ended, diskVars, kills>>

LogError(i) ==
  /\ Goto(i, "except", "verdict_file")
  /\ Log(i, runOf[i])
  /\ UNCHANGED <<regVars, ended, diskVars, kills>>

\* _persist_status: first the verdict, if there is one, then the status.
WriteVerdict(i) ==
  /\ Goto(i, "verdict_file", "status_file")
  /\ verdictFile' = [verdictFile EXCEPT ![runOf[i]] = IF verdict[i] = "none" THEN @
                                                      ELSE verdict[i]]
  /\ UNCHANGED <<logVars, regVars, ended, ledger, statusFile, kills>>

WriteStatus(i) ==
  /\ Goto(i, "status_file", "over")
  /\ statusFile' = [statusFile EXCEPT ![runOf[i]] = IF status[i] = "running" THEN "incomplete"
                                                    ELSE status[i]]
  /\ UNCHANGED <<logVars, regVars, ended, ledger, verdictFile, kills>>

RunThread(i) ==
  \/ PlanRun(i) \/ Work(i) \/ RunReturns(i)
  \/ Verify(i) \/ SetStatus(i) \/ LogVerdict(i)
  \/ Raise(i) \/ LogError(i)
  \/ WriteVerdict(i) \/ WriteStatus(i)

\* The server dies and is started again: what was in memory is gone.
Kill ==
  /\ kills < MaxKills
  /\ kills' = kills + 1
  /\ registry' = [r \in Runs |-> 0]
  /\ step' = [i \in Starts |-> IF step[i] = "new" THEN "new" ELSE "killed"]
  /\ seq' = [i \in Starts |-> 0] /\ ring' = [i \in Starts |-> {}]
  /\ status' = [i \in Starts |-> "running"]
  /\ verdict' = [i \in Starts |-> "none"]
  /\ cancel' = [i \in Starts |-> FALSE]
  /\ ended' = [i \in Starts |-> "ran"]
  /\ UNCHANGED <<file, runOf, diskVars>>

-----------------------------------------------------------------------------
(* What the server tells of a run.                                         *)

\* Mutant: a run without a status file is not judged by its ledger.
RecomputeNothing(r) == "unknown"

\* Mutant: only failed rows are looked for.
RecomputeUnlessFailed(r) == IF ledger[r] = "failed" THEN "incomplete" ELSE "complete"

\* _recompute_from_ledger
Recompute(r) == IF Passed(r) THEN "complete" ELSE "incomplete"

\* GET /api/status and the list of past runs: the live status, or the file's,
\* or the ledger's verdict when there is no file.
StatusOf(r) == IF registry[r] # 0 THEN status[registry[r]]
               ELSE IF statusFile[r] # "none" THEN statusFile[r]
               ELSE Recompute(r)

VerdictOf(r) == IF registry[r] # 0 THEN verdict[registry[r]]
                ELSE IF verdictFile[r] # "none" THEN verdictFile[r]
                ELSE IF statusFile[r] # "none" THEN "none"
                ELSE IF Passed(r) THEN "passed" ELSE "failed"

\* GET /api/activity: without a status file a run that is not live counts as
\* complete here.
FeedStatusOf(r) == IF registry[r] # 0 THEN status[registry[r]]
                   ELSE IF statusFile[r] # "none" THEN statusFile[r] ELSE "complete"

FeedOf(r, n) == IF registry[r] # 0 THEN TailAfter(registry[r], n) ELSE FileAfter(r, n)
=============================================================================

--------------------------- MODULE ConsoleSafety ----------------------------
(***************************************************************************)
(* What the page shows is true: proofs about Console, for any numbers of   *)
(* runs, starts, kills and records.                                        *)
(*                                                                         *)
(* Several threads may work for one run, because a run is resumed while    *)
(* the last start still writes its files.  What keeps them apart is on the *)
(* page: it offers to resume only after a final status, and a thread that  *)
(* has set one leaves the ledger alone (RegisterInv, ButtonInv).           *)
(***************************************************************************)
EXTENDS Console, Reductions

\* The steps of a thread that has made its judgement, or has none to make.
Past == {"event", "except", "verdict_file", "status_file", "over", "killed"}
Working == {"plan", "run", "verify", "status"}

\* Only the registered start of a run is still at work, and a run without one
\* has only starts that were killed.
RegisterInv ==
  /\ \A r \in Runs : registry[r] # 0 =>
       runOf[registry[r]] = r /\ step[registry[r]] \notin {"new", "killed"}
  /\ \A i \in Starts : runOf[i] = None <=> step[i] = "new"
  /\ \A i \in Starts : \A r \in Runs : runOf[i] = r =>
       /\ ledger[r] # "none"
       /\ registry[r] # i => step[i] \in Past
       /\ registry[r] = 0 => step[i] = "killed"

\* A thread has a final status once it is past its judgement, a verdict with it
\* unless it raised, and the verdict is on disk before the status is.
ThreadInv ==
  \A i \in Starts :
    /\ status[i] \in Final <=> step[i] \in Past \ {"killed"}
    /\ step[i] = "status" \/ status[i] \in Final \ {"error"} => verdict[i] # "none"
    /\ step[i] = "status_file" /\ status[i] # "error" => verdictFile[runOf[i]] # "none"

FilesInv ==
  \A r \in Runs : statusFile[r] \in Final \ {"error"} => verdictFile[r] # "none"

\* Once a start of a run was judged complete, all its slices are done, and no
\* thread works on them any more.
Judged(r) ==
  \/ statusFile[r] = "complete"
  \/ \E i \in Starts :
       /\ runOf[i] = r
       /\ status[i] = "complete" \/ (step[i] = "status" /\ verdict[i] = "passed")

TruthInv ==
  \A r \in Runs : Judged(r) =>
    ledger[r] = "passed" /\ \A i \in Starts : runOf[i] = r => step[i] \notin {"plan", "run"}

\* Only the registered start of a run is told to be complete, and once it says
\* so on disk it is over.
ClaimInv ==
  /\ \A i \in Starts : \A r \in Runs :
       runOf[i] = r /\ status[i] = "complete" => registry[r] = i
  /\ \A r \in Runs : statusFile[r] = "complete" /\ registry[r] # 0 =>
       status[registry[r]] = "complete" /\ step[registry[r]] = "over"

\* The page offers to resume only a run that nobody works for and that was not
\* judged complete.
ButtonInv ==
  button = TRUE => /\ view \in Runs /\ ~Judged(view)
                   /\ \A i \in Starts : runOf[i] = view => step[i] \in Past

\* The page goes on with a poll only about the entry it began it with, and
\* what it has been told of the run's end is not taken back.
PollInv ==
  /\ view # None => view \in Runs /\ ledger[view] # "none"
  /\ poll # "off" => view # None
  /\ poll = "tail" => reading = registry[view]
  /\ poll # "tail" => feed = {}
  /\ poll = "fed" => shown.status = "running" \/ StatusOf(view) \in Final

Rec(n, i) == [seq |-> n, log |-> i]

\* The ring has the last records of its log; the file has all of them, and of
\* a log that was cut off the first ones.
RecordInv ==
  /\ \A i \in Starts : step[i] = "new" => seq[i] = 0
  /\ \A i \in Starts : \A x \in ring[i] : x.log = i /\ x.seq <= seq[i]
  /\ \A i \in Starts : \A n \in 1..seq[i] : n + RingSize > seq[i] => Rec(n, i) \in ring[i]
  /\ \A i \in Starts : \A r \in Runs : runOf[i] = r =>
       \A n \in 1..seq[i] : Rec(n, i) \in file[r]
  /\ \A r \in Runs : \A x \in file[r] : \A n \in 1..x.seq : Rec(n, x.log) \in file[r]

\* A record that the page has, and one that it cannot have any more.
Seen(n, i) == \E l \in DOMAIN lines : Rec(n, i) \in lines[l]
Lost(n, i) == \E z \in file[view] : z.log = i /\ z.seq >= n + RingSize

\* The page will poll again, or is still to be told of the run's end.
Following == poll \in {"ready", "tail"} \/ (poll = "fed" /\ shown.status = "running")

\* All that was shown has numbers up to LASTSEQ.  While the page follows a run,
\* it is of one log, the registered one unless a kill has come, and what is not
\* shown of it up to LASTSEQ is lost.
LinesInv ==
  /\ view = None => lines = <<>>
  /\ \A k \in DOMAIN lines : \A x \in lines[k] : x.seq <= since
  /\ Following => \A k \in DOMAIN lines : \A x \in lines[k] :
       /\ \A l \in DOMAIN lines : \A y \in lines[l] : y.log = x.log
       /\ registry[view] # 0 => x.log = registry[view]
       /\ \A n \in 1..since : Seen(n, x.log) \/ Lost(n, x.log)
  /\ Following /\ (\A k \in DOMAIN lines : lines[k] = {}) => since = 0

\* An answer on its way has records after LASTSEQ: from the file all of them,
\* from a log the next ones that are not lost.
AnswerInv ==
  poll = "tail" =>
    /\ reading = 0 => feed = FileAfter(view, since)
    /\ reading # 0 => \A x \in feed :
         /\ x.log = reading /\ x.seq > since
         /\ \A n \in (since + 1)..x.seq : Rec(n, reading) \in feed \/ Lost(n, reading)

FiniteInv == (\A r \in Runs : IsFiniteSet(file[r])) /\ (\A i \in Logs : IsFiniteSet(ring[i]))
TypeInv == TypeOK /\ FiniteInv /\ IsFiniteSet(feed)

-----------------------------------------------------------------------------
(* The activity log.                                                       *)

\* A new record keeps the types of the logs.
LEMMA LogType ==
  ASSUME LogTypeOK, FiniteInv, NEW i \in Logs, NEW r \in Runs, Log(i, r)
  PROVE  LogTypeOK' /\ FiniteInv'
<1> DEFINE rec == [seq |-> seq[i] + 1, log |-> i]
           kept == {x \in ring[i] \cup {rec} : x.seq > rec.seq - RingSize}
<1>1. rec \in Record /\ seq' \in [Logs -> Nat]
  BY DEF LogTypeOK, Log, Record
<1>2. ring' = [ring EXCEPT ![i] = kept] /\ file' = [file EXCEPT ![r] = @ \cup {rec}]
  BY DEF Log
<1>3. kept \subseteq ring[i] \cup {rec}
  OBVIOUS
<1>4. IsFiniteSet(file[r] \cup {rec}) /\ IsFiniteSet(ring[i] \cup {rec})
  BY FS_AddElement DEF FiniteInv
<1> HIDE DEF rec, kept
<1>5. IsFiniteSet(kept)
  BY <1>3, <1>4, FS_Subset
<1>6. ring' \in [Logs -> SUBSET Record] /\ file' \in [Runs -> SUBSET Record]
  BY <1>1, <1>2, <1>3 DEF LogTypeOK
<1>7. FiniteInv'
  BY <1>2, <1>4, <1>5 DEF FiniteInv, LogTypeOK
<1> QED
  BY <1>1, <1>6, <1>7 DEF LogTypeOK

\* The records after a number are records.
LEMMA FeedType ==
  ASSUME TypeInv, NEW r \in Runs, NEW n \in Nat
  PROVE  FeedOf(r, n) \in SUBSET Record /\ IsFiniteSet(FeedOf(r, n))
<1>1. ASSUME NEW i \in Logs
      PROVE  TailAfter(i, n) \in SUBSET Record /\ IsFiniteSet(TailAfter(i, n))
  <2>1. TailAfter(i, n) \subseteq ring[i] /\ ring[i] \subseteq Record /\ IsFiniteSet(ring[i])
    BY DEF TailAfter, Newer, TypeInv, FiniteInv, TypeOK, ServerTypeOK, LogTypeOK
  <2> QED
    BY <2>1, FS_Subset
<1>2. FileAfter(r, n) \in SUBSET Record /\ IsFiniteSet(FileAfter(r, n))
  <2>1. FileAfter(r, n) \subseteq file[r] /\ file[r] \subseteq Record /\ IsFiniteSet(file[r])
    BY DEF FileAfter, Newer, TypeInv, FiniteInv, TypeOK, ServerTypeOK, LogTypeOK
  <2> QED
    BY <2>1, FS_Subset
<1> QED
  BY <1>1, <1>2 DEF FeedOf, TypeInv, TypeOK, ServerTypeOK, Starts

\* LASTSEQ becomes the greatest of the numbers that came and the one it was.
LEMMA AdvanceFacts ==
  ASSUME TypeInv
  PROVE  /\ Advance \in Nat /\ Advance >= since
         /\ \A x \in feed : x.seq <= Advance
         /\ Advance = since \/ \E x \in feed : x.seq = Advance
<1> DEFINE nums == [x \in feed |-> x.seq]
           S == {x.seq : x \in feed}
           T == {since} \cup S
<1>1. feed \subseteq Record /\ since \in Nat /\ IsFiniteSet(feed)
  BY DEF TypeInv, TypeOK
<1>2. T \subseteq Nat
  BY <1>1 DEF Record
<1>3. nums \in Surjection(feed, S)
  BY DEF Surjection
<1>4. IsFiniteSet(S)
  <2> HIDE DEF nums, S
  <2> QED BY <1>1, <1>3, FS_Surjection
<1>5. IsFiniteSet(T)
  <2>1. IsFiniteSet({since})
    BY FS_Singleton
  <2> HIDE DEF S
  <2> QED BY <1>4, <2>1, FS_Union
<1>6. Max(T) \in T /\ \A x \in T : Max(T) >= x
  <2>1. T \in SUBSET Int /\ T # {}
    BY <1>2
  <2> HIDE DEF T
  <2> QED BY <1>5, <2>1, MaxExists
<1>7. Advance = Max(T)
  BY DEF Advance
<1>8. \A x \in feed : x.seq \in T
  OBVIOUS
<1>9. \A y \in T : y = since \/ \E x \in feed : x.seq = y
  OBVIOUS
<1> QED
  <2>1. since \in T
    OBVIOUS
  <2> HIDE DEF T
  <2> QED BY <1>1, <1>2, <1>6, <1>7, <1>8, <1>9, <2>1

-----------------------------------------------------------------------------
(* Types.                                                                  *)

\* The steps of a thread that change nothing of its log.
Silent(i) == RunReturns(i) \/ Verify(i) \/ SetStatus(i) \/ Raise(i) \/ WriteVerdict(i) \/ WriteStatus(i)
Loud(i) == PlanRun(i) \/ Work(i) \/ LogVerdict(i) \/ LogError(i)

\* A thread that takes a step belongs to a run.
LEMMA ThreadHasRun ==
  ASSUME TypeInv, RegisterInv, NEW i \in Starts, RunThread(i)
  PROVE  /\ step[i] \notin {"new", "over", "killed"}
         /\ runOf[i] \in Runs
         /\ ledger[runOf[i]] # "none"
         /\ registry[runOf[i]] # 0
<1>1. step[i] \notin {"new", "over", "killed"}
  BY DEF RunThread, PlanRun, Work, RunReturns, Verify, SetStatus, LogVerdict, Raise, LogError,
     WriteVerdict, WriteStatus, Goto
<1>2. runOf[i] \in Runs
  BY <1>1 DEF RegisterInv, TypeInv, TypeOK, ServerTypeOK
<1> QED
  BY <1>1, <1>2 DEF RegisterInv

LEMMA ThreadType ==
  ASSUME TypeInv, RegisterInv, NEW i \in Starts, RunThread(i), UNCHANGED pageVars
  PROVE  TypeInv'
<1> USE DEF TypeInv, TypeOK, ServerTypeOK, pageVars
<1>0. runOf[i] \in Runs /\ i \in Logs
  BY ThreadHasRun DEF Starts
<1>1. CASE Loud(i)
  <2>1. Log(i, runOf[i])
    BY <1>1 DEF Loud, PlanRun, Work, LogVerdict, LogError
  <2>2. LogTypeOK' /\ FiniteInv'
    BY <1>0, <2>1, LogType
  <2>3. ledger' \in [Runs -> Ledgers]
    BY <1>0, <1>1 DEF Loud, PlanRun, Work, LogVerdict, LogError, Ledgers, regVars, diskVars, threadVars
  <2>4. step' \in [Starts -> Thread]
    <3>1. CASE PlanRun(i)
      BY <3>1 DEF PlanRun, Goto, Thread
    <3>2. CASE Work(i)
      BY <3>2 DEF Work, threadVars
    <3>3. CASE LogVerdict(i) \/ LogError(i)
      BY <3>3, ZenonT(30) DEF LogVerdict, LogError, Goto, Thread
    <3> QED
      BY <1>1, <3>1, <3>2, <3>3 DEF Loud
  <2> QED
    BY <1>1, <2>2, <2>3, <2>4
       DEF Loud, PlanRun, Work, LogVerdict, LogError, regVars, diskVars, threadVars
<1>2. CASE Silent(i)
  <2>1. LogTypeOK' /\ FiniteInv'
    BY <1>2 DEF Silent, RunReturns, Verify, SetStatus, Raise, WriteVerdict, WriteStatus,
       logVars, LogTypeOK, FiniteInv
  <2>2. step' \in [Starts -> Thread]
    BY <1>2 DEF Silent, RunReturns, Verify, SetStatus, Raise, WriteVerdict, WriteStatus, Goto, Thread
  <2>3. /\ registry' = registry /\ runOf' = runOf /\ ledger' = ledger /\ kills' = kills
        /\ cancel' \in [Starts -> BOOLEAN]
    BY <1>2 DEF Silent, RunReturns, Verify, SetStatus, Raise, WriteVerdict, WriteStatus, regVars, diskVars
  <2>4. status' \in [Starts -> {"running"} \cup Final] /\ verdict' \in [Starts -> {"none", "passed", "failed"}]
    BY <1>2 DEF Silent, RunReturns, Verify, SetStatus, Raise, WriteVerdict, WriteStatus, regVars, Final
  <2>5. ended' \in [Starts -> {"ran", "cancelled"}]
    BY <1>2 DEF Silent, RunReturns, Verify, SetStatus, Raise, WriteVerdict, WriteStatus
  <2>6. statusFile' \in [Runs -> {"none"} \cup Final] /\ verdictFile' \in [Runs -> {"none", "passed", "failed"}]
    BY <1>0, <1>2 DEF Silent, RunReturns, Verify, SetStatus, Raise, WriteVerdict, WriteStatus, diskVars, Final
  <2> QED
    BY <2>1, <2>2, <2>3, <2>4, <2>5, <2>6
<1> QED
  BY <1>1, <1>2 DEF RunThread, Loud, Silent

LEMMA KillType ==
  ASSUME TypeInv, Kill
  PROVE  ServerTypeOK' /\ FiniteInv'
<1> USE DEF TypeInv, TypeOK, ServerTypeOK
<1>1. LogTypeOK' /\ FiniteInv'
  <2>1. IsFiniteSet({}) /\ Starts = Logs
    BY FS_EmptySet DEF Starts
  <2> QED
    BY <2>1 DEF Kill, LogTypeOK, FiniteInv
<1>2. kills' \in 0..MaxKills
  BY StartAssumption DEF Kill
<1>3. step' \in [Starts -> Thread] /\ status' \in [Starts -> {"running"} \cup Final]
  BY DEF Kill, Thread
<1> QED
  BY <1>1, <1>2, <1>3 DEF Kill, diskVars

LEMMA StartType ==
  ASSUME TypeInv, NEW r \in Runs, Start(r)
  PROVE  ServerTypeOK' /\ FiniteInv'
<1> USE DEF TypeInv, TypeOK, ServerTypeOK
<1>1. LogTypeOK' /\ FiniteInv'
  BY DEF Start, LogTypeOK, FiniteInv, logVars
<1>2. PICK i \in Starts : /\ registry' = [registry EXCEPT ![r] = i]
                          /\ runOf' = [runOf EXCEPT ![i] = r]
                          /\ step' = [step EXCEPT ![i] = "plan"]
  BY DEF Start
<1>3. step' \in [Starts -> Thread] /\ ledger' \in [Runs -> Ledgers]
  BY <1>2 DEF Start, Thread, Ledgers
<1> QED
  BY <1>1, <1>2, <1>3 DEF Start

\* The values that the server tells of a run.
LEMMA ToldType ==
  ASSUME TypeInv, NEW r \in Runs
  PROVE  /\ StatusOf(r) \in {"running"} \cup Final
         /\ FeedStatusOf(r) \in {"running"} \cup Final
         /\ VerdictOf(r) \in {"none", "passed", "failed"}
BY DEF TypeInv, TypeOK, ServerTypeOK, StatusOf, FeedStatusOf, VerdictOf, Recompute, Final

LEMMA ViewType ==
  ASSUME TypeInv, NEW r \in Runs, View(r)
  PROVE  /\ view' \in Runs \cup {None} /\ since' \in Nat /\ lines' \in Seq(SUBSET Record)
         /\ poll' \in {"off", "ready", "tail", "fed"} /\ reading' \in Starts \cup {0}
         /\ feed' \in SUBSET Record /\ shown' \in Shown /\ button' \in BOOLEAN
        /\ IsFiniteSet(feed')
<1>1. view' \in Runs \cup {None} /\ since' \in Nat /\ poll' \in {"off", "ready", "tail", "fed"}
  BY DEF View
<1>2. reading' \in Starts \cup {0} /\ feed' \in SUBSET Record /\ IsFiniteSet(feed')
  BY DEF View, TypeInv, TypeOK
<1>3. lines' \in Seq(SUBSET Record)
  BY DEF View
<1>4. shown' \in Shown
  BY DEF View, Shown
<1>5. button' \in BOOLEAN
  BY DEF View
<1> QED
  BY <1>1, <1>2, <1>3, <1>4, <1>5

LEMMA NextType ==
  ASSUME TypeInv, RegisterInv, PollInv, ButtonInv, [Next]_vars
  PROVE  TypeInv'
<1>1. ASSUME NEW i \in Starts, RunThread(i), UNCHANGED pageVars PROVE TypeInv'
  BY <1>1, ThreadType
<1>2. CASE Crash
  BY <1>2, KillType, FS_EmptySet DEF Crash, TypeInv, TypeOK
<1>3. CASE ReadFeed
  <2>1. view \in Runs
    BY <1>3 DEF ReadFeed, PollInv
  <2>2. feed' \in SUBSET Record /\ IsFiniteSet(feed')
    BY <1>3, <2>1, FeedType DEF ReadFeed, TypeInv, TypeOK
  <2> QED
    BY <1>3, <2>1, <2>2 DEF ReadFeed, serverVars, logVars, regVars, threadVars, diskVars,
       TypeInv, TypeOK, ServerTypeOK, LogTypeOK, FiniteInv
<1>4. CASE ReceiveFeed
  <2>1. view \in Runs
    BY <1>4 DEF ReceiveFeed, PollInv
  <2>2. since' \in Nat
    BY <1>4, AdvanceFacts DEF ReceiveFeed
  <2>3. shown' \in Shown
    <3>1. FedStatus \in {"running"} \cup Final
      BY <2>1, ToldType DEF FedStatus, TypeInv, TypeOK, ServerTypeOK
    <3> QED
      BY <1>4, <3>1 DEF ReceiveFeed, Shown, TypeInv, TypeOK
  <2>4. lines' \in Seq(SUBSET Record) /\ feed' \in SUBSET Record /\ IsFiniteSet(feed')
    BY <1>4, FS_EmptySet DEF ReceiveFeed, TypeInv, TypeOK
  <2> QED
    BY <1>4, <2>2, <2>3, <2>4 DEF ReceiveFeed, serverVars, logVars, regVars, threadVars, diskVars,
       TypeInv, TypeOK, ServerTypeOK, LogTypeOK, FiniteInv
<1>5. CASE ReceiveStatus
  <2>1. view \in Runs
    BY <1>5 DEF ReceiveStatus, PollInv
  <2>2. shown' \in Shown
    BY <1>5, <2>1, ToldType DEF ReceiveStatus, Shown
  <2> QED
    BY <1>5, <2>2 DEF ReceiveStatus, serverVars, logVars, regVars, threadVars, diskVars,
       TypeInv, TypeOK, ServerTypeOK, LogTypeOK, FiniteInv
<1>6. ASSUME NEW r \in Runs, Start(r), View(r) PROVE TypeInv'
  <2>1. ServerTypeOK' /\ FiniteInv'
    BY <1>6, StartType
  <2> QED
    BY <1>6, <2>1, ViewType DEF TypeInv, TypeOK
<1>7. ASSUME NEW r \in Runs, ClickRow(r) PROVE TypeInv'
  BY <1>7, ViewType DEF ClickRow, serverVars, logVars, regVars, threadVars, diskVars,
     TypeInv, TypeOK, ServerTypeOK, LogTypeOK, FiniteInv
<1>8. CASE ClickCancel
  <2>1. view \in Runs
    BY <1>8 DEF ClickCancel, PollInv
  <2> QED
    BY <1>8, <2>1 DEF ClickCancel, CancelRun, pageVars, logVars, threadVars, diskVars,
     TypeInv, TypeOK, ServerTypeOK, LogTypeOK, FiniteInv
<1>9. CASE ClickResume
  <2>1. view \in Runs
    BY <1>9 DEF ClickResume, ButtonInv
  <2> QED
    BY <1>6, <1>9, <2>1 DEF ClickResume, Resume
<1>11. ASSUME NEW r \in Runs, ClickStart(r) PROVE TypeInv'
  <2>1. ServerTypeOK' /\ FiniteInv'
    BY <1>11, StartType DEF ClickStart, StartNew
  <2> QED
    BY <1>11, <2>1 DEF ClickStart, pageVars, TypeInv, TypeOK
<1>10. CASE UNCHANGED vars
  BY <1>10 DEF vars, pageVars, serverVars, logVars, regVars, threadVars, diskVars,
     TypeInv, TypeOK, ServerTypeOK, LogTypeOK, FiniteInv
<1> QED
  BY <1>1, <1>2, <1>3, <1>4, <1>5, <1>6, <1>7, <1>8, <1>9, <1>10, <1>11
     DEF Next, Threads, Poll, Click

-----------------------------------------------------------------------------
(* Who works for a run, and what the threads leave behind.                 *)

\* What a step of a thread leaves alone, and where it leads.
LEMMA ThreadFrame ==
  ASSUME TypeInv, RegisterInv, NEW i \in Starts, RunThread(i)
  PROVE  /\ registry' = registry /\ runOf' = runOf /\ i \in DOMAIN step
         /\ \A k \in Starts \ {i} :
              step'[k] = step[k] /\ status'[k] = status[k] /\ verdict'[k] = verdict[k]
         /\ step'[i] \in (Working \cup Past) \ {"plan", "killed"}
         /\ step[i] \in Past => step'[i] \in Past
         /\ step[i] \notin {"new", "over", "killed"}
         /\ \A r \in Runs : ledger[r] # "none" => ledger'[r] # "none"
         /\ \A r \in Runs : verdictFile[r] # "none" => verdictFile'[r] # "none"
         /\ \A r \in Runs : r # runOf[i] =>
              ledger'[r] = ledger[r] /\ statusFile'[r] = statusFile[r] /\ verdictFile'[r] = verdictFile[r]
<1> USE DEF TypeInv, TypeOK, ServerTypeOK
<1>0. runOf[i] \in Runs /\ ledger[runOf[i]] # "none"
  BY ThreadHasRun
<1>1. CASE PlanRun(i)
  BY <1>0, <1>1 DEF PlanRun, Goto, regVars, Working, Past, Ledgers
<1>2. CASE Work(i)
  BY <1>0, <1>2 DEF Work, regVars, threadVars, Working, Past
<1>3. CASE RunReturns(i) \/ Verify(i) \/ SetStatus(i)
  BY <1>0, <1>3 DEF RunReturns, Verify, SetStatus, Goto, regVars, diskVars, Working, Past
<1>4. CASE LogVerdict(i) \/ LogError(i)
  BY <1>0, <1>4 DEF LogVerdict, LogError, Goto, regVars, diskVars, Working, Past
<1>5. CASE Raise(i)
  BY <1>0, <1>5 DEF Raise, diskVars, Working, Past
<1>6. CASE WriteVerdict(i) \/ WriteStatus(i)
  BY <1>0, <1>6 DEF WriteVerdict, WriteStatus, Goto, regVars, Working, Past
<1> QED
  BY <1>1, <1>2, <1>3, <1>4, <1>5, <1>6 DEF RunThread

\* What a new start of a run changes.
LEMMA StartFrame ==
  ASSUME TypeInv, RegisterInv, NEW r \in Runs, Start(r)
  PROVE  \E i \in Starts :
           /\ step[i] = "new" /\ runOf[i] = None
           /\ registry' = [registry EXCEPT ![r] = i]
           /\ runOf' = [runOf EXCEPT ![i] = r]
           /\ step' = [step EXCEPT ![i] = "plan"]
           /\ ledger' = [ledger EXCEPT ![r] = IF @ = "none" THEN "empty" ELSE @]
           /\ status' = status /\ verdict' = verdict /\ logVars' = logVars
           /\ statusFile' = statusFile /\ verdictFile' = verdictFile
BY DEF Start, NextStart, RegisterInv, logVars

\* A run is only started when nobody works for it.  It is watched then, or it
\* is a new one, which the page does not watch yet.
StartsFresh(r) ==
  /\ Start(r) /\ ~Judged(r)
  /\ \A i \in Starts : runOf[i] = r => step[i] \in Past
  /\ \/ View(r) /\ poll = "off"
     \/ UNCHANGED pageVars /\ ledger[r] = "none" /\ view # r

LEMMA ClickStarts ==
  ASSUME TypeInv, RegisterInv, TruthInv, ButtonInv, PollInv,
         (\E r \in Runs : ClickStart(r)) \/ ClickResume
  PROVE  \E r \in Runs : StartsFresh(r)
<1>1. ASSUME NEW r \in Runs, ClickStart(r)
      PROVE  StartsFresh(r)
  <2>1. Start(r) /\ UNCHANGED pageVars /\ ledger[r] = "none"
    BY <1>1 DEF ClickStart, StartNew, Known
  <2>2. ~Judged(r)
    BY <2>1 DEF TruthInv
  <2>3. view # r
    <3>1. r # None
      BY StartAssumption
    <3> QED
      BY <2>1, <3>1 DEF PollInv
  <2> QED
    BY <2>1, <2>2, <2>3 DEF StartsFresh, RegisterInv
<1>2. CASE ClickResume
  BY <1>2 DEF ClickResume, Resume, ButtonInv, StartsFresh
<1> QED
  BY <1>1, <1>2

\* The steps of the page, and clicks that only look, leave the server alone.
Look == Poll \/ (\E r \in Runs : ClickRow(r))

LEMMA LookFrame ==
  ASSUME Look
  PROVE  UNCHANGED serverVars
BY DEF Look, Poll, ReadFeed, ReceiveFeed, ReceiveStatus, ClickRow

LEMMA CancelFrame ==
  ASSUME ClickCancel
  PROVE  /\ UNCHANGED <<logVars, registry, runOf, status, verdict, step, ended, kills>>
         /\ UNCHANGED <<ledger, statusFile, verdictFile, pageVars>>
BY DEF ClickCancel, CancelRun, threadVars, diskVars

\* The server's steps, whoever asks for them.
LEMMA NextIsOneOf ==
  ASSUME TypeInv, RegisterInv, TruthInv, ButtonInv, PollInv, [Next]_vars
  PROVE  \/ \E i \in Starts : RunThread(i) /\ UNCHANGED pageVars
         \/ Crash
         \/ \E r \in Runs : StartsFresh(r)
         \/ Look \/ ClickCancel \/ UNCHANGED vars
BY ClickStarts DEF Next, Threads, Click, Look

LEMMA NextRegister ==
  ASSUME TypeInv, RegisterInv, TruthInv, ButtonInv, PollInv, [Next]_vars
  PROVE  RegisterInv'
<1>1. ASSUME NEW i \in Starts, RunThread(i) PROVE RegisterInv'
  <2>1. /\ registry' = registry /\ runOf' = runOf
        /\ \A k \in Starts \ {i} : step'[k] = step[k]
        /\ step'[i] \notin {"new", "killed"}
        /\ step[i] \in Past => step'[i] \in Past
        /\ step[i] # "new"
        /\ \A r \in Runs : ledger[r] # "none" => ledger'[r] # "none"
    <3>1. step'[i] \notin {"new", "killed"}
      BY <1>1, ThreadFrame DEF Working, Past
    <3> QED
      BY <1>1, <3>1, ThreadFrame
  <2>2. runOf[i] \in Runs /\ registry[runOf[i]] # 0
    BY <1>1, ThreadHasRun
  <2>3. \A r \in Runs : registry'[r] # 0 =>
          runOf'[registry'[r]] = r /\ step'[registry'[r]] \notin {"new", "killed"}
    BY <2>1 DEF RegisterInv, TypeInv, TypeOK, ServerTypeOK
  <2>4. \A k \in Starts : runOf'[k] = None <=> step'[k] = "new"
    BY <2>1 DEF RegisterInv
  <2>5. \A k \in Starts : \A r \in Runs : runOf'[k] = r =>
          /\ ledger'[r] # "none"
          /\ registry'[r] # k => step'[k] \in Past
          /\ registry'[r] = 0 => step'[k] = "killed"
    BY <2>1, <2>2 DEF RegisterInv
  <2> QED
    BY <2>3, <2>4, <2>5 DEF RegisterInv
<1>2. CASE Crash
  <2>1. /\ registry' = [r \in Runs |-> 0] /\ runOf' = runOf /\ ledger' = ledger
        /\ \A i \in Starts : step'[i] = IF step[i] = "new" THEN "new" ELSE "killed"
    BY <1>2 DEF Crash, Kill, diskVars
  <2> QED
    BY <2>1 DEF RegisterInv, Past, TypeInv, TypeOK, ServerTypeOK
<1>3. ASSUME NEW r \in Runs, Start(r), \A k \in Starts : runOf[k] = r => step[k] \in Past
      PROVE  RegisterInv'
  <2>1. PICK i \in Starts : /\ step[i] = "new" /\ runOf[i] = None
                            /\ registry' = [registry EXCEPT ![r] = i]
                            /\ runOf' = [runOf EXCEPT ![i] = r]
                            /\ step' = [step EXCEPT ![i] = "plan"]
                            /\ ledger' = [ledger EXCEPT ![r] = IF @ = "none" THEN "empty" ELSE @]
    BY <1>3, StartFrame
  <2>2. i # 0 /\ r # None
    BY StartAssumption DEF Starts
  <2>3. \A s \in Runs : registry[s] # i
    BY <2>1, <2>2 DEF RegisterInv
  <2> QED
    BY <1>3, <2>1, <2>2, <2>3 DEF RegisterInv, Past, TypeInv, TypeOK, ServerTypeOK
<1>4. CASE Look \/ ClickCancel \/ UNCHANGED vars
  BY <1>4, LookFrame, CancelFrame
     DEF vars, serverVars, regVars, threadVars, diskVars, RegisterInv
<1> QED
  BY <1>1, <1>2, <1>3, <1>4, NextIsOneOf DEF StartsFresh

LEMMA NextThread ==
  ASSUME TypeInv, RegisterInv, TruthInv, ButtonInv, PollInv, ThreadInv, FilesInv, [Next]_vars
  PROVE  ThreadInv' /\ FilesInv'
<1>1. ASSUME NEW i \in Starts, RunThread(i) PROVE ThreadInv' /\ FilesInv'
  <2> USE DEF TypeInv, TypeOK, ServerTypeOK, Past, Final
  <2>0. runOf[i] \in Runs
    BY <1>1, ThreadHasRun
  <2>1. \A k \in Starts \ {i} :
          /\ status'[k] \in Final <=> step'[k] \in Past \ {"killed"}
          /\ step'[k] = "status" \/ status'[k] \in Final \ {"error"} => verdict'[k] # "none"
          /\ step'[k] = "status_file" /\ status'[k] # "error" => verdictFile'[runOf'[k]] # "none"
    BY <1>1, ThreadFrame DEF ThreadInv, RegisterInv
  <2>2. ASSUME /\ status'[i] \in Final <=> step'[i] \in Past \ {"killed"}
               /\ step'[i] = "status" \/ status'[i] \in Final \ {"error"} => verdict'[i] # "none"
               /\ step'[i] = "status_file" /\ status'[i] # "error" => verdictFile'[runOf'[i]] # "none"
        PROVE  ThreadInv'
    BY <2>1, <2>2 DEF ThreadInv
  <2>3. CASE PlanRun(i) \/ Work(i) \/ LogVerdict(i) \/ LogError(i)
    <3>1. /\ status' = status /\ verdict' = verdict /\ statusFile' = statusFile
          /\ verdictFile' = verdictFile /\ step'[i] # "status" /\ step'[i] # "status_file"
          /\ step[i] \in Past \ {"killed"} <=> step'[i] \in Past \ {"killed"}
      BY <2>3 DEF PlanRun, Work, LogVerdict, LogError, Goto, regVars, diskVars, threadVars
    <3> QED
      BY <2>2, <3>1 DEF ThreadInv, FilesInv
  <2>4. CASE RunReturns(i) \/ Verify(i)
    <3>1. /\ status' = status /\ statusFile' = statusFile /\ verdictFile' = verdictFile
          /\ \/ step[i] = "run" /\ step'[i] = "verify" /\ verdict' = verdict
             \/ step[i] = "verify" /\ step'[i] = "status" /\ verdict'[i] # "none"
      BY <2>4 DEF RunReturns, Verify, Goto, regVars, diskVars
    <3> QED
      BY <2>2, <3>1 DEF ThreadInv, FilesInv
  <2>5. CASE SetStatus(i) \/ Raise(i)
    <3>1. /\ verdict' = verdict /\ statusFile' = statusFile /\ verdictFile' = verdictFile
          /\ status'[i] \in Final
          /\ \/ step[i] = "status" /\ step'[i] = "event"
             \/ status'[i] = "error" /\ step'[i] = "except"
      BY <2>5 DEF SetStatus, Raise, Goto, diskVars
    <3> QED
      BY <2>2, <3>1 DEF ThreadInv, FilesInv
  <2>6. CASE WriteVerdict(i)
    <3>1. /\ verdict' = verdict /\ statusFile' = statusFile /\ status' = status /\ runOf' = runOf
          /\ step[i] = "verdict_file" /\ step'[i] = "status_file"
          /\ verdictFile'[runOf[i]] = IF verdict[i] = "none" THEN verdictFile[runOf[i]] ELSE verdict[i]
          /\ \A r \in Runs : verdictFile[r] # "none" => verdictFile'[r] # "none"
      BY <1>1, <2>0, <2>6, ThreadFrame DEF WriteVerdict, Goto, regVars
    <3> QED
      BY <2>2, <3>1 DEF ThreadInv, FilesInv
  <2>7. CASE WriteStatus(i)
    <3>1. /\ verdict' = verdict /\ verdictFile' = verdictFile /\ status' = status /\ runOf' = runOf
          /\ step[i] = "status_file" /\ step'[i] = "over"
      BY <2>7 DEF WriteStatus, Goto, regVars
    <3>2. /\ statusFile' = [statusFile EXCEPT ![runOf[i]] = status[i]]
          /\ status[i] # "error" => verdictFile[runOf[i]] # "none"
      BY <2>7, <3>1 DEF WriteStatus, ThreadInv
    <3> QED
      BY <2>0, <2>2, <3>1, <3>2 DEF ThreadInv, FilesInv
  <2> QED
    BY <1>1, <2>3, <2>4, <2>5, <2>6, <2>7 DEF RunThread
<1>2. CASE Crash
  BY <1>2 DEF Crash, Kill, diskVars, ThreadInv, FilesInv, Past, Final, TypeInv, TypeOK, ServerTypeOK
<1>3. ASSUME NEW r \in Runs, Start(r) PROVE ThreadInv' /\ FilesInv'
  <2>1. PICK i \in Starts : /\ step[i] = "new"
                            /\ runOf' = [runOf EXCEPT ![i] = r]
                            /\ step' = [step EXCEPT ![i] = "plan"]
                            /\ status' = status /\ verdict' = verdict
                            /\ statusFile' = statusFile /\ verdictFile' = verdictFile
    BY <1>3, StartFrame
  <2> QED
    BY <2>1 DEF ThreadInv, FilesInv, Past, TypeInv, TypeOK, ServerTypeOK
<1>4. CASE Look \/ ClickCancel \/ UNCHANGED vars
  BY <1>4, LookFrame, CancelFrame
     DEF vars, serverVars, regVars, threadVars, diskVars, ThreadInv, FilesInv
<1> QED
  BY <1>1, <1>2, <1>3, <1>4, NextIsOneOf DEF StartsFresh

\* While a start of a run is at work the others of the run are past theirs.
LEMMA WorksAlone ==
  ASSUME TypeInv, RegisterInv, NEW i \in Starts, step[i] \in Working,
         NEW k \in Starts, k # i, runOf[k] = runOf[i]
  PROVE  step[k] \in Past
<1>1. runOf[i] \in Runs
  BY DEF TypeInv, TypeOK, ServerTypeOK, RegisterInv, Working
<1>2. step[i] \notin Past
  BY DEF Working, Past
<1> QED
  BY <1>1, <1>2 DEF RegisterInv

LEMMA NextTruth ==
  ASSUME TypeInv, RegisterInv, ButtonInv, PollInv, ThreadInv, TruthInv, [Next]_vars
  PROVE  TruthInv'
<1> USE DEF TypeInv, TypeOK, ServerTypeOK
<1>1. ASSUME NEW i \in Starts, RunThread(i), NEW r \in Runs, Judged(r)'
      PROVE  /\ ledger'[r] = "passed"
             /\ \A k \in Starts : runOf'[k] = r => step'[k] \notin {"plan", "run"}
  <2>0. runOf[i] \in Runs
    BY <1>1, ThreadHasRun
  <2>1. /\ runOf' = runOf
        /\ \A k \in Starts \ {i} : step'[k] = step[k] /\ status'[k] = status[k] /\ verdict'[k] = verdict[k]
        /\ r # runOf[i] => ledger'[r] = ledger[r] /\ statusFile'[r] = statusFile[r]
    BY <1>1, ThreadFrame
  <2>2. CASE r # runOf[i]
    <3>1. Judged(r)
      BY <1>1, <2>1, <2>2 DEF Judged
    <3> QED
      BY <2>1, <2>2, <3>1 DEF TruthInv
  <2>3. CASE r = runOf[i] /\ Verify(i)
    <3>1. /\ step[i] = "verify" /\ step' = [step EXCEPT ![i] = "status"]
          /\ status' = status /\ ledger' = ledger /\ statusFile' = statusFile
          /\ verdict'[i] = "passed" <=> ledger[r] = "passed"
      BY <2>3 DEF Verify, Goto, diskVars, Passed
    <3>2. \A k \in Starts : runOf[k] = r => step'[k] \notin {"plan", "run"}
      BY <2>1, <2>3, <3>1, WorksAlone DEF Working, Past
    <3>3. CASE Judged(r)
      BY <2>1, <3>1, <3>2, <3>3 DEF TruthInv
    <3>4. CASE ~Judged(r)
      <4>1. verdict'[i] = "passed"
        BY <1>1, <2>1, <2>3, <3>1, <3>4 DEF Judged
      <4> QED
        BY <2>1, <3>1, <3>2, <4>1
    <3> QED
      BY <3>3, <3>4
  <2>4. CASE r = runOf[i] /\ (PlanRun(i) \/ Work(i))
    <3>1. status' = status /\ verdict' = verdict /\ statusFile' = statusFile /\ step'[i] # "status"
      BY <2>4 DEF PlanRun, Work, Goto, regVars, threadVars
    <3>2. Judged(r)
      BY <1>1, <2>1, <2>4, <3>1 DEF Judged
    <3>3. step[i] \notin {"plan", "run"}
      BY <2>4, <3>2 DEF TruthInv
    <3> QED
      BY <2>4, <3>3 DEF PlanRun, Work
  <2>5. CASE r = runOf[i] /\ (RunReturns(i) \/ SetStatus(i) \/ Raise(i) \/ LogVerdict(i) \/ LogError(i)
                              \/ WriteVerdict(i) \/ WriteStatus(i))
    <3>1. /\ ledger' = ledger /\ step'[i] \notin {"plan", "run"} /\ step'[i] # "status"
          /\ verdict' = verdict
      BY <2>5 DEF RunReturns, SetStatus, Raise, LogVerdict, LogError, WriteVerdict, WriteStatus, Goto,
         regVars, diskVars
    <3>2. status'[i] = "complete" => status[i] = "complete" \/ (step[i] = "status" /\ verdict[i] = "passed")
      BY <2>5 DEF RunReturns, SetStatus, Raise, LogVerdict, LogError, WriteVerdict, WriteStatus, Goto,
         regVars
    <3>3. statusFile'[r] = "complete" => statusFile[r] = "complete" \/ status[i] = "complete"
      BY <2>0, <2>5 DEF RunReturns, SetStatus, Raise, LogVerdict, LogError, WriteVerdict, WriteStatus,
         diskVars
    <3>4. Judged(r)
      BY <1>1, <2>1, <2>5, <3>1, <3>2, <3>3 DEF Judged
    <3> QED
      BY <2>1, <3>1, <3>4 DEF TruthInv
  <2> QED
    BY <1>1, <2>2, <2>3, <2>4, <2>5 DEF RunThread
<1>2. CASE Crash
  <2>1. /\ ledger' = ledger /\ statusFile' = statusFile
        /\ \A i \in Starts : step'[i] \in {"new", "killed"} /\ status'[i] = "running"
    BY <1>2 DEF Crash, Kill, diskVars
  <2> QED
    BY <2>1 DEF TruthInv, Judged
<1>3. ASSUME NEW r \in Runs, Start(r), ~Judged(r) PROVE TruthInv'
  <2>1. PICK i \in Starts : /\ step[i] = "new"
                            /\ runOf' = [runOf EXCEPT ![i] = r]
                            /\ step' = [step EXCEPT ![i] = "plan"]
                            /\ ledger' = [ledger EXCEPT ![r] = IF @ = "none" THEN "empty" ELSE @]
                            /\ status' = status /\ verdict' = verdict /\ statusFile' = statusFile
    BY <1>3, StartFrame
  <2>2. status[i] # "complete"
    BY <2>1 DEF ThreadInv, Past, Final
  <2>3. ASSUME NEW s \in Runs, Judged(s)' PROVE Judged(s)
    BY <2>1, <2>2, <2>3 DEF Judged
  <2> QED
    BY <1>3, <2>1, <2>3 DEF TruthInv
<1>4. CASE Look \/ ClickCancel \/ UNCHANGED vars
  BY <1>4, LookFrame, CancelFrame
     DEF vars, serverVars, regVars, threadVars, diskVars, TruthInv, Judged
<1>5. ASSUME NEW i \in Starts, RunThread(i) PROVE TruthInv'
  BY <1>1, <1>5 DEF TruthInv
<1> QED
  BY <1>2, <1>3, <1>4, <1>5, NextIsOneOf DEF StartsFresh

\* Only a registered start can say that it is complete.
LEMMA NextClaim ==
  ASSUME TypeInv, RegisterInv, ThreadInv, TruthInv, ButtonInv, PollInv, ClaimInv, [Next]_vars
  PROVE  ClaimInv'
<1> USE DEF TypeInv, TypeOK, ServerTypeOK
<1>1. ASSUME NEW i \in Starts, RunThread(i) PROVE ClaimInv'
  <2>0. runOf[i] \in Runs
    BY <1>1, ThreadHasRun
  <2>1. /\ registry' = registry /\ runOf' = runOf /\ step[i] # "over"
        /\ \A k \in Starts \ {i} : step'[k] = step[k] /\ status'[k] = status[k]
        /\ \A r \in Runs : r # runOf[i] => statusFile'[r] = statusFile[r]
    BY <1>1, ThreadFrame
  <2>2. status'[i] = "complete" => status[i] = "complete" \/ step[i] = "status"
    BY <1>1 DEF RunThread, PlanRun, Work, RunReturns, Verify, SetStatus, Raise, LogVerdict, LogError,
       WriteVerdict, WriteStatus, Goto, regVars
  <2>3. statusFile'[runOf[i]] = "complete" =>
          \/ statusFile[runOf[i]] = "complete"
          \/ status[i] = "complete" /\ status'[i] = "complete" /\ step'[i] = "over"
    BY <1>1, <2>0 DEF RunThread, PlanRun, Work, RunReturns, Verify, SetStatus, Raise, LogVerdict, LogError,
       WriteVerdict, WriteStatus, Goto, regVars, diskVars
  <2>4. \A k \in Starts : \A r \in Runs :
          runOf'[k] = r /\ status'[k] = "complete" => registry'[r] = k
    BY <2>1, <2>2 DEF ClaimInv, RegisterInv, Past
  <2>5. \A r \in Runs : statusFile'[r] = "complete" /\ registry'[r] # 0 =>
          status'[registry'[r]] = "complete" /\ step'[registry'[r]] = "over"
    <3> SUFFICES ASSUME NEW r \in Runs, statusFile'[r] = "complete", registry[r] # 0
                 PROVE  status'[registry[r]] = "complete" /\ step'[registry[r]] = "over"
      BY <2>1
    <3>1. CASE statusFile[r] = "complete"
      BY <2>1, <3>1 DEF ClaimInv
    <3>2. CASE statusFile[r] # "complete"
      BY <2>1, <2>3, <3>2 DEF ClaimInv
    <3> QED
      BY <3>1, <3>2
  <2> QED
    BY <2>4, <2>5 DEF ClaimInv
<1>2. CASE Crash
  BY <1>2 DEF Crash, Kill, ClaimInv
<1>3. ASSUME NEW r \in Runs, Start(r), ~Judged(r) PROVE ClaimInv'
  <2>1. PICK i \in Starts : /\ step[i] = "new"
                            /\ registry' = [registry EXCEPT ![r] = i]
                            /\ runOf' = [runOf EXCEPT ![i] = r]
                            /\ step' = [step EXCEPT ![i] = "plan"]
                            /\ status' = status /\ statusFile' = statusFile
    BY <1>3, StartFrame
  <2>2. status[i] # "complete"
    BY <2>1 DEF ThreadInv, Past, Final
  <2>3. \A k \in Starts : runOf[k] = r => status[k] # "complete"
    BY <1>3 DEF Judged
  <2>4. statusFile[r] # "complete"
    BY <1>3 DEF Judged
  <2>5. \A s \in Runs \ {r} : registry'[s] = registry[s] /\ registry[s] # i
    BY <2>1, StartAssumption DEF RegisterInv, Starts
  <2>6. \A k \in Starts \ {i} : runOf'[k] = runOf[k] /\ step'[k] = step[k]
    BY <2>1
  <2> QED
    BY <2>1, <2>2, <2>3, <2>4, <2>5, <2>6 DEF ClaimInv
<1>4. CASE Look \/ ClickCancel \/ UNCHANGED vars
  BY <1>4, LookFrame, CancelFrame
     DEF vars, serverVars, regVars, threadVars, diskVars, ClaimInv
<1> QED
  BY <1>1, <1>2, <1>3, <1>4, NextIsOneOf DEF StartsFresh

-----------------------------------------------------------------------------
(* What the page has been told.                                            *)

\* The end of a registered start is not taken back.
LEMMA FinalStays ==
  ASSUME TypeInv, RegisterInv, ThreadInv, NEW i \in Starts, RunThread(i),
         NEW r \in Runs, StatusOf(r) \in Final
  PROVE  StatusOf(r)' \in Final
<1> USE DEF TypeInv, TypeOK, ServerTypeOK
<1>1. registry' = registry
  BY ThreadFrame
<1>2. CASE registry[r] # 0
  <2>1. registry[r] \in Starts /\ status[registry[r]] \in Final
    BY <1>2 DEF StatusOf
  <2>2. status'[registry[r]] \in Final
    <3>1. \A k \in Starts : status'[k] = status[k] \/ status'[k] \in Final
      BY DEF RunThread, PlanRun, Work, RunReturns, Verify, SetStatus, Raise, LogVerdict, LogError,
         WriteVerdict, WriteStatus, regVars, Final
    <3> QED
      BY <2>1, <3>1
  <2> QED
    BY <1>1, <1>2, <2>2 DEF StatusOf
<1>3. CASE registry[r] = 0
  <2>1. runOf[i] # r
    BY <1>3, ThreadHasRun
  <2>2. statusFile'[r] = statusFile[r] /\ ledger'[r] = ledger[r]
    BY <2>1, ThreadFrame
  <2> QED
    BY <1>1, <1>3, <2>2 DEF StatusOf, Recompute, Passed
<1> QED
  BY <1>2, <1>3

\* A run whose status is final has nobody at work.
LEMMA FinalIsIdle ==
  ASSUME TypeInv, RegisterInv, ThreadInv, NEW r \in Runs, StatusOf(r) \in Final
  PROVE  \A i \in Starts : runOf[i] = r => step[i] \in Past
<1> USE DEF TypeInv, TypeOK, ServerTypeOK
<1>1. CASE registry[r] # 0
  <2>1. registry[r] \in Starts /\ status[registry[r]] \in Final
    BY <1>1 DEF StatusOf
  <2>2. step[registry[r]] \in Past
    BY <2>1 DEF ThreadInv
  <2> QED
    BY <2>2 DEF RegisterInv
<1>2. CASE registry[r] = 0
  BY <1>2 DEF RegisterInv, Past
<1> QED
  BY <1>1, <1>2

\* Nor was it judged complete, unless it is told to be.
LEMMA UnfinishedIsNotJudged ==
  ASSUME TypeInv, RegisterInv, ThreadInv, ClaimInv, NEW r \in Runs,
         StatusOf(r) \in Final \ {"complete"}
  PROVE  ~Judged(r)
<1> USE DEF TypeInv, TypeOK, ServerTypeOK
<1>1. statusFile[r] # "complete"
  BY DEF ClaimInv, StatusOf
<1>2. ASSUME NEW i \in Starts, runOf[i] = r
      PROVE  status[i] # "complete" /\ step[i] # "status"
  <2>1. status[i] = "complete" => registry[r] = i /\ i # 0
    BY <1>2, StartAssumption DEF ClaimInv, Starts
  <2>2. step[i] \in Past
    BY <1>2, FinalIsIdle
  <2> QED
    BY <2>1, <2>2 DEF StatusOf, Past
<1> QED
  BY <1>1, <1>2 DEF Judged

LEMMA NextButton ==
  ASSUME TypeInv, RegisterInv, TruthInv, ButtonInv, ThreadInv, ClaimInv, PollInv, [Next]_vars
  PROVE  ButtonInv'
<1>1. ASSUME NEW i \in Starts, RunThread(i), UNCHANGED pageVars, button' = TRUE PROVE ButtonInv'
  <2>1. /\ runOf' = runOf /\ button = TRUE /\ view' = view
        /\ \A k \in Starts \ {i} : step'[k] = step[k] /\ status'[k] = status[k] /\ verdict'[k] = verdict[k]
        /\ step[i] \in Past => step'[i] \in Past
        /\ \A r \in Runs : r # runOf[i] => statusFile'[r] = statusFile[r]
    BY <1>1, ThreadFrame DEF pageVars
  <2>2. view \in Runs /\ ~Judged(view) /\ \A k \in Starts : runOf[k] = view => step[k] \in Past
    BY <2>1 DEF ButtonInv
  <2>3. ASSUME runOf[i] = view
        PROVE  /\ status'[i] = "complete" => status[i] = "complete"
               /\ statusFile'[view] = "complete" => statusFile[view] = "complete" \/ status[i] = "complete"
    <3>1. step[i] \in Past
      BY <2>2, <2>3
    <3>2. RunThread(i) => \/ LogVerdict(i) \/ Raise(i) \/ LogError(i) \/ WriteVerdict(i) \/ WriteStatus(i)
      BY <3>1 DEF RunThread, PlanRun, Work, RunReturns, Verify, SetStatus, Goto, Past
    <3> QED
      BY <1>1, <2>2, <2>3, <3>2 DEF LogVerdict, Raise, LogError, WriteVerdict, WriteStatus, regVars,
         diskVars, TypeInv, TypeOK, ServerTypeOK
  <2>4. ~Judged(view)'
    BY <2>1, <2>2, <2>3 DEF Judged, Past
  <2> QED
    BY <2>1, <2>2, <2>4 DEF ButtonInv
<1>2. CASE Crash
  <2>1. /\ runOf' = runOf /\ button' = button /\ view' = view /\ statusFile' = statusFile
        /\ \A i \in Starts : step'[i] = IF step[i] = "new" THEN "new" ELSE "killed"
        /\ \A i \in Starts : status'[i] = "running"
    BY <1>2 DEF Crash, Kill, diskVars
  <2> QED
    BY <2>1 DEF ButtonInv, Past, Judged
<1>3. ASSUME NEW r \in Runs, View(r) PROVE ButtonInv'
  BY <1>3 DEF View, ButtonInv
<1>4. CASE ReceiveStatus
  <2>1. view \in Runs
    BY <1>4 DEF ReceiveStatus, PollInv
  <2>2. button' = TRUE => StatusOf(view) \in Final \ {"complete"}
    BY <1>4 DEF ReceiveStatus, Final
  <2>3. runOf' = runOf /\ step' = step /\ view' = view /\ statusFile' = statusFile
        /\ status' = status /\ verdict' = verdict
    BY <1>4 DEF ReceiveStatus, serverVars, regVars, threadVars, diskVars
  <2> QED
    BY <2>1, <2>2, <2>3, FinalIsIdle, UnfinishedIsNotJudged DEF ButtonInv, Judged
<1>5. CASE ReadFeed \/ ReceiveFeed \/ ClickCancel \/ UNCHANGED vars
  <2>1. runOf' = runOf /\ step' = step /\ view' = view /\ button' = button
        /\ statusFile' = statusFile /\ status' = status /\ verdict' = verdict
    BY <1>5, CancelFrame DEF ReadFeed, ReceiveFeed, vars, serverVars, regVars, threadVars, diskVars, pageVars
  <2> QED
    BY <2>1 DEF ButtonInv, Judged
<1>6. ASSUME NEW r \in Runs, Start(r), UNCHANGED pageVars, view # r PROVE ButtonInv'
  <2>1. PICK i \in Starts : /\ runOf[i] = None
                            /\ runOf' = [runOf EXCEPT ![i] = r]
                            /\ step' = [step EXCEPT ![i] = "plan"]
                            /\ status' = status /\ verdict' = verdict /\ statusFile' = statusFile
    BY <1>6, StartFrame
  <2>2. \A k \in Starts : runOf'[k] = view => runOf[k] = view /\ step'[k] = step[k]
    BY <1>6, <2>1 DEF TypeInv, TypeOK, ServerTypeOK
  <2> QED
    BY <1>6, <2>1, <2>2 DEF ButtonInv, Judged, pageVars
<1>7. button' = FALSE => ButtonInv'
  BY DEF ButtonInv
<1>8. ASSUME NEW i \in Starts, RunThread(i), UNCHANGED pageVars PROVE ButtonInv'
  <2>1. button' \in BOOLEAN
    BY <1>8 DEF pageVars, TypeInv, TypeOK
  <2> QED
    BY <1>1, <1>7, <1>8, <2>1
<1> QED
  BY <1>2, <1>3, <1>4, <1>5, <1>6, <1>8, NextIsOneOf DEF Look, Poll, ClickRow, StartsFresh

LEMMA NextPoll ==
  ASSUME TypeInv, RegisterInv, TruthInv, ButtonInv, ThreadInv, PollInv, [Next]_vars
  PROVE  PollInv'
<1> USE DEF TypeInv, TypeOK, ServerTypeOK
<1>1. ASSUME NEW i \in Starts, RunThread(i), UNCHANGED pageVars PROVE PollInv'
  <2>1. registry' = registry /\ \A r \in Runs : ledger[r] # "none" => ledger'[r] # "none"
    BY <1>1, ThreadFrame
  <2>2. view \in Runs /\ StatusOf(view) \in Final => StatusOf(view)' \in Final
    BY <1>1, FinalStays DEF pageVars
  <2> QED
    BY <1>1, <2>1, <2>2 DEF PollInv, pageVars
<1>2. CASE Crash
  <2>1. view \in Runs => StatusOf(view)' \in Final
    BY <1>2 DEF Crash, Kill, diskVars, StatusOf, Recompute, Passed, Final
  <2>2. ledger' = ledger
    BY <1>2 DEF Crash, Kill, diskVars
  <2> QED
    BY <1>2, <2>1, <2>2 DEF Crash, PollInv
<1>3. ASSUME NEW r \in Runs, View(r), poll = "off" \/ poll = "ready", ledger'[r] # "none" PROVE PollInv'
  <2>1. r # None
    BY StartAssumption
  <2> QED
    BY <1>3, <2>1 DEF View, PollInv
<1>4. CASE ReadFeed
  BY <1>4 DEF ReadFeed, PollInv, serverVars, regVars, diskVars
<1>5. CASE ReceiveFeed
  <2>1. view \in Runs /\ reading = registry[view]
    BY <1>5 DEF ReceiveFeed, PollInv
  <2>2. FedStatus = "running" \/ StatusOf(view) \in Final
    BY <2>1 DEF FedStatus, FeedStatusOf, StatusOf, Recompute, Passed, Final
  <2>3. StatusOf(view)' = StatusOf(view) /\ ledger' = ledger
    BY <1>5 DEF ReceiveFeed, serverVars, regVars, diskVars, StatusOf, Recompute, Passed
  <2>4. shown'.status = FedStatus
    BY <1>5 DEF ReceiveFeed, Shown
  <2> QED
    BY <1>5, <2>1, <2>2, <2>3, <2>4 DEF ReceiveFeed, PollInv
<1>6. CASE ReceiveStatus
  BY <1>6 DEF ReceiveStatus, PollInv, serverVars, diskVars
<1>7. CASE ClickCancel \/ UNCHANGED vars
  <2>1. UNCHANGED <<pageVars, registry, status, statusFile, ledger>>
    BY <1>7, CancelFrame DEF vars, serverVars, regVars, diskVars
  <2> QED
    BY <2>1 DEF PollInv, pageVars, StatusOf, Recompute, Passed
<1>8. ASSUME NEW r \in Runs, StartsFresh(r) PROVE PollInv'
  <2>1. /\ ledger'[r] # "none" /\ status' = status /\ statusFile' = statusFile
        /\ \A s \in Runs \ {r} : registry'[s] = registry[s] /\ ledger'[s] = ledger[s]
    BY <1>8, StartFrame DEF StartsFresh
  <2>2. CASE View(r) /\ poll = "off"
    BY <1>3, <2>1, <2>2
  <2>3. CASE UNCHANGED pageVars /\ view # r
    <3>1. view # None => view \in Runs \ {r}
      BY <2>3
    <3>2. view # None => /\ registry'[view] = registry[view] /\ ledger'[view] = ledger[view]
                         /\ StatusOf(view)' = StatusOf(view)
      BY <2>1, <2>3, <3>1 DEF pageVars, StatusOf, Recompute, Passed
    <3> QED
      BY <2>3, <3>2 DEF PollInv, pageVars
  <2> QED
    BY <1>8, <2>2, <2>3 DEF StartsFresh
<1>9. ASSUME NEW r \in Runs, ClickRow(r) PROVE PollInv'
  BY <1>3, <1>9 DEF ClickRow, Known, serverVars, diskVars
<1> QED
  BY <1>1, <1>2, <1>4, <1>5, <1>6, <1>7, <1>8, <1>9, NextIsOneOf DEF Look, Poll

-----------------------------------------------------------------------------
(* What the live feed shows.                                               *)

\* A new record is the last of its log, in the ring and in the file.
LEMMA LogRecords ==
  ASSUME TypeInv, RecordInv, NEW i \in Starts, NEW r \in Runs, runOf[i] = r, Log(i, r),
         UNCHANGED runOf, \A k \in Starts : step'[k] = "new" => step[k] = "new" /\ k # i
  PROVE  RecordInv'
<1> USE DEF TypeInv, TypeOK, ServerTypeOK, LogTypeOK, Starts
<1> DEFINE rec == Rec(seq[i] + 1, i)
           kept == {x \in ring[i] \cup {rec} : x.seq > rec.seq - RingSize}
<1>0. seq[i] \in Nat
  OBVIOUS
<1>1. /\ seq'[i] = seq[i] + 1 /\ ring'[i] = kept /\ file'[r] = file[r] \cup {rec}
      /\ \A k \in Starts \ {i} : seq'[k] = seq[k] /\ ring'[k] = ring[k]
      /\ \A s \in Runs \ {r} : file'[s] = file[s]
  <2>1. /\ seq' = [seq EXCEPT ![i] = @ + 1] /\ ring' = [ring EXCEPT ![i] = kept]
        /\ file' = [file EXCEPT ![r] = @ \cup {rec}]
    BY DEF Log, Rec
  <2> HIDE DEF rec, kept
  <2> QED BY <2>1
<1>2. rec.seq = seq[i] + 1 /\ rec.log = i /\ \A n \in Nat : Rec(n, i).seq = n
  BY DEF Rec
<1>3. \A n \in 1..(seq[i] + 1) : n \in 1..seq[i] \/ n = seq[i] + 1
  BY <1>0
<1>4. ring[i] \subseteq Record /\ RingSize \in Nat \ {0}
  BY LogAssumption
<1>10. /\ kept \subseteq ring[i] \cup {rec}
       /\ \A x \in ring[i] \cup {rec} : x.seq > (seq[i] + 1) - RingSize => x \in kept
  <2>1. rec.seq = seq[i] + 1
    BY <1>2
  <2> HIDE DEF rec
  <2> QED BY <2>1
<1> HIDE DEF rec, kept
<1>11. rec = Rec(seq[i] + 1, i)
  BY DEF rec
<1>5. \A k \in Starts : step'[k] = "new" => seq'[k] = 0
  BY <1>1 DEF RecordInv
<1>6. \A k \in Starts : \A x \in ring'[k] : x.log = k /\ x.seq <= seq'[k]
  <2>1. \A x \in ring'[i] : x.log = i /\ x.seq <= seq[i] + 1
    <3>1. \A x \in ring[i] : x.log = i /\ x.seq <= seq[i] /\ x.seq \in Nat
      BY <1>4 DEF RecordInv, Record
    <3> QED
      BY <1>0, <1>1, <1>2, <1>10, <3>1
  <2>2. \A k \in Starts \ {i} : \A x \in ring[k] : x.log = k /\ x.seq <= seq[k]
    BY DEF RecordInv
  <2>3. \A x \in ring'[i] : x.log = i /\ x.seq <= seq'[i]
    BY <1>1, <2>1
  <2>4. \A k \in Starts \ {i} : \A x \in ring'[k] : x.log = k /\ x.seq <= seq'[k]
    BY <1>1, <2>2
  <2> QED
    BY <2>3, <2>4
<1>7. \A k \in Starts : \A n \in 1..seq'[k] : n + RingSize > seq'[k] => Rec(n, k) \in ring'[k]
  <2>1. ASSUME NEW n \in 1..(seq[i] + 1), n + RingSize > seq[i] + 1 PROVE Rec(n, i) \in ring'[i]
    <3>1. n > (seq[i] + 1) - RingSize /\ (n \in 1..seq[i] => n + RingSize > seq[i])
      BY <1>0, <1>4, <2>1
    <3>2. Rec(n, i) \in ring[i] \cup {rec}
      BY <1>3, <1>11, <3>1 DEF RecordInv
    <3>3. Rec(n, i).seq = n
      BY <1>2
    <3> QED
      BY <1>1, <1>10, <3>1, <3>2, <3>3
  <2>2. \A k \in Starts \ {i} : \A n \in 1..seq[k] : n + RingSize > seq[k] => Rec(n, k) \in ring[k]
    BY DEF RecordInv
  <2>3. \A n \in 1..seq'[i] : n + RingSize > seq'[i] => Rec(n, i) \in ring'[i]
    BY <1>1, <2>1
  <2>4. \A k \in Starts \ {i} : \A n \in 1..seq'[k] :
          n + RingSize > seq'[k] => Rec(n, k) \in ring'[k]
    BY <1>1, <2>2
  <2> HIDE DEF TypeInv, TypeOK, ServerTypeOK
  <2> QED
    BY <2>3, <2>4
<1>8. \A k \in Starts : \A s \in Runs : runOf'[k] = s => \A n \in 1..seq'[k] : Rec(n, k) \in file'[s]
  <2>1. \A n \in 1..(seq[i] + 1) : Rec(n, i) \in file'[r]
    BY <1>1, <1>3, <1>11 DEF RecordInv
  <2>2. \A k \in Starts \ {i} : \A s \in Runs : runOf[k] = s =>
          \A n \in 1..seq[k] : Rec(n, k) \in file[s]
    BY DEF RecordInv
  <2>3. \A s \in Runs : file[s] \subseteq file'[s]
    BY <1>1
  <2> QED
    BY <1>1, <2>1, <2>2, <2>3
<1>9. \A s \in Runs : \A x \in file'[s] : \A n \in 1..x.seq : Rec(n, x.log) \in file'[s]
  <2>1. \A n \in 1..(seq[i] + 1) : Rec(n, i) \in file'[r]
    BY <1>1, <1>8
  <2>2. \A x \in file'[r] : \A n \in 1..x.seq : Rec(n, x.log) \in file'[r]
    <3>1. \A x \in file'[r] : x \in file[r] \/ x = rec
      BY <1>1
    <3>2. file[r] \subseteq file'[r]
      BY <1>1
    <3> QED
      BY <1>2, <2>1, <3>1, <3>2 DEF RecordInv
  <2> QED
    BY <1>1, <2>2 DEF RecordInv
<1> QED
  BY <1>5, <1>6, <1>7, <1>8, <1>9 DEF RecordInv

LEMMA NextRecords ==
  ASSUME TypeInv, RegisterInv, TruthInv, ButtonInv, PollInv, RecordInv, [Next]_vars
  PROVE  RecordInv'
<1> USE DEF TypeInv, TypeOK, ServerTypeOK
<1>1. ASSUME NEW i \in Starts, RunThread(i) PROVE RecordInv'
  <2>0. runOf[i] \in Runs
    BY <1>1, ThreadHasRun
  <2>1. /\ runOf' = runOf /\ step'[i] # "new"
        /\ \A k \in Starts \ {i} : step'[k] = step[k]
    BY <1>1, ThreadFrame DEF Working, Past
  <2>2. CASE Loud(i)
    <3>1. Log(i, runOf[i])
      BY <2>2 DEF Loud, PlanRun, Work, LogVerdict, LogError
    <3> QED
      BY <2>0, <2>1, <3>1, LogRecords
  <2>3. CASE Silent(i)
    <3>1. UNCHANGED logVars
      BY <2>3 DEF Silent, RunReturns, Verify, SetStatus, Raise, WriteVerdict, WriteStatus
    <3> QED
      BY <2>1, <3>1 DEF RecordInv, logVars
  <2> QED
    BY <1>1, <2>2, <2>3 DEF RunThread, Loud, Silent
<1>2. CASE Crash
  <2>1. /\ file' = file /\ runOf' = runOf
        /\ \A i \in Starts : seq'[i] = 0 /\ ring'[i] = {}
    BY <1>2 DEF Crash, Kill
  <2>2. 1..0 = {}
    OBVIOUS
  <2> QED
    BY <2>1, <2>2 DEF RecordInv
<1>3. ASSUME NEW r \in Runs, Start(r) PROVE RecordInv'
  <2>1. PICK i \in Starts : /\ step[i] = "new"
                            /\ runOf' = [runOf EXCEPT ![i] = r]
                            /\ step' = [step EXCEPT ![i] = "plan"]
                            /\ UNCHANGED logVars
    BY <1>3, StartFrame
  <2>2. seq[i] = 0 /\ 1..0 = {}
    BY <2>1 DEF RecordInv
  <2>3. \A k \in Starts : \A s \in Runs : runOf'[k] = s => \A n \in 1..seq[k] : Rec(n, k) \in file[s]
    BY <2>1, <2>2 DEF RecordInv
  <2> QED
    BY <2>1, <2>3 DEF RecordInv, logVars
<1>4. CASE Look \/ ClickCancel \/ UNCHANGED vars
  BY <1>4, LookFrame, CancelFrame
     DEF vars, serverVars, logVars, regVars, threadVars, RecordInv
<1> QED
  BY <1>1, <1>2, <1>3, <1>4, NextIsOneOf DEF StartsFresh

\* A file only grows, and that of a run without a live start stays as it is.
LEMMA FileFrame ==
  ASSUME TypeInv, RegisterInv, NEW i \in Starts, RunThread(i), NEW r \in Runs
  PROVE  /\ file[r] \subseteq file'[r]
         /\ registry[r] = 0 => file'[r] = file[r]
<1>1. runOf[i] \in Runs /\ registry[runOf[i]] # 0
  BY ThreadHasRun
<1>2. CASE Loud(i)
  <2>1. Log(i, runOf[i])
    BY <1>2 DEF Loud, PlanRun, Work, LogVerdict, LogError
  <2> QED
    BY <1>1, <2>1 DEF Log, TypeInv, TypeOK, ServerTypeOK, LogTypeOK
<1>3. CASE Silent(i)
  BY <1>3 DEF Silent, RunReturns, Verify, SetStatus, Raise, WriteVerdict, WriteStatus, logVars
<1> QED
  BY <1>2, <1>3 DEF RunThread, Loud, Silent

\* The newer records of a ring that come before a number.
Before(i, n, m) == {y \in Newer(ring[i], n) : y.seq < m}

\* Between the number and a record of the answer, the answer has all that the
\* ring has not given up.
LEMMA TailFacts ==
  ASSUME TypeInv, RecordInv, NEW i \in Starts, NEW n \in Nat, NEW x \in TailAfter(i, n)
  PROVE  /\ x.log = i /\ x.seq > n /\ x.seq <= seq[i]
         /\ \A m \in (n + 1)..x.seq :
              Rec(m, i) \in TailAfter(i, n) \/ seq[i] >= m + RingSize
<1>1. /\ i \in Logs /\ seq[i] \in Nat /\ IsFiniteSet(ring[i]) /\ ring[i] \subseteq Record
      /\ RingSize \in Nat /\ Limit \in Nat
  BY LogAssumption DEF TypeInv, FiniteInv, TypeOK, ServerTypeOK, LogTypeOK, Starts
<1>2. x \in ring[i] /\ x.seq > n /\ Cardinality(Before(i, n, x.seq)) < Limit
  BY DEF TailAfter, Newer, Before
<1>3. x.log = i /\ x.seq <= seq[i] /\ x.seq \in Nat
  BY <1>1, <1>2 DEF RecordInv, Record
<1>4. ASSUME NEW m \in (n + 1)..x.seq, ~(seq[i] >= m + RingSize)
      PROVE  Rec(m, i) \in TailAfter(i, n)
  <2>1. m \in 1..seq[i] /\ m + RingSize > seq[i] /\ m > n /\ m <= x.seq
    BY <1>1, <1>3, <1>4
  <2>2. Rec(m, i) \in Newer(ring[i], n) /\ Rec(m, i).seq = m
    BY <2>1 DEF RecordInv, Newer, Rec
  <2>3. Before(i, n, m) \subseteq Before(i, n, x.seq)
    BY <1>1, <1>3, <2>1 DEF Before, Newer, Record
  <2>4. Before(i, n, x.seq) \subseteq ring[i]
    BY DEF Before, Newer
  <2>5. IsFiniteSet(Before(i, n, x.seq))
    BY <1>1, <2>4, FS_Subset
  <2>6. /\ IsFiniteSet(Before(i, n, m))
        /\ Cardinality(Before(i, n, m)) <= Cardinality(Before(i, n, x.seq))
    BY <2>3, <2>5, FS_Subset
  <2>7. Cardinality(Before(i, n, m)) \in Nat /\ Cardinality(Before(i, n, x.seq)) \in Nat
    BY <2>5, <2>6, FS_CardinalityType
  <2>8. Cardinality(Before(i, n, m)) < Limit
    BY <1>1, <1>2, <2>6, <2>7
  <2> QED
    BY <2>2, <2>8 DEF TailAfter, Before
<1> QED
  BY <1>2, <1>3, <1>4

\* FeedLosesOnlyOld in these words.
OnlyOldIsLost ==
  \A k \in DOMAIN lines : \A x \in lines[k] :
    (\E y \in lines[1] : y.log = x.log) =>
      \A m \in 1..x.seq : (\E l \in 1..k : Rec(m, x.log) \in lines[l]) \/ Lost(m, x.log)

FeedInv == LinesInv /\ AnswerInv /\ FeedInOrder /\ FeedLosesOnlyOld

\* What the page has stays right while the files grow under it.
LEMMA FeedStays ==
  ASSUME TypeInv, PollInv, FeedInv, UNCHANGED pageVars,
         view # None => registry'[view] = registry[view] /\ file[view] \subseteq file'[view],
         poll = "tail" /\ reading = 0 => file'[view] = file[view]
  PROVE  FeedInv'
<1>1. /\ view' = view /\ since' = since /\ lines' = lines /\ poll' = poll /\ reading' = reading
      /\ feed' = feed /\ shown' = shown
  BY DEF pageVars
<1>2. \A n, i : view # None /\ Lost(n, i) => Lost(n, i)'
  BY <1>1 DEF Lost
<1>3. \A n, i : Seen(n, i)' <=> Seen(n, i)
  BY <1>1 DEF Seen
<1>4. (Following' <=> Following) /\ (Following => view # None)
  BY <1>1 DEF Following, PollInv
<1>5. LinesInv'
  BY <1>1, <1>2, <1>3, <1>4 DEF LinesInv, FeedInv
<1>6. AnswerInv'
  <2>1. poll = "tail" => view # None
    BY DEF PollInv
  <2>2. poll = "tail" /\ reading = 0 => FileAfter(view, since)' = FileAfter(view, since)
    BY <1>1 DEF FileAfter, Newer
  <2> QED
    BY <1>1, <1>2, <2>1, <2>2 DEF AnswerInv, FeedInv
<1>7. FeedInOrder'
  BY <1>1 DEF FeedInOrder, FeedInv
<1>8. FeedLosesOnlyOld'
  <2>1. CASE view = None
    BY <1>1, <2>1 DEF FeedLosesOnlyOld, LinesInv, FeedInv
  <2>2. CASE view # None
    BY <1>1, <2>2 DEF FeedLosesOnlyOld, FeedInv
  <2> QED
    BY <2>1, <2>2
<1> QED
  BY <1>5, <1>6, <1>7, <1>8 DEF FeedInv

\* An answer that comes has what is to be shown next.
LEMMA FeedGrows ==
  ASSUME TypeInv, PollInv, RecordInv, FeedInv, ReceiveFeed
  PROVE  FeedInv'
<1> USE DEF TypeInv, TypeOK, ServerTypeOK, FeedInv
<1> DEFINE n == Len(lines)
<1>0. PICK log : log = reading
  OBVIOUS
<1>1. /\ view \in Runs /\ view # None /\ reading = registry[view] /\ poll = "tail" /\ poll' = "fed"
      /\ UNCHANGED <<registry, file, view, reading>>
      /\ since' = Advance /\ lines' = (IF feed = {} THEN lines ELSE Append(lines, feed))
      /\ shown'.status = FedStatus
  BY DEF ReceiveFeed, PollInv, serverVars, regVars, logVars, Shown
<1>2. Following
  BY <1>1 DEF Following
<1>3. Following' => reading # 0
  <2>1. statusFile[view] # "running" /\ statusFile[view] \in {"none"} \cup Final
    BY <1>1 DEF Final
  <2> QED
    BY <1>1, <2>1 DEF Following, FedStatus, FeedStatusOf
<1>4. /\ since \in Nat /\ since' \in Nat /\ since' >= since
      /\ \A x \in feed : x.seq <= since' /\ x.seq \in Nat
      /\ since' = since \/ \E x \in feed : x.seq = since'
  BY <1>1, AdvanceFacts DEF Record
<1>5. /\ lines \in Seq(SUBSET Record) /\ n \in Nat /\ DOMAIN lines = 1..n
      /\ \A k \in 1..n : lines'[k] = lines[k]
  BY <1>1
<1>6. feed = {} => lines' = lines /\ since' = since
  BY <1>1, <1>4
<1>7. feed # {} => DOMAIN lines' = 1..(n + 1) /\ lines'[n + 1] = feed
  BY <1>1, <1>5
<1>8. \A k \in DOMAIN lines' : k \in 1..n \/ (k = n + 1 /\ feed # {} /\ lines'[k] = feed)
  BY <1>5, <1>6, <1>7
<1>9. \A k \in 1..n : k \in DOMAIN lines' /\ k <= n + 1
  BY <1>5, <1>6, <1>7
<1>10. \A m, i : (Lost(m, i) <=> Lost(m, i)') /\ (Seen(m, i) => Seen(m, i)')
  BY <1>1, <1>5, <1>9 DEF Lost, Seen
<1>11. \A x \in feed : x.seq > since /\ \A m \in (since + 1)..x.seq : Rec(m, x.log) \in feed \/ Lost(m, x.log)
  <2> SUFFICES ASSUME NEW x \in feed
               PROVE  x.seq > since /\ \A m \in (since + 1)..x.seq : Rec(m, x.log) \in feed \/ Lost(m, x.log)
    OBVIOUS
  <2>1. CASE reading = 0
    <3>1. feed = FileAfter(view, since)
      BY <1>1, <2>1 DEF AnswerInv
    <3>2. x \in file[view] /\ x.seq > since
      BY <3>1 DEF FileAfter, Newer
    <3>3. ASSUME NEW m \in (since + 1)..x.seq PROVE Rec(m, x.log) \in feed
      <4>1. m \in 1..x.seq /\ m > since
        BY <1>4
      <4>2. Rec(m, x.log) \in file[view] /\ Rec(m, x.log).seq = m
        BY <1>1, <3>2, <4>1 DEF RecordInv, Rec
      <4> QED
        BY <3>1, <4>1, <4>2 DEF FileAfter, Newer
    <3> QED
      BY <3>2, <3>3
  <2>2. CASE reading # 0
    BY <1>1, <2>2 DEF AnswerInv
  <2> QED
    BY <2>1, <2>2
<1>12. (\A k \in DOMAIN lines : lines[k] = {}) => since = 0
  BY <1>2 DEF LinesInv
<1>13. \A k \in DOMAIN lines : \A x \in lines[k] : x.seq <= since /\ x.seq \in Nat
  <2>1. \A k \in DOMAIN lines : lines[k] \subseteq Record
    BY <1>5
  <2> QED
    BY <2>1 DEF LinesInv, Record
<1>14. \A k \in DOMAIN lines : \A x \in lines[k] : \A m \in 1..since : Seen(m, x.log) \/ Lost(m, x.log)
  BY <1>2 DEF LinesInv
<1> HIDE DEF n
<1>15. LinesInv'
  <2>1. view' = None => lines' = <<>>
    BY <1>1
  <2>2. \A k \in DOMAIN lines' : \A x \in lines'[k] : x.seq <= since'
    BY <1>4, <1>5, <1>8, <1>13
  <2>3. ASSUME Following'
        PROVE  /\ \A k \in DOMAIN lines' : \A x \in lines'[k] : x.log = log
               /\ \A m \in 1..since' : Seen(m, log)' \/ Lost(m, log)'
               /\ (\A k \in DOMAIN lines' : lines'[k] = {}) => since' = 0
    <3>1. log # 0 /\ \A x \in feed : x.log = log
      BY <1>0, <1>1, <1>3, <2>3 DEF AnswerInv
    <3>2. \A k \in DOMAIN lines : \A x \in lines[k] : x.log = log
      BY <1>0, <1>1, <1>2, <3>1 DEF LinesInv
    <3>3. \A k \in DOMAIN lines' : \A x \in lines'[k] : x.log = log
      BY <1>5, <1>8, <3>1, <3>2
    <3>4. ASSUME NEW m \in 1..since' PROVE Seen(m, log)' \/ Lost(m, log)'
      <4>1. CASE m <= since
        <5>1. since # 0 /\ m \in 1..since
          BY <1>4, <4>1
        <5>2. PICK k \in DOMAIN lines : lines[k] # {}
          BY <1>12, <5>1
        <5>3. PICK x \in lines[k] : TRUE
          BY <5>2
        <5>4. x.log = log
          BY <3>2, <5>3
        <5>5. Seen(m, log) \/ Lost(m, log)
          BY <1>14, <5>1, <5>3, <5>4
        <5> QED
          BY <1>10, <5>5
      <4>2. CASE ~(m <= since)
        <5>1. PICK x \in feed : x.seq = since'
          BY <1>4, <4>2
        <5>2. m \in (since + 1)..x.seq /\ x.log = log
          BY <1>4, <3>1, <4>2, <5>1
        <5>3. CASE Rec(m, log) \in feed
          <6>1. n + 1 \in DOMAIN lines' /\ lines'[n + 1] = feed
            BY <1>5, <1>7, <5>1
          <6> QED
            BY <5>3, <6>1 DEF Seen
        <5>4. CASE Lost(m, log)
          BY <1>10, <5>4
        <5> QED
          BY <1>11, <5>1, <5>2, <5>3, <5>4
      <4> QED
        BY <4>1, <4>2
    <3>5. (\A k \in DOMAIN lines' : lines'[k] = {}) => since' = 0
      <4>1. CASE feed = {}
        BY <1>6, <1>12, <4>1
      <4>2. CASE feed # {}
        <5>1. n + 1 \in DOMAIN lines' /\ lines'[n + 1] # {}
          BY <1>5, <1>7, <4>2
        <5> QED
          BY <5>1
      <4> QED
        BY <4>1, <4>2
    <3> QED
      BY <3>3, <3>4, <3>5
  <2>4. ASSUME Following'
        PROVE  \A k \in DOMAIN lines' : \A x \in lines'[k] :
                 /\ \A l \in DOMAIN lines' : \A y \in lines'[l] : y.log = x.log
                 /\ registry'[view'] # 0 => x.log = registry'[view']
                 /\ \A m \in 1..since' : Seen(m, x.log)' \/ Lost(m, x.log)'
    <3> SUFFICES ASSUME NEW k \in DOMAIN lines', NEW x \in lines'[k]
                 PROVE  /\ \A l \in DOMAIN lines' : \A y \in lines'[l] : y.log = x.log
                        /\ registry'[view'] # 0 => x.log = registry'[view']
                        /\ \A m \in 1..since' : Seen(m, x.log)' \/ Lost(m, x.log)'
      OBVIOUS
    <3>1. x.log = log
      BY <2>3, <2>4
    <3>2. \A l \in DOMAIN lines' : \A y \in lines'[l] : y.log = log
      BY <2>3, <2>4
    <3>3. \A m \in 1..since' : Seen(m, x.log)' \/ Lost(m, x.log)'
      BY <2>3, <2>4, <3>1
    <3> QED
      BY <1>0, <1>1, <3>1, <3>2, <3>3
  <2> QED
    BY <2>1, <2>2, <2>3, <2>4 DEF LinesInv
<1>16. AnswerInv'
  BY <1>1 DEF AnswerInv
<1>17. FeedInOrder'
  <2> SUFFICES ASSUME NEW k \in DOMAIN lines', NEW l \in DOMAIN lines', k < l,
                      NEW x \in lines'[k], NEW y \in lines'[l], x.log = y.log
               PROVE  x.seq < y.seq
    BY DEF FeedInOrder
  <2>1. CASE l \in 1..n
    <3>1. k \in 1..n
      BY <1>5, <1>8, <2>1
    <3> QED
      BY <1>5, <2>1, <3>1 DEF FeedInOrder
  <2>2. CASE l = n + 1 /\ feed # {} /\ lines'[l] = feed
    <3>1. k \in 1..n
      BY <1>5, <1>8, <2>2
    <3>2. x.seq <= since /\ x.seq \in Nat
      BY <1>5, <1>13, <3>1
    <3>3. y.seq > since /\ y.seq \in Nat
      BY <1>4, <1>11, <2>2
    <3> QED
      BY <1>4, <3>2, <3>3
  <2> QED
    BY <1>8, <2>1, <2>2
<1>18. FeedLosesOnlyOld'
  <2> SUFFICES ASSUME NEW k \in DOMAIN lines', NEW x \in lines'[k],
                      NEW y \in lines'[1], y.log = x.log, NEW m \in 1..x.seq
               PROVE  (\E l \in 1..k : Rec(m, x.log) \in lines'[l]) \/ Lost(m, x.log)
    <3> SUFFICES OnlyOldIsLost'
      BY DEF FeedLosesOnlyOld, OnlyOldIsLost, Rec, Lost
    <3> QED
      BY <1>10 DEF OnlyOldIsLost
  <2>0. OnlyOldIsLost
    BY DEF FeedLosesOnlyOld, OnlyOldIsLost, Rec, Lost
  <2>1. CASE k \in 1..n
    <3>1. /\ k \in DOMAIN lines /\ x \in lines[k] /\ 1 \in 1..n /\ y \in lines[1]
          /\ \A l \in 1..k : lines'[l] = lines[l]
      BY <1>5, <2>1
    <3> QED
      BY <2>0, <3>1 DEF OnlyOldIsLost
  <2>2. CASE k = n + 1 /\ feed # {} /\ lines'[k] = feed
    <3>1. x.seq \in Nat /\ k \in 1..k /\ x \in feed
      BY <1>4, <1>5, <2>2
    <3>2. CASE m > since
      <4>1. m \in (since + 1)..x.seq
        BY <1>4, <3>1, <3>2
      <4>2. Rec(m, x.log) \in feed \/ Lost(m, x.log)
        BY <1>11, <3>1, <4>1
      <4> QED
        BY <2>2, <3>1, <4>2
    <3>3. CASE ~(m > since)
      <4>1. m \in 1..since /\ since # 0
        BY <1>4, <3>1, <3>3
      <4>2. 1 \in 1..n /\ 1 \in DOMAIN lines
        <5>1. n # 0
          BY <1>5, <1>12, <4>1
        <5> QED
          BY <1>5, <5>1
      <4>3. y \in lines[1]
        BY <1>5, <4>2
      <4>4. Seen(m, x.log) \/ Lost(m, x.log)
        BY <1>14, <4>1, <4>2, <4>3
      <4>5. ASSUME NEW l \in DOMAIN lines, Rec(m, x.log) \in lines[l]
            PROVE  l \in 1..k /\ Rec(m, x.log) \in lines'[l]
        BY <1>5, <2>2, <4>5
      <4> QED
        BY <4>4, <4>5 DEF Seen
    <3> QED
      BY <3>2, <3>3
  <2> QED
    BY <1>8, <2>1, <2>2
<1> QED
  BY <1>15, <1>16, <1>17, <1>18

LEMMA NextFeed ==
  ASSUME TypeInv, RegisterInv, TruthInv, ButtonInv, PollInv, RecordInv, FeedInv, [Next]_vars
  PROVE  FeedInv'
<1> USE DEF TypeInv, TypeOK, ServerTypeOK
<1>1. ASSUME NEW i \in Starts, RunThread(i), UNCHANGED pageVars PROVE FeedInv'
  <2>1. registry' = registry
    BY <1>1, ThreadFrame
  <2>2. (view # None => view \in Runs) /\ (poll = "tail" => view # None /\ reading = registry[view])
    BY DEF PollInv
  <2>3. /\ view # None => file[view] \subseteq file'[view]
        /\ poll = "tail" /\ reading = 0 => file'[view] = file[view]
    BY <1>1, <2>2, FileFrame
  <2> QED
    BY <1>1, <2>1, <2>3, FeedStays
<1>2. CASE Crash
  <2>1. /\ poll' = (IF poll = "tail" THEN "ready" ELSE poll) /\ feed' = {} /\ reading' = 0
        /\ UNCHANGED <<file, view, since, lines, shown>>
        /\ \A r \in Runs : registry'[r] = 0
    BY <1>2 DEF Crash, Kill
  <2>2. /\ \A m, i : (Seen(m, i)' <=> Seen(m, i)) /\ (Lost(m, i)' <=> Lost(m, i))
        /\ Following' <=> Following
    BY <2>1 DEF Seen, Lost, Following
  <2>3. LinesInv'
    <3>1. Following => registry'[view] = 0
      BY <2>1 DEF Following, PollInv
    <3> QED
      BY <2>1, <2>2, <3>1 DEF LinesInv, FeedInv
  <2> HIDE DEF TypeInv, TypeOK, ServerTypeOK
  <2>4. AnswerInv'
    BY <2>1 DEF AnswerInv
  <2>5. FeedInOrder'
    BY <2>1 DEF FeedInOrder, FeedInv
  <2>6. FeedLosesOnlyOld'
    <3>1. view' = view /\ lines' = lines /\ file' = file
      BY <2>1
    <3> QED
      BY <3>1 DEF FeedLosesOnlyOld, FeedInv
  <2> QED
    BY <2>3, <2>4, <2>5, <2>6 DEF FeedInv
<1>3. ASSUME NEW r \in Runs, View(r) PROVE FeedInv'
  <2>1. since' = 0 /\ lines' = <<>> /\ poll' = "ready"
    BY <1>3 DEF View
  <2> QED
    BY <2>1 DEF FeedInv, LinesInv, AnswerInv, FeedInOrder, FeedLosesOnlyOld
<1>4. CASE ReadFeed
  <2>1. /\ view \in Runs /\ reading' = registry[view] /\ feed' = FeedOf(view, since)
        /\ poll = "ready" /\ poll' = "tail" /\ since \in Nat
        /\ UNCHANGED <<registry, file, ring, seq, view, since, lines, shown>>
    BY <1>4 DEF ReadFeed, PollInv, serverVars, regVars, logVars
  <2>2. /\ \A m, i : (Seen(m, i)' <=> Seen(m, i)) /\ (Lost(m, i)' <=> Lost(m, i))
        /\ Following' /\ Following
    BY <2>1 DEF Seen, Lost, Following
  <2>3. LinesInv'
    BY <2>1, <2>2 DEF LinesInv, FeedInv
  <2>4. FeedInOrder' /\ FeedLosesOnlyOld'
    <3>1. FeedInOrder'
      BY <2>1 DEF FeedInOrder, FeedInv
    <3>2. FeedLosesOnlyOld
      BY DEF FeedInv
    <3>3. file' = file /\ view' = view /\ lines' = lines
      BY <2>1
    <3>4. FeedLosesOnlyOld'
      BY ONLY <3>2, <3>3 DEF FeedLosesOnlyOld
    <3> QED
      BY <3>1, <3>4
  <2>5. AnswerInv'
    <3>1. CASE registry[view] = 0
      BY <2>1, <3>1 DEF AnswerInv, FeedOf, FileAfter
    <3>2. CASE registry[view] # 0
      <4> DEFINE i == registry[view]
      <4>1. i \in Starts /\ runOf[i] = view /\ feed' = TailAfter(i, since)
        BY <2>1, <3>2 DEF FeedOf, RegisterInv
      <4> HIDE DEF i
      <4>2. ASSUME NEW x \in TailAfter(i, since), NEW m \in (since + 1)..x.seq, seq[i] >= m + RingSize
            PROVE  Lost(m, i)
        <5>1. x.seq <= seq[i] /\ x.seq > since
          BY <2>1, <4>1, <4>2, TailFacts
        <5>2. seq[i] \in 1..seq[i]
          <6>1. seq[i] \in Nat /\ RingSize \in Nat
            BY <4>1, LogAssumption DEF LogTypeOK, Starts
          <6> QED
            BY <2>1, <4>2, <6>1
        <5>3. Rec(seq[i], i) \in file[view]
          BY <2>1, <4>1, <5>2 DEF RecordInv
        <5> QED
          BY <4>2, <5>3 DEF Lost, Rec
      <4>3. \A x \in TailAfter(i, since) :
              /\ x.log = i /\ x.seq > since
              /\ \A m \in (since + 1)..x.seq : Rec(m, i) \in TailAfter(i, since) \/ Lost(m, i)
        <5> SUFFICES ASSUME NEW x \in TailAfter(i, since)
                     PROVE  /\ x.log = i /\ x.seq > since
                            /\ \A m \in (since + 1)..x.seq :
                                 Rec(m, i) \in TailAfter(i, since) \/ Lost(m, i)
          OBVIOUS
        <5>1. /\ x.log = i /\ x.seq > since
              /\ \A m \in (since + 1)..x.seq :
                   Rec(m, i) \in TailAfter(i, since) \/ seq[i] >= m + RingSize
          BY <2>1, <4>1, TailFacts
        <5> QED
          BY <4>2, <5>1
      <4>4. reading' = i /\ i # 0
        BY <2>1, <3>2 DEF i
      <4> QED
        BY <2>1, <2>2, <4>1, <4>3, <4>4 DEF AnswerInv
    <3> QED
      BY <3>1, <3>2
  <2> QED
    BY <2>3, <2>4, <2>5 DEF FeedInv
<1>5. CASE ReceiveFeed
  BY <1>5, FeedGrows
<1>6. CASE ReceiveStatus
  <2>1. /\ UNCHANGED <<registry, file, view, since, lines>>
        /\ poll = "fed" /\ poll' \in {"ready", "off"}
        /\ poll' = "ready" => shown.status = "running"
    BY <1>6 DEF ReceiveStatus, serverVars, regVars, logVars
  <2>2. /\ \A m, i : (Seen(m, i)' <=> Seen(m, i)) /\ (Lost(m, i)' <=> Lost(m, i))
        /\ Following' => Following
    BY <2>1 DEF Seen, Lost, Following
  <2>3. LinesInv'
    BY <2>1, <2>2 DEF LinesInv, FeedInv
  <2>4. AnswerInv' /\ FeedInOrder' /\ FeedLosesOnlyOld'
    <3>1. AnswerInv' /\ FeedInOrder'
      BY <2>1 DEF AnswerInv, FeedInOrder, FeedInv
    <3> HIDE DEF TypeInv, TypeOK, ServerTypeOK
    <3>2. view' = view /\ lines' = lines /\ file' = file
      BY <2>1
    <3>3. FeedLosesOnlyOld'
      BY <3>2 DEF FeedLosesOnlyOld, FeedInv
    <3> QED
      BY <3>1, <3>3
  <2> QED
    BY <2>3, <2>4 DEF FeedInv
<1>7. CASE ClickCancel \/ UNCHANGED vars
  <2>1. UNCHANGED <<pageVars, registry, file>>
    BY <1>7, CancelFrame DEF vars, serverVars, regVars, logVars
  <2> QED
    BY <2>1, FeedStays
<1>8. ASSUME NEW r \in Runs, Start(r), UNCHANGED pageVars, view # r PROVE FeedInv'
  <2>1. file' = file /\ \A s \in Runs \ {r} : registry'[s] = registry[s]
    BY <1>8, StartFrame DEF logVars
  <2>2. view # None => view \in Runs
    BY DEF PollInv
  <2> QED
    BY <1>8, <2>1, <2>2, FeedStays
<1> QED
  BY <1>1, <1>2, <1>3, <1>4, <1>5, <1>6, <1>7, <1>8, NextIsOneOf DEF Look, Poll, ClickRow, StartsFresh

\* The page stops on a final status, with the verdict that belongs to it.
LEMMA NextStops ==
  ASSUME TypeInv, RegisterInv, TruthInv, ButtonInv, ThreadInv, FilesInv, PollInv, StopsOnVerdict, [Next]_vars
  PROVE  StopsOnVerdict'
<1> USE DEF TypeInv, TypeOK, ServerTypeOK
<1>1. CASE ReceiveStatus
  <2>1. view \in Runs /\ (shown.status # "running" => StatusOf(view) \in Final)
    BY <1>1 DEF ReceiveStatus, PollInv
  <2>2. ASSUME poll' = "off" PROVE StatusOf(view) \in Final
    <3>1. StatusOf(view) \in {"running"} \cup Final
      BY <2>1, ToldType
    <3> QED
      BY <1>1, <2>1, <2>2, <3>1 DEF ReceiveStatus, Final
  <2>3. ASSUME StatusOf(view) \in Final \ {"error"} PROVE VerdictOf(view) # "none"
    <3>1. CASE registry[view] # 0
      <4>1. registry[view] \in Starts /\ StatusOf(view) = status[registry[view]]
        BY <2>1, <3>1 DEF StatusOf
      <4>2. verdict[registry[view]] # "none"
        BY <2>3, <4>1 DEF ThreadInv
      <4> QED
        BY <3>1, <4>2 DEF VerdictOf
    <3>2. CASE registry[view] = 0
      <4>1. statusFile[view] # "none" => StatusOf(view) = statusFile[view]
        BY <3>2 DEF StatusOf
      <4>2. statusFile[view] # "none" => verdictFile[view] # "none"
        BY <2>1, <2>3, <4>1 DEF FilesInv
      <4> QED
        BY <3>2, <4>2 DEF VerdictOf
    <3> QED
      BY <3>1, <3>2
  <2>4. shown' = [status |-> StatusOf(view), verdict |-> VerdictOf(view)]
    BY <1>1 DEF ReceiveStatus
  <2>5. poll' = "off" /\ StatusOf(view) \in {"incomplete", "cancelled"} /\ VerdictOf(view) # "none" => button'
    BY <1>1 DEF ReceiveStatus
  <2> QED
    BY <2>2, <2>3, <2>4, <2>5 DEF StopsOnVerdict, Final
<1>2. ASSUME NEW r \in Runs, View(r) PROVE StopsOnVerdict'
  BY <1>2 DEF View, StopsOnVerdict
<1>3. CASE ReadFeed \/ ReceiveFeed
  BY <1>3 DEF ReadFeed, ReceiveFeed, StopsOnVerdict
<1>4. CASE Crash
  <2>1. (poll' = "off" => poll = "off") /\ UNCHANGED <<view, shown, button>>
    BY <1>4 DEF Crash
  <2> QED
    BY <2>1 DEF StopsOnVerdict
<1>5. CASE UNCHANGED pageVars
  BY <1>5 DEF pageVars, StopsOnVerdict
<1>6. ClickCancel \/ UNCHANGED vars => UNCHANGED pageVars
  BY CancelFrame DEF vars, pageVars
<1> QED
  BY <1>1, <1>2, <1>3, <1>4, <1>5, <1>6, NextIsOneOf DEF Look, Poll, ClickRow, StartsFresh

-----------------------------------------------------------------------------
(* The theorems.                                                           *)

\* What holds in every reachable state.
PageInv ==
  /\ TypeInv /\ RegisterInv /\ ThreadInv /\ FilesInv /\ TruthInv /\ ClaimInv
  /\ ButtonInv /\ PollInv /\ StopsOnVerdict
  /\ RecordInv /\ FeedInv

LEMMA PageInvariant == Spec => []PageInv
<1>1. Init => PageInv
  <2> SUFFICES ASSUME Init PROVE PageInv
    OBVIOUS
  <2>1. TypeInv
    <3>1. LogTypeOK /\ FiniteInv
      BY FS_EmptySet DEF Init, ServerInit, LogInit, LogTypeOK, FiniteInv
    <3>2. ServerTypeOK
      BY <3>1, StartAssumption DEF Init, ServerInit, ServerTypeOK, Thread, Ledgers, Final
    <3>3. shown \in Shown
      BY DEF Init, Shown
    <3>4. /\ view \in Runs \cup {None} /\ since \in Nat /\ button \in BOOLEAN
          /\ poll \in {"off", "ready", "tail", "fed"} /\ reading \in Starts \cup {0}
      BY DEF Init
    <3>5. lines \in Seq(SUBSET Record) /\ feed \in SUBSET Record /\ IsFiniteSet(feed)
      <4>1. lines = <<>> /\ feed = {}
        BY DEF Init
      <4> QED
        BY <4>1, FS_EmptySet
    <3> QED
      BY <3>1, <3>2, <3>3, <3>4, <3>5 DEF TypeInv, TypeOK
  <2>2. RegisterInv /\ ThreadInv /\ FilesInv
    BY StartAssumption DEF Init, ServerInit, RegisterInv, ThreadInv, FilesInv, Past, Final
  <2>3. TruthInv /\ ClaimInv
    BY DEF Init, ServerInit, TruthInv, ClaimInv, Judged
  <2>4. ButtonInv /\ PollInv /\ StopsOnVerdict
    BY DEF Init, ButtonInv, PollInv, StopsOnVerdict
  <2>5. RecordInv /\ FeedInv
    <3>1. lines = <<>> /\ poll = "off" /\ 1..0 = {}
      BY DEF Init
    <3> QED
      BY <3>1 DEF Init, ServerInit, LogInit, RecordInv, FeedInv, LinesInv, AnswerInv, FeedInOrder,
         FeedLosesOnlyOld, Following, Starts
  <2> QED
    BY <2>1, <2>2, <2>3, <2>4, <2>5 DEF PageInv
<1>2. PageInv /\ [Next]_vars => PageInv'
  BY NextType, NextRegister, NextThread, NextTruth, NextClaim, NextButton, NextPoll, NextStops,
     NextRecords, NextFeed DEF PageInv
<1> QED
  BY <1>1, <1>2, PTL DEF Spec

\* Every reachable state of the server and the page is well-formed.
THEOREM TypeCorrect == Spec => []TypeOK
<1>1. PageInv => TypeOK
  BY DEF PageInv, TypeInv
<1> QED
  BY <1>1, PageInvariant, PTL

\* No run is ever told to be complete, live or from disk, unless its ledger
\* has all its slices done, for any number of starts, kills and resumes: the
\* page resumes a run only after its last thread has judged the ledger.
THEOREM CompleteIsCorrect == Spec => []CompleteIsTrue
<1>1. PageInv => CompleteIsTrue
  <2> SUFFICES ASSUME PageInv, NEW r \in Runs, StatusOf(r) = "complete" PROVE Passed(r)
    BY DEF CompleteIsTrue
  <2>1. CASE registry[r] # 0
    <3>1. registry[r] \in Starts /\ runOf[registry[r]] = r /\ status[registry[r]] = "complete"
      BY <2>1 DEF PageInv, TypeInv, TypeOK, ServerTypeOK, RegisterInv, StatusOf
    <3>2. Judged(r)
      BY <3>1 DEF Judged
    <3> QED
      BY <3>2 DEF PageInv, TruthInv, Passed
  <2>2. CASE registry[r] = 0
    BY <2>2 DEF PageInv, TruthInv, Judged, StatusOf, Recompute, Passed
  <2> QED
    BY <2>1, <2>2
<1> QED
  BY <1>1, PageInvariant, PTL

\* When the page stops polling it shows a final status and, unless the run
\* raised, the verdict; an unfinished run it offers to resume.
THEOREM StopsCorrectly == Spec => []StopsOnVerdict
<1>1. PageInv => StopsOnVerdict
  BY DEF PageInv
<1> QED
  BY <1>1, PageInvariant, PTL

\* The page shows no record twice and those of a log in its order, whenever it
\* was opened and whether they come from the ring or from the file.
THEOREM FeedKeepsOrder == Spec => []FeedInOrder
<1>1. PageInv => FeedInOrder
  BY DEF PageInv, FeedInv
<1> QED
  BY <1>1, PageInvariant, PTL

\* Of a log that the page follows it misses no record but those that had left
\* the ring, for any ring and any number of records, also when the page was
\* opened late and when the rest comes from the file after a kill.
THEOREM FeedMissesOnlyOld == Spec => []FeedLosesOnlyOld
<1>1. PageInv => FeedLosesOnlyOld
  BY DEF PageInv, FeedInv
<1> QED
  BY <1>1, PageInvariant, PTL
=============================================================================

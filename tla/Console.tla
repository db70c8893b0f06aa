------------------------------- MODULE Console ------------------------------
(***************************************************************************)
(* The run server together with the page of app/index.html that starts,    *)
(* resumes, cancels and watches runs.  Watching a run, the page polls once *)
(* a second: it asks for the records after the last one it has, then for   *)
(* the status, and stops at the first answer that is not "running".        *)
(* The server answers the first request in two reads; the thread of the    *)
(* run goes on between any two steps, and a kill can come between them.    *)
(* One page is modelled.  Its polls are answered before the next is due,   *)
(* and its user starts, resumes and changes the view between two polls.    *)
(* A run may be opened late, or not at all.                                *)
(***************************************************************************)
EXTENDS RunServer

VARIABLES
  view,      \* CURRENT: the run that is watched
  since,     \* LASTSEQ
  lines,     \* the records shown, by the answer that brought them
  poll,      \* "off", or where the poll in progress is
  reading,   \* server: the registry entry the activity request goes by
  feed,      \* server: the records it has read for the answer
  shown,     \* what the page shows of the run
  button     \* whether it offers to resume

pageVars == <<view, since, lines, poll, reading, feed, shown, button>>
vars == <<serverVars, pageVars>>

Shown == [status : {"none", "unknown", "running"} \cup Final,
          verdict : {"none", "passed", "failed"}]

TypeOK ==
  /\ ServerTypeOK
  /\ view \in Runs \cup {None}
  /\ since \in Nat
  /\ lines \in Seq(SUBSET Record)
  /\ poll \in {"off", "ready", "tail", "fed"}
  /\ reading \in Starts \cup {0}
  /\ feed \in SUBSET Record
  /\ shown \in Shown
  /\ button \in BOOLEAN

Init ==
  /\ ServerInit
  /\ view = None /\ since = 0 /\ lines = <<>> /\ poll = "off"
  /\ reading = 0 /\ feed = {}
  /\ shown = [status |-> "none", verdict |-> "none"]
  /\ button = FALSE

\* viewRun: everything shown is cleared, and polling begins.
View(r) ==
  /\ view' = r /\ since' = 0 /\ lines' = <<>> /\ poll' = "ready" /\ button' = FALSE
  /\ shown' = [status |-> "none", verdict |-> "none"]
  /\ UNCHANGED <<reading, feed>>

\* POST /api/run, of this page or of another client.  The page opens the run,
\* or the first one of a batch, when the answer is there: with ClickRow.
ClickStart(r) == StartNew(r) /\ UNCHANGED pageVars
ClickResume == poll = "off" /\ button = TRUE /\ Resume(view) /\ View(view)
ClickCancel == poll # "off" /\ CancelRun(view) /\ UNCHANGED pageVars
ClickRow(r) ==
  /\ poll = "off" \/ (poll = "ready" /\ r # view)
  /\ Known(r) /\ View(r) /\ UNCHANGED serverVars

\* GET /api/activity reads the records, then the status of the same entry.
ReadFeed ==
  /\ poll = "ready" /\ poll' = "tail"
  /\ reading' = registry[view]
  /\ feed' = FeedOf(view, since)
  /\ UNCHANGED <<serverVars, view, since, lines, shown, button>>

FedStatus == IF reading # 0 THEN status[reading] ELSE FeedStatusOf(view)

\* LASTSEQ is the greatest number among the records that came.
Advance == Max({since} \cup {x.seq : x \in feed})

ReceiveFeed ==
  /\ poll = "tail" /\ poll' = "fed"
  /\ lines' = IF feed = {} THEN lines ELSE Append(lines, feed)
  /\ since' = Advance
  /\ shown' = [shown EXCEPT !.status = FedStatus]
  /\ feed' = {}
  /\ UNCHANGED <<serverVars, view, reading, button>>

\* GET /api/status; the page stops when either answer says that the run has
\* ended, and offers to resume it when there is a verdict to show with it.
ReceiveStatus ==
  LET s == StatusOf(view) IN
  /\ poll = "fed"
  /\ poll' = IF shown.status # "running" \/ s \notin {"running", "unknown"} THEN "off"
             ELSE "ready"
  /\ shown' = [status |-> s, verdict |-> VerdictOf(view)]
  /\ button' = (poll' = "off" /\ s \in {"incomplete", "cancelled"} /\ VerdictOf(view) # "none")
  /\ reading' = 0
  /\ UNCHANGED <<serverVars, view, since, lines, feed>>

Poll == ReadFeed \/ ReceiveFeed \/ ReceiveStatus

Threads == \E i \in Starts : RunThread(i) /\ UNCHANGED pageVars

\* A request the server was answering fails with it, and the page polls again.
Crash ==
  /\ Kill
  /\ poll' = IF poll = "tail" THEN "ready" ELSE poll
  /\ feed' = {} /\ reading' = 0
  /\ UNCHANGED <<view, since, lines, shown, button>>

Click == (\E r \in Runs : ClickStart(r) \/ ClickRow(r)) \/ ClickResume \/ ClickCancel

Next == Threads \/ Crash \/ Poll \/ Click

Spec == Init /\ [][Next]_vars

\* The threads of the server run, each for a bounded number of steps, so that
\* fairness to all of them is enough; the page's timer fires and is answered.
FairSpec == Spec /\ WF_vars(Poll) /\ WF_vars(Threads)

-----------------------------------------------------------------------------
(* Properties                                                              *)

\* No run is told to be complete, live or after any number of kills and
\* resumes, while its ledger holds a slice that is outstanding or has failed.
CompleteIsTrue == \A r \in Runs : Known(r) /\ StatusOf(r) = "complete" => Passed(r)

\* No record is shown twice, and those of a log are shown in its order, also
\* when the rest comes from the file because the log was cut off by a kill.
FeedInOrder ==
  \A k, l \in DOMAIN lines : k < l =>
    \A x \in lines[k], y \in lines[l] : x.log = y.log => x.seq < y.seq

\* Of a log that the page has followed since it opened the run, a record is
\* missing before one that is shown only if the ring has had to give it up: at
\* least as many as it holds were written after it.
FeedLosesOnlyOld ==
  \A k \in DOMAIN lines : \A x \in lines[k] :
    (\E y \in lines[1] : y.log = x.log) =>
      \A n \in 1..x.seq :
        \/ \E l \in 1..k : [seq |-> n, log |-> x.log] \in lines[l]
        \/ \E z \in file[view] : z.log = x.log /\ z.seq >= n + RingSize

\* When the page stops polling, it shows a status that is final; and unless the
\* run raised, a verdict with it, so that an unfinished run can be resumed.
StopsOnVerdict ==
  poll = "off" /\ view # None =>
    /\ shown.status \in Final
    /\ shown.status # "error" => shown.verdict # "none"
    /\ shown.status \in {"incomplete", "cancelled"} => button

\* A page that watches a run stops in the end: the run ends or is cut off, and
\* the page learns it.
PollingEnds == poll # "off" ~> poll = "off"
=============================================================================

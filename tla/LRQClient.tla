----------------------------- MODULE LRQClient ------------------------------
(***************************************************************************)
(* s1engine/lrq_client.py: threads that each run one query on the backend  *)
(* (launch, poll until it has finished, cancel) with one service user's    *)
(* client, whose every request first takes a token from its bucket.        *)
(* The backend is modelled from how the client uses it: it runs queries,   *)
(* drops one that is not polled for Expiry ticks, refuses requests, and    *)
(* its answers, or the requests themselves, may get lost.                  *)
(***************************************************************************)
EXTENDS TokenBucket

CONSTANTS
  Calls,          \* threads, each in one call of run_pq
  PollInterval,   \* poll_interval_s, in ticks
  Wall,           \* query_timeout_s, in ticks
  Expiry,         \* ticks without a poll after which the backend drops a query
  Refusals        \* the errors the backend answers with in this instance

ASSUME ClientAssumption ==
  /\ {PollInterval, Wall, Expiry} \subseteq Nat
  /\ Refusals \subseteq {"backoff", "429", "5xx", "400", "4xx"}

VARIABLES
  pc,        \* per call: the step it is at
  nap,       \* per call: ticks it still sleeps
  age,       \* per call: ticks since t0, counted up to Wall + 1
  result,    \* per call: how run_pq ended
  remote,    \* backend: the query of the call
  idle,      \* backend: ticks since its last poll, counted up to Expiry + 1
  lost,      \* history: the calls whose query went astray with an answer or a cancel
  late       \* history: per call, the polls sent after the wall timeout, up to 2

callVars == <<pc, nap, age, result>>
remoteVars == <<remote, idle>>
vars == <<bucketVars, callVars, remoteVars, lost, late>>

Errors == {"RateLimitError", "ServerError", "QuerySyntaxError", "LRQError"}

\* classify_http on the classes of answers: a status, or a body that reports a
\* backoff, which counts as a 429 under any status.
Classify(answer) ==
  CASE answer \in {"backoff", "429"} -> "RateLimitError"
    [] answer = "5xx"               -> "ServerError"
    [] answer = "400"               -> "QuerySyntaxError"
    [] answer = "4xx"               -> "LRQError"
    [] answer = "2xx"               -> "none"

Steps == {"launch", "launching", "check", "poll", "polling", "cancel", "cancelling", "over"}

TypeOK ==
  /\ BucketTypeOK
  /\ pc \in [Calls -> Steps]
  /\ nap \in [Calls -> Nat]
  /\ age \in [Calls -> 0..Wall + 1]
  /\ result \in [Calls -> Errors \cup {"none", "ok", "SliceTimeout"}]
  /\ remote \in [Calls -> {"none", "running", "ready", "gone"}]
  /\ idle \in [Calls -> 0..Expiry + 1]
  /\ lost \subseteq Calls
  /\ late \in [Calls -> 0..2]

Init ==
  /\ BucketInit
  /\ pc = [c \in Calls |-> "launch"]
  /\ nap = [c \in Calls |-> 0]
  /\ age = [c \in Calls |-> 0]
  /\ result = [c \in Calls |-> "none"]
  /\ remote = [c \in Calls |-> "none"]
  /\ idle = [c \in Calls |-> 0]
  /\ lost = {}
  /\ late = [c \in Calls |-> 0]

Awake(c, step) == pc[c] = step /\ nap[c] = 0
Goto(c, step) == pc' = [pc EXCEPT ![c] = step]
End(c, how, step) == result' = [result EXCEPT ![c] = how] /\ Goto(c, step)

-----------------------------------------------------------------------------
(* Every request takes a token first.                                      *)

Sending(step) == CASE step = "launch" -> "launching" [] step = "poll" -> "polling"
                   [] step = "cancel" -> "cancelling"

Send(c) ==
  /\ \E step \in {"launch", "poll", "cancel"} :
       /\ Awake(c, step)
       /\ Goto(c, Sending(step))
       /\ late' = [late EXCEPT ![c] = IF step = "poll" /\ age[c] > Wall THEN Least(@ + 1, 2)
                                                                       ELSE @]
  /\ Admit
  /\ UNCHANGED <<nap, age, result, remoteVars, lost>>

AwaitToken(c) ==
  /\ \E step \in {"launch", "poll", "cancel"} : Awake(c, step)
  /\ Refuse
  /\ nap' = [nap EXCEPT ![c] = Needed]
  /\ UNCHANGED <<pc, age, result, remoteVars, lost, late>>

-----------------------------------------------------------------------------
(* launch                                                                  *)

Start(c) ==
  /\ remote' = [remote EXCEPT ![c] = "running"]
  /\ idle' = [idle EXCEPT ![c] = 0]

Launched(c) ==
  /\ pc[c] = "launching"
  /\ Start(c)
  /\ Goto(c, "check")
  /\ UNCHANGED <<bucketVars, nap, age, result, lost, late>>

\* The query runs, but its id or tag is missing, or the answer never comes.
LaunchUnanswered(c) ==
  /\ pc[c] = "launching"
  /\ Start(c)
  /\ \E e \in {"LRQError", "ServerError"} : End(c, e, "over")
  /\ lost' = lost \cup {c}
  /\ UNCHANGED <<bucketVars, nap, age, late>>

\* The backend refuses the launch, or it never gets there.
LaunchRefused(c) ==
  /\ pc[c] = "launching"
  /\ \E e \in {Classify(s) : s \in Refusals} \cup {"ServerError"} : End(c, e, "over")
  /\ UNCHANGED <<bucketVars, nap, age, remoteVars, lost, late>>

-----------------------------------------------------------------------------
(* The loop of run_pq, and the cancel in its finally.                      *)

\* Mutant: the wall timeout is not tested.
TimeUpNever(c) == FALSE

TimeUp(c) == age[c] > Wall

Check(c) ==
  /\ Awake(c, "check")
  /\ IF TimeUp(c) THEN End(c, "SliceTimeout", "cancel")
                  ELSE Goto(c, "poll") /\ UNCHANGED result
  /\ UNCHANGED <<bucketVars, nap, age, remoteVars, lost, late>>

\* Mutant: a query that has not begun, with no steps yet, counts as finished.
CompleteUnbegun(total, done) == done >= total

Complete(total, done) == total > 0 /\ done >= total

\* The steps a poll may report: none yet, some, or all.
Progress(c) == IF remote[c] = "ready" THEN {<<2, 2>>} ELSE {<<0, 0>>, <<2, 1>>}

\* Mutant: a query that has finished is not cancelled.
FinallyUnlessDone(how) == IF how = "ok" THEN "over" ELSE "cancel"

\* Whatever ends the loop, the finally cancels.
Finally(how) == "cancel"

PollAnswered(c) ==
  /\ pc[c] = "polling" /\ remote[c] \in {"running", "ready"}
  /\ \E p \in Progress(c) :
       IF Complete(p[1], p[2])
       THEN End(c, "ok", Finally("ok")) /\ UNCHANGED nap
       ELSE Goto(c, "check") /\ nap' = [nap EXCEPT ![c] = PollInterval] /\ UNCHANGED result
  /\ idle' = [idle EXCEPT ![c] = 0]
  /\ UNCHANGED <<bucketVars, age, remote, lost, late>>

\* The backend refuses the poll, or does not know the query any more.
PollRefused(c) ==
  /\ pc[c] = "polling"
  /\ \E s \in (IF remote[c] = "gone" THEN {"4xx"} ELSE Refusals) :
       End(c, Classify(s), Finally(Classify(s)))
  /\ UNCHANGED <<bucketVars, nap, age, remoteVars, lost, late>>

\* The transport times out, before or after the poll has reached the backend.
PollLost(c) ==
  /\ pc[c] = "polling"
  /\ End(c, "ServerError", Finally("ServerError"))
  /\ \E i \in {0, idle[c]} : idle' = [idle EXCEPT ![c] = i]
  /\ UNCHANGED <<bucketVars, nap, age, remote, lost, late>>

Cancelled(c) ==
  /\ pc[c] = "cancelling"
  /\ Goto(c, "over")
  /\ remote' = [remote EXCEPT ![c] = "gone"]
  /\ UNCHANGED <<bucketVars, nap, age, result, idle, lost, late>>

\* The delete fails or is refused: the error is swallowed, the status ignored.
CancelLost(c) ==
  /\ pc[c] = "cancelling"
  /\ Goto(c, "over")
  /\ lost' = lost \cup {c}
  /\ UNCHANGED <<bucketVars, nap, age, result, remoteVars, late>>

-----------------------------------------------------------------------------
(* The backend and the clock.                                              *)

RemoteFinish(c) ==
  /\ remote[c] = "running"
  /\ remote' = [remote EXCEPT ![c] = "ready"]
  /\ UNCHANGED <<bucketVars, callVars, idle, lost, late>>

RemoteExpire(c) ==
  /\ remote[c] \in {"running", "ready"} /\ idle[c] > Expiry
  /\ remote' = [remote EXCEPT ![c] = "gone"]
  /\ lost' = lost \ {c}
  /\ UNCHANGED <<bucketVars, callVars, idle, late>>

Tick ==
  /\ Drip
  /\ nap' = [c \in Calls |-> IF nap[c] = 0 THEN 0 ELSE nap[c] - 1]
  /\ age' = [c \in Calls |-> IF pc[c] = "over" THEN 0 ELSE Least(age[c] + 1, Wall + 1)]
  /\ idle' = [c \in Calls |-> IF remote[c] \in {"running", "ready"}
                              THEN Least(idle[c] + 1, Expiry + 1) ELSE 0]
  /\ UNCHANGED <<pc, result, remote, lost, late>>

Launch(c) == Launched(c) \/ LaunchUnanswered(c) \/ LaunchRefused(c)
Poll(c) == PollAnswered(c) \/ PollRefused(c) \/ PollLost(c)
Cancel(c) == Cancelled(c) \/ CancelLost(c)
Call(c) == Send(c) \/ AwaitToken(c) \/ Launch(c) \/ Check(c) \/ Poll(c) \/ Cancel(c)

Next == Tick \/ \E c \in Calls : Call(c) \/ RemoteFinish(c) \/ RemoteExpire(c)

Spec == Init /\ [][Next]_vars

\* Time passes, a request ends (the transport has a timeout of its own) and an
\* awake thread runs.  Nothing makes the backend finish, and nothing keeps a
\* thread from being overtaken at the bucket.
FairSpec == Spec /\ WF_vars(Tick) /\ \A c \in Calls : WF_vars(Call(c))

-----------------------------------------------------------------------------
(* Properties                                                              *)

\* When run_pq has returned or raised, its query runs on at the backend only
\* if the answer to the launch or the cancel itself was lost.
NoOrphan ==
  \A c \in Calls : pc[c] = "over" /\ remote[c] \in {"running", "ready"} => c \in lost

\* A result is returned only for a query that the backend ran to its end.
OkIsComplete ==
  [][\A c \in Calls : result'[c] = "ok" /\ result[c] # "ok" => remote[c] = "ready"]_vars

\* The wall timeout is tested between polls, and the wait for a token comes
\* after the test: a call sends at most one poll after its time is up.
OneLatePoll == \A c \in Calls : late[c] <= 1

\* Whatever the backend does, and however often a thread is overtaken at the
\* bucket, every call of run_pq comes to its end.
EveryCallReturns == \A c \in Calls : <>(pc[c] = "over")
=============================================================================

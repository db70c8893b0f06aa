---------------------------- MODULE ClientSafety ----------------------------
(***************************************************************************)
(* The safety of the LRQ client and of its token bucket, for any number of *)
(* threads, any rate, burst, poll interval and timeout, and any errors of  *)
(* the backend.                                                            *)
(*                                                                         *)
(* The rate bound is not inductive: what a window may still let through is *)
(* what is in the bucket.  CreditInv adds that to what has passed.         *)
(***************************************************************************)
EXTENDS LRQClient, TLAPS

-----------------------------------------------------------------------------
(* The bucket.                                                             *)

\* What has passed and what is in the bucket, refilled to the moment, are
\* together at most what the window allows.
CreditInv == passed * Cost + Refilled <= Capacity + ticks * Refill

BucketInv == BucketTypeOK /\ CreditInv

\* The bucket after each of its steps: the level is that of the ideal bucket.
LEMMA RefilledType ==
  ASSUME BucketTypeOK
  PROVE  Refilled \in 0..Capacity /\ Refilled \in Int /\ since * Refill \in Nat
<1>1. since * Refill \in Nat
  BY BucketAssumption DEF BucketTypeOK
<1> QED
  BY <1>1, BucketAssumption DEF BucketTypeOK, Refilled, Least

LEMMA AdmitLevel ==
  ASSUME BucketTypeOK, Admit
  PROVE  BucketTypeOK' /\ Refilled >= Cost /\ Refilled' = Refilled - Cost
<1>1. Refilled \in 0..Capacity
  BY RefilledType
<1>2. tokens' = Refilled - Cost /\ since' = 0 /\ Refilled >= Cost
  BY DEF Admit
<1>3. since' * Refill = 0
  BY <1>2, BucketAssumption
<1>4. Refilled' = Least(Capacity, (Refilled - Cost) + since' * Refill)
  BY <1>2 DEF Refilled
<1>5. Refilled' = Refilled - Cost
  BY <1>1, <1>3, <1>4, BucketAssumption DEF Least
<1>6. BucketTypeOK'
  BY <1>1, <1>2, BucketAssumption DEF BucketTypeOK, Admit
<1> QED
  BY <1>2, <1>5, <1>6

LEMMA RefuseLevel ==
  ASSUME BucketTypeOK, Refuse
  PROVE  BucketTypeOK' /\ Refilled' = Refilled
<1>1. Refilled \in 0..Capacity
  BY RefilledType
<1>2. tokens' = Refilled /\ since' = 0
  BY DEF Refuse
<1>3. since' * Refill = 0
  BY <1>2, BucketAssumption
<1>4. Refilled' = Least(Capacity, Refilled + since' * Refill)
  BY <1>2 DEF Refilled
<1>5. Refilled' = Refilled
  BY <1>1, <1>3, <1>4, BucketAssumption DEF Least
<1>6. BucketTypeOK'
  BY <1>1, <1>2, BucketAssumption DEF BucketTypeOK, Refuse
<1> QED
  BY <1>5, <1>6

LEMMA DripLevel ==
  ASSUME BucketTypeOK, Drip
  PROVE  BucketTypeOK' /\ Refilled' = Least(Capacity, Refilled + Refill)
<1> DEFINE gain == since * Refill
<1>1. gain \in Nat /\ tokens \in 0..Capacity /\ Capacity \in Nat /\ Refill \in Nat
  BY RefilledType, BucketAssumption DEF BucketTypeOK
<1>2. BucketTypeOK'
  BY BucketAssumption DEF BucketTypeOK, Drip
<1>3. tokens' = tokens
  BY DEF Drip
<1>4. CASE tokens + gain >= Capacity
  <2>1. since' * Refill = gain
    BY <1>4 DEF Drip
  <2>2. Refilled = Least(Capacity, tokens + gain) /\ Refilled' = Least(Capacity, tokens + gain)
    BY <1>3, <2>1 DEF Refilled
  <2> HIDE DEF gain
  <2> QED
    BY <1>1, <1>2, <1>4, <2>2 DEF Least
<1>5. CASE ~(tokens + gain >= Capacity)
  <2>1. since' = since + 1
    BY <1>5 DEF Drip
  <2>2. since' * Refill = gain + Refill
    BY <2>1, BucketAssumption DEF BucketTypeOK
  <2>3. /\ Refilled = Least(Capacity, tokens + gain)
        /\ Refilled' = Least(Capacity, tokens + (gain + Refill))
    BY <1>3, <2>2 DEF Refilled
  <2> HIDE DEF gain
  <2> QED
    BY <1>1, <1>2, <1>5, <2>3 DEF Least
<1> QED
  BY <1>4, <1>5

\* No step of the bucket raises what has passed and what is in it by more than
\* it raises the allowance of the window.
LEMMA BucketKeepsInv ==
  ASSUME BucketInv, Admit \/ Refuse \/ Drip \/ UNCHANGED bucketVars
  PROVE  BucketInv'
<1>1. BucketTypeOK /\ CreditInv
  BY DEF BucketInv
<1> DEFINE used == passed * Cost
           allowed == ticks * Refill
<1>2. /\ used \in Nat /\ allowed \in Nat /\ Refilled \in 0..Capacity
      /\ {Capacity, Refill, Cost} \subseteq Nat \ {0}
      /\ used + Refilled <= Capacity + allowed
  BY <1>1, RefilledType, BucketAssumption DEF BucketTypeOK, CreditInv
<1>3. CASE Admit
  <2>1. BucketTypeOK' /\ Refilled' = Refilled - Cost
    BY <1>1, <1>3, AdmitLevel
  <2>2. passed' * Cost = used + Cost /\ ticks' * Refill = allowed
    BY <1>1, <1>3, BucketAssumption DEF Admit, BucketTypeOK
  <2> HIDE DEF used, allowed
  <2> QED
    BY <1>2, <2>1, <2>2 DEF BucketInv, CreditInv
<1>4. CASE Refuse
  <2>1. BucketTypeOK' /\ Refilled' = Refilled
    BY <1>1, <1>4, RefuseLevel
  <2>2. passed' * Cost = used /\ ticks' * Refill = allowed
    BY <1>4 DEF Refuse
  <2> HIDE DEF used, allowed
  <2> QED
    BY <1>2, <2>1, <2>2 DEF BucketInv, CreditInv
<1>5. CASE Drip
  <2>1. BucketTypeOK' /\ Refilled' = Least(Capacity, Refilled + Refill)
    BY <1>1, <1>5, DripLevel
  <2>2. CASE ticks' = ticks + 1 /\ passed' = passed
    <3>1. passed' * Cost = used /\ ticks' * Refill = allowed + Refill
      BY <1>1, <2>2, BucketAssumption DEF BucketTypeOK
    <3> HIDE DEF used, allowed
    <3> QED
      BY <1>2, <2>1, <3>1 DEF BucketInv, CreditInv, Least
  <2>3. CASE ticks' = 0 /\ passed' = 0
    <3>1. passed' * Cost = 0 /\ ticks' * Refill = 0
      BY <2>3, BucketAssumption
    <3> HIDE DEF used, allowed
    <3> QED
      BY <1>2, <2>1, <3>1 DEF BucketInv, CreditInv, Least
  <2> QED
    BY <1>5, <2>2, <2>3 DEF Drip
<1>6. CASE UNCHANGED bucketVars
  BY <1>1, <1>6 DEF bucketVars, BucketInv, BucketTypeOK, CreditInv, Refilled
<1> QED
  BY <1>3, <1>4, <1>5, <1>6

LEMMA InitBucketInv == BucketInit => BucketInv
<1> SUFFICES ASSUME BucketInit PROVE BucketInv
  OBVIOUS
<1>1. BucketTypeOK
  BY BucketAssumption DEF BucketInit, BucketTypeOK
<1>2. passed * Cost = 0 /\ ticks * Refill = 0 /\ Refilled <= Capacity
  BY <1>1, RefilledType, BucketAssumption DEF BucketInit
<1> QED
  BY <1>1, <1>2, RefilledType, BucketAssumption DEF BucketInv, CreditInv

\* Every step of the client is a step of its bucket, or leaves it alone.
LEMMA ClientUsesBucket ==
  ASSUME [Next]_vars
  PROVE  Admit \/ Refuse \/ Drip \/ UNCHANGED bucketVars
<1>1. CASE UNCHANGED vars
  BY <1>1 DEF vars
<1>2. CASE Tick
  BY <1>2 DEF Tick
<1>3. ASSUME NEW c \in Calls, Call(c) PROVE Admit \/ Refuse \/ UNCHANGED bucketVars
  BY <1>3 DEF Call, Send, AwaitToken, Launch, Launched, LaunchUnanswered, LaunchRefused,
     Check, Poll, PollAnswered, PollRefused, PollLost, Cancel, Cancelled, CancelLost
<1>4. ASSUME NEW c \in Calls, RemoteFinish(c) \/ RemoteExpire(c) PROVE UNCHANGED bucketVars
  BY <1>4 DEF RemoteFinish, RemoteExpire
<1> QED
  BY <1>1, <1>2, <1>3, <1>4 DEF Next

\* Over any stretch of time, however many threads share the bucket: the requests
\* that pass are at most a full bucket and what drips in meanwhile.
THEOREM RateIsBounded == Spec => []RateBound
<1>1. BucketInv => RateBound
  <2> SUFFICES ASSUME BucketInv PROVE RateBound
    OBVIOUS
  <2> DEFINE used == passed * Cost
             allowed == ticks * Refill
  <2>1. /\ used \in Nat /\ allowed \in Nat /\ Refilled \in 0..Capacity /\ Capacity \in Nat
        /\ used + Refilled <= Capacity + allowed
    BY RefilledType, BucketAssumption DEF BucketInv, BucketTypeOK, CreditInv
  <2>2. RateBound <=> used <= Capacity + allowed
    BY DEF RateBound
  <2> HIDE DEF used, allowed
  <2> QED
    BY <2>1, <2>2
<1>2. Init => BucketInv
  BY InitBucketInv DEF Init
<1>3. BucketInv /\ [Next]_vars => BucketInv'
  BY BucketKeepsInv, ClientUsesBucket
<1> QED
  BY <1>1, <1>2, <1>3, PTL DEF Spec

\* The bucket, with its lock, its clock and its sleepers, is an ideal bucket:
\* its level is that of the last refill and what has dripped in since.
THEOREM BucketIsIdeal == Spec => BucketContract
<1>1. Init => Ideal!Init
  <2> SUFFICES ASSUME Init PROVE Refilled = Capacity /\ ticks = 0 /\ passed = 0
    BY DEF Ideal!Init
  <2>1. BucketInit /\ BucketTypeOK
    BY BucketAssumption DEF Init, BucketInit, BucketTypeOK
  <2>2. since * Refill = 0
    BY <2>1, BucketAssumption DEF BucketInit
  <2> QED
    BY <2>1, <2>2, BucketAssumption DEF BucketInit, Refilled, Least
<1>2. ASSUME BucketInv, [Next]_vars
      PROVE  [Ideal!Next]_<<Refilled, ticks, passed>>
  <2>1. BucketTypeOK
    BY <1>2 DEF BucketInv
  <2>2. CASE Admit
    BY <2>1, <2>2, AdmitLevel DEF Ideal!Next, Ideal!Pass, Admit
  <2>3. CASE Refuse
    BY <2>1, <2>3, RefuseLevel DEF Refuse
  <2>4. CASE Drip
    <3>1. Refilled' = Ideal!Least(Capacity, Refilled + Refill)
      BY <2>1, <2>4, DripLevel DEF Least, Ideal!Least
    <3> QED
      BY <2>4, <3>1 DEF Drip, Ideal!Next, Ideal!Tick
  <2>5. CASE UNCHANGED bucketVars
    BY <2>5 DEF bucketVars, Refilled
  <2> QED
    BY <1>2, <2>2, <2>3, <2>4, <2>5, ClientUsesBucket
<1>3. Init => BucketInv
  BY InitBucketInv DEF Init
<1>4. BucketInv /\ [Next]_vars => BucketInv'
  BY BucketKeepsInv, ClientUsesBucket
<1> QED
  BY <1>1, <1>2, <1>3, <1>4, PTL DEF Spec, BucketContract, Ideal!Spec

-----------------------------------------------------------------------------
(* The calls.                                                              *)

\* A query exists at the backend only from a launch on; what runs on after its
\* call is lost; and a late poll is a call's last.
CallInv ==
  /\ \A c \in Calls : pc[c] \in {"launch", "launching"} => remote[c] = "none"
  /\ NoOrphan
  /\ \A c \in Calls : late[c] = 0 \/
       /\ late[c] = 1
       /\ pc[c] \in {"polling", "check"} => age[c] > Wall
       /\ pc[c] \in {"polling", "check", "cancel", "cancelling", "over"}

ClientInv == TypeOK /\ CallInv

LEMMA ConstantFacts ==
  /\ Wall \in Nat /\ Expiry \in Nat /\ PollInterval \in Nat
  /\ \A s \in Refusals : Classify(s) \in Errors
  /\ Classify("4xx") \in Errors
<1>1. ASSUME NEW s \in {"backoff", "429", "5xx", "400", "4xx"} PROVE Classify(s) \in Errors
  BY <1>1 DEF Classify, Errors
<1> QED
  BY <1>1, ClientAssumption

\* A request that waits for its token sleeps for a natural number of ticks.
LEMMA NeededType ==
  ASSUME BucketTypeOK, Refuse
  PROVE  Needed \in Nat
<1>1. Refilled \in 0..Capacity /\ Refilled < Cost /\ Refill \in Nat \ {0} /\ Cost \in Nat
  BY RefilledType, BucketAssumption DEF Refuse
<1>2. Cost - Refilled + Refill - 1 \in Nat
  BY <1>1, BucketAssumption
<1>3. \A n \in Nat, d \in Nat \ {0} : n \div d \in Nat
  OBVIOUS
<1> QED
  BY <1>1, <1>2, <1>3 DEF Needed

LEMMA InitClientInv == Init => ClientInv
<1> SUFFICES ASSUME Init PROVE ClientInv
  OBVIOUS
<1>1. BucketTypeOK
  BY BucketAssumption DEF Init, BucketInit, BucketTypeOK
<1> QED
  BY <1>1, ConstantFacts DEF Init, ClientInv, TypeOK, CallInv, NoOrphan, Steps

LEMMA BucketTypeKept ==
  ASSUME BucketTypeOK, Admit \/ Refuse \/ Drip \/ UNCHANGED bucketVars
  PROVE  BucketTypeOK'
<1>1. CASE UNCHANGED bucketVars
  BY <1>1 DEF bucketVars, BucketTypeOK
<1> QED
  BY <1>1, AdmitLevel, RefuseLevel, DripLevel

LEMMA RequestKeepsInv ==
  ASSUME ClientInv, NEW c \in Calls, Send(c) \/ AwaitToken(c), BucketTypeOK'
  PROVE  ClientInv'
<1> USE ConstantFacts
<1>1. TypeOK /\ CallInv
  BY DEF ClientInv
<1>2. CASE Send(c)
  <2>1. PICK step \in {"launch", "poll", "cancel"} :
          /\ pc[c] = step /\ pc' = [pc EXCEPT ![c] = Sending(step)]
          /\ late' = [late EXCEPT ![c] = IF step = "poll" /\ age[c] > Wall
                                         THEN Least(late[c] + 1, 2) ELSE late[c]]
    BY <1>2 DEF Send, Awake, Goto
  <2>2. UNCHANGED <<nap, age, result, remote, idle, lost>>
    BY <1>2 DEF Send, remoteVars
  <2>3. Sending(step) = CASE step = "launch" -> "launching" [] step = "poll" -> "polling"
                          [] step = "cancel" -> "cancelling"
    BY DEF Sending
  <2>4. Sending(step) \in Steps
    BY <2>1, <2>3 DEF Steps
  <2>5. late[c] \in 0..2 /\ (late[c] # 0 => step = "cancel")
    BY <1>1, <2>1 DEF TypeOK, CallInv
  <2>6. late'[c] \in 0..2 /\ (step # "poll" => late'[c] = late[c])
         /\ (step = "poll" => late'[c] = 0 \/ (late'[c] = 1 /\ age[c] > Wall))
    BY <1>1, <2>1, <2>5 DEF Least, TypeOK
  <2>7. TypeOK'
    BY <1>1, <2>1, <2>2, <2>4, <2>6 DEF TypeOK
  <2>8. CallInv'
    BY <1>1, <2>1, <2>2, <2>3, <2>5, <2>6 DEF TypeOK, CallInv, NoOrphan
  <2> QED
    BY <2>7, <2>8 DEF ClientInv
<1>3. CASE AwaitToken(c)
  <2>1. Needed \in Nat
    BY <1>1, <1>3, NeededType DEF TypeOK, AwaitToken
  <2>2. /\ nap' = [nap EXCEPT ![c] = Needed]
        /\ UNCHANGED <<pc, age, result, remote, idle, lost, late>>
    BY <1>3 DEF AwaitToken, remoteVars
  <2>3. TypeOK'
    BY <1>1, <2>1, <2>2 DEF TypeOK
  <2> QED
    BY <1>1, <2>2, <2>3 DEF ClientInv, CallInv, NoOrphan
<1> QED
  BY <1>2, <1>3

LEMMA LaunchKeepsInv ==
  ASSUME ClientInv, NEW c \in Calls, Launch(c), BucketTypeOK'
  PROVE  ClientInv'
<1> USE ConstantFacts
<1>1. TypeOK /\ CallInv /\ c \in Calls
  BY DEF ClientInv
<1>2. CASE Launched(c)
  <2>1. TypeOK'
    BY <1>1, <1>2 DEF Launched, Start, Goto, TypeOK, Steps
  <2>2. CallInv'
    BY <1>1, <1>2 DEF Launched, Start, Goto, TypeOK, CallInv, NoOrphan
  <2> QED
    BY <2>1, <2>2 DEF ClientInv
<1>3. CASE LaunchUnanswered(c)
  <2>1. TypeOK'
    BY <1>1, <1>3 DEF LaunchUnanswered, Start, Goto, End, TypeOK, Steps, Errors
  <2>2. CallInv'
    BY <1>1, <1>3 DEF LaunchUnanswered, Start, Goto, End, TypeOK, CallInv, NoOrphan
  <2> QED
    BY <2>1, <2>2 DEF ClientInv
<1>4. CASE LaunchRefused(c)
  <2>1. PICK e \in Errors : End(c, e, "over")
    BY <1>4 DEF LaunchRefused, Errors
  <2>2. pc[c] = "launching" /\ UNCHANGED <<bucketVars, nap, age, remote, idle, lost, late>>
    BY <1>4 DEF LaunchRefused, remoteVars
  <2>3. TypeOK'
    BY <1>1, <2>1, <2>2 DEF End, Goto, TypeOK, Steps
  <2>4. CallInv'
    BY <1>1, <2>1, <2>2 DEF End, Goto, TypeOK, CallInv, NoOrphan
  <2> QED
    BY <2>3, <2>4 DEF ClientInv
<1> QED
  BY <1>2, <1>3, <1>4 DEF Launch

LEMMA LoopKeepsInv ==
  ASSUME ClientInv, NEW c \in Calls, Check(c) \/ Poll(c), BucketTypeOK'
  PROVE  ClientInv'
<1> USE ConstantFacts
<1>1. TypeOK /\ CallInv /\ c \in Calls
  BY DEF ClientInv
<1>2. CASE Check(c)
  <2>1. TypeOK'
    BY <1>1, <1>2 DEF Check, Awake, End, Goto, TypeOK, Steps, remoteVars
  <2>2. CallInv'
    BY <1>1, <1>2 DEF Check, Awake, End, Goto, TypeOK, TimeUp, CallInv, NoOrphan, remoteVars
  <2> QED
    BY <2>1, <2>2 DEF ClientInv
<1>3. CASE PollAnswered(c)
  <2>1. TypeOK'
    BY <1>1, <1>3 DEF PollAnswered, End, Goto, Finally, TypeOK, Steps
  <2>2. CallInv'
    BY <1>1, <1>3 DEF PollAnswered, End, Goto, Finally, TypeOK, CallInv, NoOrphan
  <2> QED
    BY <2>1, <2>2 DEF ClientInv
<1>4. CASE PollRefused(c)
  <2>1. PICK e \in Errors : End(c, e, "cancel")
    BY <1>4 DEF PollRefused, Finally
  <2>2. pc[c] = "polling" /\ UNCHANGED <<bucketVars, nap, age, remote, idle, lost, late>>
    BY <1>4 DEF PollRefused, remoteVars
  <2>3. TypeOK'
    BY <1>1, <2>1, <2>2 DEF End, Goto, TypeOK, Steps
  <2>4. CallInv'
    BY <1>1, <2>1, <2>2 DEF End, Goto, TypeOK, CallInv, NoOrphan
  <2> QED
    BY <2>3, <2>4 DEF ClientInv
<1>5. CASE PollLost(c)
  <2>1. TypeOK'
    BY <1>1, <1>5 DEF PollLost, End, Goto, Finally, TypeOK, Steps, Errors
  <2>2. CallInv'
    BY <1>1, <1>5 DEF PollLost, End, Goto, Finally, TypeOK, CallInv, NoOrphan
  <2> QED
    BY <2>1, <2>2 DEF ClientInv
<1> QED
  BY <1>2, <1>3, <1>4, <1>5 DEF Poll

LEMMA OthersKeepInv ==
  ASSUME ClientInv, BucketTypeOK', NEW c \in Calls,
         Cancel(c) \/ RemoteFinish(c) \/ RemoteExpire(c) \/ Tick \/ UNCHANGED vars
  PROVE  ClientInv'
<1> USE ConstantFacts
<1>1. TypeOK /\ CallInv /\ c \in Calls
  BY DEF ClientInv
<1>2. CASE Cancel(c)
  <2>1. TypeOK'
    BY <1>1, <1>2 DEF Cancel, Cancelled, CancelLost, Goto, TypeOK, Steps, remoteVars
  <2>2. CallInv'
    BY <1>1, <1>2 DEF Cancel, Cancelled, CancelLost, Goto, TypeOK, CallInv, NoOrphan, remoteVars
  <2> QED
    BY <2>1, <2>2 DEF ClientInv
<1>3. CASE RemoteFinish(c)
  <2>1. TypeOK'
    BY <1>1, <1>3 DEF RemoteFinish, callVars, TypeOK
  <2>2. CallInv'
    BY <1>1, <1>3 DEF RemoteFinish, callVars, TypeOK, CallInv, NoOrphan
  <2> QED
    BY <2>1, <2>2 DEF ClientInv
<1>4. CASE RemoteExpire(c)
  <2>1. TypeOK'
    BY <1>1, <1>4 DEF RemoteExpire, callVars, TypeOK
  <2>2. CallInv'
    BY <1>1, <1>4 DEF RemoteExpire, callVars, TypeOK, CallInv, NoOrphan
  <2> QED
    BY <2>1, <2>2 DEF ClientInv
<1>5. CASE Tick
  <2>1. nap' \in [Calls -> Nat]
    BY <1>1, <1>5 DEF Tick, TypeOK
  <2>2. age' \in [Calls -> 0..Wall + 1]
    BY <1>1, <1>5 DEF Tick, TypeOK, Least
  <2>3. idle' \in [Calls -> 0..Expiry + 1]
    BY <1>1, <1>5 DEF Tick, TypeOK, Least
  <2>4. \A d \in Calls : pc[d] # "over" /\ age[d] > Wall => age'[d] > Wall
    BY <1>1, <1>5 DEF Tick, TypeOK, Least
  <2>5. UNCHANGED <<pc, result, remote, lost, late>>
    BY <1>5 DEF Tick
  <2>6. TypeOK'
    BY <1>1, <2>1, <2>2, <2>3, <2>5 DEF TypeOK
  <2>7. CallInv'
    BY <1>1, <2>4, <2>5 DEF TypeOK, CallInv, NoOrphan
  <2> QED
    BY <2>6, <2>7 DEF ClientInv
<1>6. CASE UNCHANGED vars
  BY <1>1, <1>6 DEF vars, callVars, remoteVars, ClientInv, TypeOK, CallInv, NoOrphan
<1> QED
  BY <1>2, <1>3, <1>4, <1>5, <1>6

LEMMA NextClientInv ==
  ASSUME ClientInv, [Next]_vars
  PROVE  ClientInv'
<1>1. BucketTypeOK'
  BY ClientUsesBucket, BucketTypeKept DEF ClientInv, TypeOK
<1>2. ASSUME NEW c \in Calls, Call(c) PROVE ClientInv'
  BY <1>1, <1>2, RequestKeepsInv, LaunchKeepsInv, LoopKeepsInv, OthersKeepInv DEF Call
<1>3. ASSUME NEW c \in Calls, RemoteFinish(c) \/ RemoteExpire(c) PROVE ClientInv'
  BY <1>1, <1>3, OthersKeepInv
<1>4. CASE Tick \/ UNCHANGED vars
  <2>1. CASE Calls = {}
    BY <1>1, <1>4, <2>1, ConstantFacts
       DEF ClientInv, TypeOK, CallInv, NoOrphan, Tick, vars, callVars, remoteVars
  <2>2. CASE Calls # {}
    BY <1>1, <1>4, <2>2, OthersKeepInv
  <2> QED
    BY <2>1, <2>2
<1> QED
  BY <1>2, <1>3, <1>4 DEF Next

\* The types, for every instance.
THEOREM TypeCorrect == Spec => []TypeOK
<1>1. ClientInv => TypeOK
  BY DEF ClientInv
<1> QED
  BY <1>1, InitClientInv, NextClientInv, PTL DEF Spec

\* Whatever the backend refuses, loses or drops: when a call is over, its query
\* runs on only if the answer to the launch, or the cancel, was lost.
THEOREM NoQueryIsOrphaned == Spec => []NoOrphan
<1>1. ClientInv => NoOrphan
  BY DEF ClientInv, CallInv
<1> QED
  BY <1>1, InitClientInv, NextClientInv, PTL DEF Spec

\* At most one poll of a call is sent after its time is up.
THEOREM LatePollsAreBounded == Spec => []OneLatePoll
<1>1. ClientInv => OneLatePoll
  BY DEF ClientInv, CallInv, OneLatePoll
<1> QED
  BY <1>1, InitClientInv, NextClientInv, PTL DEF Spec

\* run_pq returns a result only of a query that has run to its end.
THEOREM ResultsAreComplete == Spec => OkIsComplete
<1> DEFINE Fresh == \A c \in Calls : result'[c] = "ok" /\ result[c] # "ok" => remote[c] = "ready"
<1>1. ASSUME ClientInv, [Next]_vars PROVE [Fresh]_vars
  <2>1. TypeOK
    BY <1>1 DEF ClientInv
  <2>2. CASE UNCHANGED result
    BY <2>2
  <2>3. ASSUME NEW c \in Calls, PollAnswered(c) PROVE Fresh
    <3>1. PICK p \in Progress(c) :
            IF Complete(p[1], p[2]) THEN result' = [result EXCEPT ![c] = "ok"]
                                    ELSE result' = result
      BY <2>3 DEF PollAnswered, End
    <3>2. Complete(p[1], p[2]) => remote[c] = "ready"
      BY DEF Progress, Complete
    <3> QED
      BY <2>1, <3>1, <3>2 DEF TypeOK
  <2>4. ASSUME NEW c \in Calls, NEW e \in Errors \cup {"SliceTimeout"},
               result' = [result EXCEPT ![c] = e]
        PROVE  Fresh
    BY <2>1, <2>4 DEF TypeOK, Errors
  <2>5. ASSUME NEW c \in Calls, Call(c) PROVE Fresh
    <3>1. CASE Send(c) \/ AwaitToken(c) \/ Launched(c) \/ Cancel(c)
      BY <2>2, <3>1 DEF Send, AwaitToken, Launched, Cancel, Cancelled, CancelLost
    <3>2. CASE LaunchUnanswered(c)
      BY <2>4, <3>2 DEF LaunchUnanswered, End, Errors
    <3>3. CASE LaunchRefused(c)
      BY <2>4, <3>3, ConstantFacts DEF LaunchRefused, End, Errors
    <3>4. CASE Check(c)
      BY <2>2, <2>4, <3>4 DEF Check, End
    <3>5. CASE PollRefused(c)
      BY <2>4, <3>5, ConstantFacts DEF PollRefused, End
    <3>6. CASE PollLost(c)
      BY <2>4, <3>6 DEF PollLost, End, Errors
    <3> QED
      BY <2>3, <2>5, <3>1, <3>2, <3>3, <3>4, <3>5, <3>6 DEF Call, Launch, Poll
  <2>6. CASE Tick \/ UNCHANGED vars
    BY <2>2, <2>6 DEF Tick, vars, callVars
  <2>7. ASSUME NEW c \in Calls, RemoteFinish(c) \/ RemoteExpire(c) PROVE Fresh
    BY <2>2, <2>7 DEF RemoteFinish, RemoteExpire, callVars
  <2> QED
    BY <1>1, <2>5, <2>6, <2>7 DEF Next
<1> QED
  BY <1>1, InitClientInv, NextClientInv, PTL DEF Spec, OkIsComplete
=============================================================================

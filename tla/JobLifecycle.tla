---------------------------- MODULE JobLifecycle ----------------------------
(***************************************************************************)
(* What the ledger promises about a job: the state machine in the comment  *)
(* at the head of s1engine/ledger.py, with no process, thread or queue.    *)
(* A job that is done, permanent or subdivided keeps that state for ever;  *)
(* a job is settled only by the attempt that is in flight; a failed job    *)
(* comes back only when a later process resumes the run.                   *)
(***************************************************************************)
CONSTANTS Jobs

VARIABLES state

TypeOK == state \in [Jobs -> {"absent", "pending", "in_flight", "done",
                              "failed", "permanent", "subdivided"}]

Init == state = [j \in Jobs |-> "absent"]

Move(js, from, to) ==
  /\ \A j \in js : state[j] \in from
  /\ state' = [j \in Jobs |-> IF j \in js THEN to ELSE state[j]]

\* Planning, or subdividing another job, creates rows.
Create == \E js \in SUBSET Jobs : Move(js, {"absent"}, "pending")

\* A worker takes the job, or skips it because its query is broken.
Launch == \E j \in Jobs : Move({j}, {"pending"}, "in_flight")
Skip   == \E j \in Jobs : Move({j}, {"pending"}, "permanent")

\* The attempt ends.
Settle == \E j \in Jobs, to \in {"pending", "done", "failed", "permanent", "subdivided"} :
            Move({j}, {"in_flight"}, to)

\* A new process takes over what an earlier one left unsettled.
Resume == \E js \in SUBSET Jobs : Move(js, {"in_flight", "failed", "pending"}, "pending")

Next == Create \/ Launch \/ Skip \/ Settle \/ Resume

Spec == Init /\ [][Next]_state
=============================================================================

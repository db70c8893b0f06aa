----------------------------- MODULE ResultCache ----------------------------
(***************************************************************************)
(* What a job may rely on in the slice cache: it remembers, for a key,     *)
(* whole documents that jobs with that key stored, it may forget any of    *)
(* them at any time, and a job that is served gets the one it remembers.   *)
(***************************************************************************)
CONSTANTS Writers, Keys, KeyOf, Nothing

VARIABLES
  entry,   \* per key: the document remembered
  served   \* per job: the document it was given

Init ==
  /\ entry = [k \in Keys |-> Nothing]
  /\ served = [j \in Writers |-> Nothing]

Store(j) == entry' = [entry EXCEPT ![KeyOf[j]] = j] /\ UNCHANGED served

Forget(k) == entry' = [entry EXCEPT ![k] = Nothing] /\ UNCHANGED served

Serve(j) ==
  /\ served[j] = Nothing /\ entry[KeyOf[j]] # Nothing
  /\ served' = [served EXCEPT ![j] = entry[KeyOf[j]]]
  /\ UNCHANGED entry

Next == (\E j \in Writers : Store(j) \/ Serve(j)) \/ (\E k \in Keys : Forget(k))

Spec == Init /\ [][Next]_<<entry, served>>
=============================================================================

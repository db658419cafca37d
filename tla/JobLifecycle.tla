---------------------------- MODULE JobLifecycle ----------------------------
(***************************************************************************)
(* What the job queue promises of each job (docs/CONTRACT.md section 1.3,  *)
(* translated from the transitions of transcription_jobs): a waiting job   *)
(* is taken by one worker at a time; only a taken job is given back,       *)
(* finished or failed; its result appears with the finish and is the work  *)
(* of the worker that had it; and a finished or failed job waits again     *)
(* only by a redo, which takes the result away.                            *)
(***************************************************************************)
CONSTANTS Jobs, Workers, Nobody

VARIABLES phase, owner, result
lifecycle == <<phase, owner, result>>

Init ==
  /\ phase = [j \in Jobs |-> "absent"]
  /\ owner = [j \in Jobs |-> Nobody]
  /\ result = [j \in Jobs |-> Nobody]

Submit(j) ==
  /\ phase[j] = "absent"
  /\ phase' = [phase EXCEPT ![j] = "pending"]
  /\ UNCHANGED <<owner, result>>

Take(j, w) ==
  /\ phase[j] = "pending"
  /\ phase' = [phase EXCEPT ![j] = "claimed"]
  /\ owner' = [owner EXCEPT ![j] = w]
  /\ UNCHANGED result

\* Several jobs may be given back at once: the sweep is one statement.
GiveBack(S) ==
  /\ \A j \in S : phase[j] = "claimed"
  /\ phase' = [j \in Jobs |-> IF j \in S THEN "pending" ELSE phase[j]]
  /\ owner' = [j \in Jobs |-> IF j \in S THEN Nobody ELSE owner[j]]
  /\ UNCHANGED result

Fail(S) ==
  /\ \A j \in S : phase[j] = "claimed"
  /\ phase' = [j \in Jobs |-> IF j \in S THEN "failed" ELSE phase[j]]
  /\ owner' = [j \in Jobs |-> IF j \in S THEN Nobody ELSE owner[j]]
  /\ UNCHANGED result

Finish(j) ==
  /\ phase[j] = "claimed"
  /\ phase' = [phase EXCEPT ![j] = "done"]
  /\ result' = [result EXCEPT ![j] = owner[j]]
  /\ owner' = [owner EXCEPT ![j] = Nobody]

Redo(j) ==
  /\ phase[j] # "absent"
  /\ phase' = [phase EXCEPT ![j] = "pending"]
  /\ owner' = [owner EXCEPT ![j] = Nobody]
  /\ result' = [result EXCEPT ![j] = Nobody]

Next ==
  \/ \E j \in Jobs : Submit(j) \/ Finish(j) \/ Redo(j)
  \/ \E j \in Jobs, w \in Workers : Take(j, w)
  \/ \E S \in SUBSET Jobs : GiveBack(S) \/ Fail(S)

Spec == Init /\ [][Next]_lifecycle
=============================================================================

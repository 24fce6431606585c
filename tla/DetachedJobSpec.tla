---------------------------- MODULE DetachedJobSpec ----------------------------
(***************************************************************************)
(* What a detached verification job promises whoever reads its directory   *)
(* (src/scripts/release/detached_job.py, detached_shards.py): evidence     *)
(* appears once, says no more than was run, and keeps what was inherited.  *)
(***************************************************************************)
EXTENDS DetachedEvidence

VARIABLES
  partition,   \* the manifest's <<INDEX, COUNT>>
  inherited,   \* the commands whose passes the job takes over from its parents
  cancel,      \* the cancellation file exists
  evidence     \* what a matching state.json and result.json say

vars == <<partition, inherited, cancel, evidence>>

Init ==
  /\ partition \in Parts /\ inherited \in SUBSET Index
  /\ cancel = FALSE /\ evidence = NoEvidence

Cancel ==
  /\ cancel' = TRUE
  /\ UNCHANGED <<partition, inherited, evidence>>

\* The terminal result becomes visible; stopped work leaves the cancel file.
Publish ==
  /\ evidence = NoEvidence
  /\ evidence' \in Evidences /\ Truthful(evidence', partition, inherited)
  /\ (~evidence'.raised /\ evidence'.state \notin {"passed", "partial"}) => cancel
  /\ UNCHANGED <<partition, inherited, cancel>>

\* A start that fails after it launched the worker hides what the worker said.
Withdraw ==
  /\ cancel /\ evidence # NoEvidence /\ evidence' = NoEvidence
  /\ UNCHANGED <<partition, inherited, cancel>>

Next == Cancel \/ Publish \/ Withdraw

Spec == Init /\ [][Next]_vars

=============================================================================

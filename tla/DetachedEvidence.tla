---------------------------- MODULE DetachedEvidence ----------------------------
(***************************************************************************)
(* What the result of a detached verification job says, and when it is     *)
(* true of the job (src/scripts/release/detached_job.py,                   *)
(* detached_shards.py, detached_checkpoints.py).  The job (DetachedJob)    *)
(* keeps to it and whoever builds on jobs (DetachedCampaign) relies on it. *)
(***************************************************************************)
EXTENDS Naturals

CONSTANTS
  Commands   \* how many commands the manifest lists

Index == 0..Commands - 1
Terminals == {"passed", "partial", "failed", "cancelled", "timed_out", "log_limit"}

\* The partitions <<INDEX, COUNT>>; <<0, 1>> is the whole list.
Parts == { p \in (0..7) \X (1..8) : p[1] < p[2] }

\* checkpoints.indices: the commands a job has to run or inherit.
Assigned(p) == { i \in Index : i >= p[1] /\ (i - p[1]) % p[2] = 0 }

NoEvidence == [state |-> "none", raised |-> FALSE, passes |-> {}, failures |-> {}]

Evidences == [state : Terminals \cup {"none"}, raised : BOOLEAN,
              passes : SUBSET Index, failures : SUBSET Index]

(***************************************************************************)
(* The evidence a job with this partition and these inherited commands may *)
(* publish.  A job that raised publishes no result at all; any other keeps *)
(* every inherited pass, and its state says whether the passes are all,    *)
(* all assigned, or not enough.                                            *)
(***************************************************************************)
Truthful(e, p, inh) ==
  /\ e.state # "none"
  /\ e.raised => e = [state |-> "failed", raised |-> TRUE, passes |-> {}, failures |-> {}]
  /\ ~e.raised =>
       /\ inh \subseteq e.passes /\ e.passes \subseteq inh \cup Assigned(p)
       /\ e.failures \subseteq Assigned(p) \ e.passes
       /\ (e.failures # {}) => (e.state \in {"failed", "timed_out", "log_limit"})
       /\ (e.state = "failed") => (e.failures # {})
       /\ (e.state = "passed") => (e.passes = Index)
       /\ (e.state = "partial") => (e.passes = inh \cup Assigned(p) /\ e.passes # Index)

=============================================================================

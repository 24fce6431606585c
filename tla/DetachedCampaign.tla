---------------------------- MODULE DetachedCampaign ----------------------------
(***************************************************************************)
(* A verification campaign: several detached jobs, later ones built on     *)
(* the evidence of earlier ones by --resume (interrupted or partial jobs   *)
(* of the same work) and --recover (passes of an older, perhaps failed,    *)
(* job whose inputs did not change since).  src/scripts/release:           *)
(* detached_job.py, detached_checkpoints.py, detached_recovery.py,         *)
(* detached_history.py.                                                    *)
(*                                                                         *)
(* A job's run is abstracted to what it promises (Truthful, refined by     *)
(* DetachedJob).  Between any two steps the operator may check out another *)
(* commit, change the installed tools, cancel a job, or lose or alter a    *)
(* file of a job's directory.                                              *)
(***************************************************************************)
EXTENDS Integers, Sequences, FiniteSets, FiniteSetsExt, Functions, DetachedEvidence

CONSTANTS
  Jobs,         \* how many jobs are started
  References,   \* how many jobs one job may refer to (8 in the code)
  Versions,     \* the commits are 1..Versions, in order of ancestry
  Touched,      \* Touched[v]: the commands whose inputs commit v changes
  Tools,        \* the inventories of installed tools
  Compatible,   \* the pairs of inventories between which a pass carries over
  Partitions,   \* the partitions to consider
  Results,      \* the results to consider
  Roots,        \* how many jobs refer to no other
  Open,         \* how many jobs are unfinished at a time
  Events        \* how often the operator interferes: see Operator

ASSUME CampaignAssumption ==
  /\ Commands \in Nat /\ Jobs \in Nat /\ References \in Nat /\ Versions \in Nat \ {0}
  /\ Touched \in [1..Versions -> SUBSET Index]
  /\ Compatible \subseteq Tools \X Tools
  /\ \A t \in Tools : <<t, t>> \in Compatible
  /\ \A t, u, w \in Tools :
       (<<t, u>> \in Compatible /\ <<u, w>> \in Compatible) => <<t, w>> \in Compatible
  /\ Partitions \subseteq Parts /\ Results \subseteq Evidences
  /\ Roots \in Nat /\ Open \in Nat /\ Events \in Nat

VARIABLES
  checkout,    \* the operator's checkout: its commit, and the tools installed
  manifest,    \* the frozen manifests, in the order the jobs were started
  installed,   \* the jobs whose worker has installed what they inherit
  evidence,    \* what each job's terminal record says
  cancelled,   \* the jobs with a cancel file
  damaged,     \* the jobs of which a record or log is lost or altered
  events,      \* how often the operator has interfered
  ran          \* history: <<job, command>> that exited with 0 in a sealed run

vars == <<checkout, manifest, installed, evidence, cancelled, damaged, events, ran>>

Job == 1..Jobs
Started == 1..Len(manifest)

\* How a command is credited: passed in that job, or reused from that job.
NoCredit == [kind |-> "none", job |-> 0]
Credits == {NoCredit} \cup [kind : {"passed", "reused"}, job : Job]

ReferenceLists ==
  UNION { { s \in [1..n -> Job] : \A a, b \in 1..n : (s[a] = s[b]) => (a = b) }
          : n \in 0..References }

\* start: the manifest and what follows from it.  chain and lineage are the
\* jobs its resume references, and all its references, lead to.
Manifests == [version : 1..Versions, tools : Tools, partition : Partitions,
              resume : ReferenceLists, recovery : ReferenceLists,
              given : [Index -> Credits], chain : SUBSET Job, lineage : SUBSET Job]

Inherited(j) == { i \in Index : manifest[j].given[i] # NoCredit }

\* The record of a command that passed: copied from a parent, or the job's own.
Record(j, i) == IF i \in Inherited(j) THEN manifest[j].given[i]
                ELSE [kind |-> "passed", job |-> j]

-----------------------------------------------------------------------------
(* Reading earlier evidence.                                               *)

\* A terminal result that is no infrastructure failure, with its records and
\* logs as they were sealed.
Whole(j) == evidence[j].state # "none" /\ ~evidence[j].raised /\ j \notin damaged

\* Fault: the terminal state is believed, the records are not looked at.
EligibleByState(j) == evidence[j].state # "failed"

\* checkpoints.completed: successful or interrupted, and no command failed.
Eligible(j) == evidence[j].state # "failed" /\ evidence[j].failures = {}

\* Fault: a job is looked at, but not what it rests on.
ArchivedAlone(j) == Whole(j)

\* History.completed, with everything it leads to: a failed job is fine here,
\* a completed one with a cancel file is not.
Archived(j) ==
  \A a \in {j} \cup manifest[j].lineage :
    Whole(a) /\ ((evidence[a].state \in {"passed", "partial"}) => a \notin cancelled)

\* checkpoints.completed and inherited, with everything it leads to; the tools
\* are probed again.
Resumable(j) ==
  /\ \A a \in {j} \cup manifest[j].chain :
       Whole(a) /\ Eligible(a) /\ manifest[a].tools = checkout.tools
  /\ \A r \in Range(manifest[j].recovery) : Archived(r)

\* Fault: a resumed job may name any jobs to recover from.
SameWorkButRecovery(j, recovery) ==
  manifest[j].version = checkout.version /\ manifest[j].tools = checkout.tools

\* checkpoints.inherited: everything executed must be what the parent executed.
SameWork(j, recovery) ==
  /\ manifest[j].version = checkout.version /\ manifest[j].tools = checkout.tools
  /\ manifest[j].recovery = recovery

\* Fault: only the last parent's passes are taken over.
MergedLast(resume) ==
  [i \in Index |-> IF i \in evidence[resume[Len(resume)]].passes
                   THEN Record(resume[Len(resume)], i) ELSE NoCredit]

Passing(resume, i) == { n \in DOMAIN resume : i \in evidence[resume[n]].passes }

\* The passes of the parents; the first one counts.
Merged(resume) ==
  [i \in Index |-> IF Passing(resume, i) = {} THEN NoCredit
                   ELSE Record(resume[Min(Passing(resume, i))], i)]

\* carry.disposition over the paths changed between two commits, of which the
\* first must be an ancestor of the second.  An abstraction: the commits that make
\* it answer "run" for a command are given (Touched) and add up, so a path has its
\* say however it is classified.  What the code proves harmless of a whole range
\* (test-only reruns, Miri decompositions) is left out, as are new public
\* checkpoints and commits that undo an earlier one.
Unchanged(i, v, w) == v <= w /\ \A u \in v + 1..w : i \notin Touched[u]

Carrying(recovery, version, tools, i) ==
  { n \in DOMAIN recovery :
      /\ <<manifest[recovery[n]].tools, tools>> \in Compatible
      /\ i \in evidence[recovery[n]].passes
      /\ Unchanged(i, manifest[recovery[n]].version, version) }

\* detached_recovery.expected: the first reference whose pass carries over.
Recovered(recovery, version, tools) ==
  [i \in Index |->
     LET carrying == Carrying(recovery, version, tools, i)
     IN IF carrying = {} THEN NoCredit
        ELSE [kind |-> "reused", job |-> recovery[Min(carrying)]]]

\* What may be recovered from: readable, and an ancestor where tools carry over.
Recoverable(r) ==
  /\ Archived(r)
  /\ (<<manifest[r].tools, checkout.tools>> \in Compatible)
       => (manifest[r].version <= checkout.version)

\* checkpoints.inherited and detached_recovery.expected do not raise.
Readable(resume, recovery) ==
  /\ \A p \in Range(resume) : Resumable(p) /\ SameWork(p, recovery)
  /\ \A r \in Range(recovery) : Recoverable(r)

-----------------------------------------------------------------------------
Init ==
  /\ checkout \in [version : {1}, tools : Tools]
  /\ manifest = <<>> /\ installed = {} /\ cancelled = {} /\ damaged = {}
  /\ events = 0 /\ ran = {}
  /\ evidence = [j \in Job |-> NoEvidence]

\* What start freezes: the checkout, and what the job inherits.
Manifest(resume, recovery, partition) ==
  [version |-> checkout.version, tools |-> checkout.tools, partition |-> partition,
   resume |-> resume, recovery |-> recovery,
   given |-> IF resume # <<>> THEN Merged(resume)
             ELSE Recovered(recovery, checkout.version, checkout.tools),
   chain |-> UNION { {p} \cup manifest[p].chain : p \in Range(resume) },
   lineage |-> UNION { {p} \cup manifest[p].lineage : p \in Range(resume) \cup Range(recovery) }]

\* start
Start(resume, recovery, partition) ==
  /\ Len(manifest) < Jobs /\ Cardinality({ j \in Started : evidence[j] = NoEvidence }) < Open
  /\ (resume = <<>> /\ recovery = <<>>) =>
       Cardinality({ j \in Started : manifest[j].lineage = {} }) < Roots
  /\ Range(resume) \cup Range(recovery) \subseteq Started
  /\ Readable(resume, recovery)
  /\ manifest' = Append(manifest, Manifest(resume, recovery, partition))
  /\ UNCHANGED <<checkout, installed, evidence, cancelled, damaged, events, ran>>

\* The recovered records that a resumed job must find among its inherited ones.
RecoveryPresent(j) ==
  \A i \in Index :
    LET wanted == Recovered(manifest[j].recovery, manifest[j].version, manifest[j].tools)[i]
    IN (wanted # NoCredit) => (manifest[j].given[i] = wanted)

\* The worker reads all that again before it copies logs and records.
Install(j) ==
  /\ evidence[j] = NoEvidence /\ checkout.tools = manifest[j].tools
  /\ \A p \in Range(manifest[j].resume) : Resumable(p)
  /\ \A r \in Range(manifest[j].recovery) : Archived(r)
  /\ RecoveryPresent(j)
  /\ installed' = installed \cup {j}
  /\ UNCHANGED <<checkout, manifest, evidence, cancelled, damaged, events, ran>>

\* The job publishes its result; one that could not install has raised.
Finish(j) ==
  /\ evidence[j] = NoEvidence
  /\ \E e \in Results :
       /\ Truthful(e, manifest[j].partition, Inherited(j))
       /\ e.raised \/ j \in installed
       /\ evidence' = [evidence EXCEPT ![j] = e]
       /\ cancelled' = IF e.raised \/ e.state \in {"passed", "partial"} THEN cancelled
                       ELSE cancelled \cup {j}
       /\ installed' = installed \ {j}
       /\ ran' = ran \cup { <<j, i>> : i \in e.passes \ Inherited(j) }
  /\ UNCHANGED <<checkout, manifest, damaged, events>>

\* The cancel command: it may come at any time after the start, the end included.
Cancel(j) ==
  /\ j \notin cancelled /\ cancelled' = cancelled \cup {j}
  /\ UNCHANGED <<checkout, manifest, installed, evidence, damaged, ran>>

Damage(j) ==
  /\ Whole(j) /\ damaged' = damaged \cup {j}
  /\ UNCHANGED <<checkout, manifest, installed, evidence, cancelled, ran>>

\* The next commit is checked out, or other tools are installed.
Move ==
  /\ \/ checkout.version < Versions /\ checkout' = [checkout EXCEPT !.version = @ + 1]
     \/ \E t \in Tools \ {checkout.tools} : checkout' = [checkout EXCEPT !.tools = t]
  /\ UNCHANGED <<manifest, installed, evidence, cancelled, damaged, ran>>

\* What the operator does beside starting jobs.
Operator ==
  /\ events < Events /\ events' = events + 1
  /\ Move \/ \E j \in Started : Cancel(j) \/ Damage(j)

Next ==
  \/ \E resume, recovery \in ReferenceLists, p \in Partitions : Start(resume, recovery, p)
  \/ \E j \in Started : Install(j) \/ Finish(j)
  \/ Operator

Spec == Init /\ [][Next]_vars

-----------------------------------------------------------------------------
(* Properties.                                                             *)

\* Types; references go to earlier jobs, results belong to started ones.
TypeOK ==
  /\ checkout \in [version : 1..Versions, tools : Tools]
  /\ manifest \in Seq(Manifests) /\ Len(manifest) <= Jobs
  /\ \A j \in Started : manifest[j].lineage \subseteq 1..j - 1
  /\ evidence \in [Job -> Evidences]
  /\ \A j \in Job \ Started : evidence[j] = NoEvidence
  /\ installed \subseteq Started /\ cancelled \subseteq Started /\ damaged \subseteq Started
  /\ events \in 0..Events /\ ran \subseteq Job \X Index

\* What detached_job.collect asks.
Collectable(j) ==
  /\ j \notin cancelled /\ evidence[j].state = "passed" /\ Whole(j)
  /\ \A p \in Range(manifest[j].resume) : Resumable(p)
  /\ \A r \in Range(manifest[j].recovery) : Archived(r)
  /\ checkout = [version |-> manifest[j].version, tools |-> manifest[j].tools]

\* A collected job rests on runs that happened: every one of its commands
\* exited with 0, in it or in a job its references lead to, whose evidence is
\* still whole, with tools that carry over and inputs no commit has changed
\* since.  Reuse of what was itself reused, or merged from parts, included.
CollectedWasRun ==
  \A j \in Started : Collectable(j) =>
    \A i \in Index : \E k \in {j} \cup manifest[j].lineage :
      /\ <<k, i>> \in ran /\ Whole(k)
      /\ <<manifest[k].tools, checkout.tools>> \in Compatible
      /\ Unchanged(i, manifest[k].version, checkout.version)

\* "Failed parents are eligible only through this explicit recovery path", and
\* are not "hidden by a passing copy": no command failed in any job that a job
\* resumes, directly or through others, whatever its terminal state says.
FailedOnlyRecovered ==
  \A j \in Started : \A k \in manifest[j].chain : evidence[k].failures = {}

\* A campaign that was recovered from a failure and then interrupted can be
\* resumed: its next job never stops at "resumed recovery records missing".
RecoveryCarriedOn == \A j \in Started : RecoveryPresent(j)

\* A job that resumes one finished job of each part has nothing left to run.
PartsMakeAWhole ==
  \A j \in Started : \A n \in 1..8 :
    (\A x \in 0..n - 1 : \E p \in Range(manifest[j].resume) :
       manifest[p].partition = <<x, n>> /\ evidence[p].state \in {"passed", "partial"})
    => Inherited(j) = Index

=============================================================================

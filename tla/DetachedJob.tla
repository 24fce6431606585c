------------------------------ MODULE DetachedJob ------------------------------
(***************************************************************************)
(* One detached verification job (src/scripts/release): the operator's     *)
(* start command, the worker process it launches, and the shard threads of *)
(* that worker, which run the frozen command list and share the job        *)
(* directory (detached_job.py, detached_shards.py, detached_process.py,    *)
(* detached_checkpoints.py).                                               *)
(*                                                                         *)
(* What lasts is in files: state.json, result.json, one record per         *)
(* command, the cancel file and the worker lock.  The worker may be killed *)
(* between any two steps and run again by hand; an operator may cancel at  *)
(* any moment; a command may hang, fail or flood its log; a source tree or *)
(* the installed tools may change and change back.  A change that begins   *)
(* and ends inside the run of one command is left out: no check sees it.   *)
(***************************************************************************)
EXTENDS Naturals, FiniteSets, FiniteSetsExt, DetachedEvidence

CONSTANTS
  Shards,        \* the shards are 0..Shards - 1
  Workers,       \* how many shards run at a time
  LogBytes,      \* the job's log budget
  LogSizes,      \* how much a command prints
  Partitions,    \* the partitions to consider, as <<INDEX, COUNT>>
  Inheritances,  \* the sets of inherited commands to consider
  InheritedLog,  \* the size of an inherited log
  Changeable,    \* the inputs that may change
  Drifts         \* how often one does

ASSUME JobAssumption ==
  /\ Commands \in Nat /\ Shards \in 1..8 /\ Workers \in 1..Shards
  /\ LogBytes \in Nat /\ LogBytes >= Shards /\ LogSizes \subseteq Nat /\ InheritedLog \in Nat
  /\ Changeable \subseteq 0..Shards + 1 /\ Drifts \in Nat
  /\ Partitions \subseteq Parts /\ Inheritances \subseteq SUBSET Index

VARIABLES
  partition,   \* manifest: the partition
  inherited,   \* manifest: the commands its parents and recoveries pass on
  starter,     \* where the start command is; "returned" or "raised" at its end
  worker,      \* where the worker's main thread is
  verdict,     \* the worker's state, failure class and results
  shard,       \* each shard thread: where it is, what it has done
  dir,         \* the job directory: see Directory
  world,       \* the deadline has passed; the inputs that changed, and how often
  clean        \* history: the commands that exited with 0 on unchanged inputs

manifest == <<partition, inherited>>
vars == <<partition, inherited, starter, worker, verdict, shard, dir, world, clean>>

Shard == 0..Shards - 1
Concrete == {"failed", "timed_out", "log_limit"}

NoRecord == [state |-> "none", bytes |-> 0]
NoResult == [state |-> "none", raised |-> FALSE, results |-> {}]
IdleShards == [s \in Shard |-> [pc |-> "queued", current |-> 0, run |-> NoRecord,
                                results |-> {}, outcome |-> "none"]]

\* The files: cancel and worker.lock; state.json and who has state.json.tmp
\* open; result.json; command-NNNN.json.
Directory == [cancel : BOOLEAN, lock : BOOLEAN,
              state : Terminals \cup {"absent", "pending", "running", "prepare"},
              tmp : {"none", "starter", "worker"},
              result : [state : Terminals \cup {"none"}, raised : BOOLEAN,
                        results : SUBSET Index],
              record : [Index -> [state : Terminals \cup {"none"}, bytes : Nat]]]

\* partition: round robin.
Group(s) == { i \in Index : i % Shards = s }

BytesOf(set) == MapThenSumSet(LAMBDA i : dir.record[i].bytes, set)

\* Fault: every shard gets the rounded-up share.
AllowanceUp(s) == (LogBytes + Shards - 1) \div Shards

\* allowances: the shares of the shards add up to the budget.
Allowance(s) == LogBytes \div Shards + (IF s < LogBytes % Shards THEN 1 ELSE 0)

\* The inputs that may change: the shards' source trees, the job's own tree,
\* the tools.  shards.source: one shard runs in the job's own tree.
Snapshot == Shards
Tools == Shards + 1
Root(s) == IF Shards = 1 THEN Snapshot ELSE s

\* validate_source of a tree, and seal, which asks for the tools as well.
Valid(root) == root \notin world.drift
Sealed(root) == Valid(root) /\ Valid(Tools)

Init ==
  /\ partition \in Partitions /\ inherited \in Inheritances
  /\ starter = "allocated" /\ worker = "none" /\ verdict = NoResult /\ shard = IdleShards
  /\ dir = [cancel |-> FALSE, lock |-> FALSE, state |-> "absent", tmp |-> "none",
            result |-> NoResult, record |-> [i \in Index |-> NoRecord]]
  /\ world = [expired |-> FALSE, drift |-> {}, drifts |-> 0] /\ clean = {}

-----------------------------------------------------------------------------
(* start: state.json, the worker, the launch receipt.                      *)

started == <<manifest, verdict, shard, world, clean>>

PublishPending ==
  /\ starter = "allocated" /\ starter' = "pending"
  /\ dir' = [dir EXCEPT !.state = "pending"] /\ UNCHANGED <<started, worker>>

Launch ==
  /\ starter = "pending" /\ starter' = "launched"
  /\ worker' = "boot" /\ UNCHANGED <<started, dir>>

PublishLaunch ==
  /\ starter = "launched" /\ starter' = "returned" /\ UNCHANGED <<started, worker, dir>>

\* except BaseException: a launched worker is cancelled; if that was done
\* already, creating the file raises and state.json is left alone.
StartRaises ==
  /\ starter \in {"allocated", "pending", "launched"}
  /\ starter' = IF starter = "launched" /\ dir.cancel THEN "raised" ELSE "failing"
  /\ dir' = [dir EXCEPT !.cancel = @ \/ starter = "launched"] /\ UNCHANGED <<started, worker>>

\* The preparation failure is recorded unless state.json.tmp is in use.
OpenFailure ==
  /\ starter = "failing" /\ starter' = IF dir.tmp = "none" THEN "recording" ELSE "raised"
  /\ dir' = [dir EXCEPT !.tmp = IF @ = "none" THEN "starter" ELSE @]
  /\ UNCHANGED <<started, worker>>

PublishFailure ==
  /\ starter = "recording" /\ starter' = "raised"
  /\ dir' = [dir EXCEPT !.state = "prepare", !.tmp = "none"] /\ UNCHANGED <<started, worker>>

Start == PublishPending \/ Launch \/ PublishLaunch \/ OpenFailure \/ PublishFailure

-----------------------------------------------------------------------------
(* The worker's main thread, before and after the shards.                  *)

others == <<manifest, starter, world, clean>>

\* An exception inside the worker's try block.
Fails(v) ==
  /\ worker' = "result" /\ verdict' = [v EXCEPT !.state = "failed", !.raised = TRUE]

\* Fault: a worker runs whoever ran before it.
TakeLockAgain ==
  /\ worker = "boot" /\ worker' = "check"
  /\ dir' = [dir EXCEPT !.lock = TRUE] /\ UNCHANGED <<others, verdict, shard>>

\* worker.lock is created once; any further worker ends here.
TakeLock ==
  /\ worker = "boot" /\ worker' = IF dir.lock THEN "dead" ELSE "check"
  /\ dir' = [dir EXCEPT !.lock = TRUE] /\ UNCHANGED <<others, verdict, shard>>

CheckInputs ==
  /\ worker = "check"
  /\ IF Sealed(Snapshot) THEN worker' = "opening" /\ UNCHANGED verdict ELSE Fails(verdict)
  /\ UNCHANGED <<others, shard, dir>>

OpenRunning ==
  /\ worker = "opening"
  /\ IF dir.tmp = "none" THEN worker' = "running" /\ UNCHANGED verdict ELSE Fails(verdict)
  /\ dir' = [dir EXCEPT !.tmp = IF @ = "none" THEN "worker" ELSE @]
  /\ UNCHANGED <<others, shard>>

PublishRunning ==
  /\ worker = "running" /\ worker' = "install"
  /\ dir' = [dir EXCEPT !.state = "running", !.tmp = "none"]
  /\ UNCHANGED <<others, verdict, shard>>

\* checkpoints.install and detached_recovery.install: copied logs and records.
Install ==
  /\ worker = "install" /\ worker' = "shards"
  /\ dir' = [dir EXCEPT !.record = [i \in Index |->
       IF i \in inherited THEN [state |-> "passed", bytes |-> InheritedLog] ELSE @[i]]]
  /\ UNCHANGED <<others, verdict, shard>>

\* Fault: any cancelled shard makes the job a cancelled one.
OutcomesCancelledFirst(outcomes) ==
  IF "cancelled" \in outcomes THEN {"cancelled"} ELSE
  IF outcomes \cap Concrete # {} THEN outcomes \cap Concrete ELSE {"passed"}

\* The state of the run: the first shard that ended for a reason of its own,
\* in whatever order they ended; else cancelled if any was, else passed.
Outcomes(outcomes) ==
  IF outcomes \cap Concrete # {} THEN outcomes \cap Concrete ELSE
  IF "cancelled" \in outcomes THEN {"cancelled"} ELSE {"passed"}

\* The pool is joined.  One error discards everything; so do passes that are
\* not exactly the assigned and inherited commands.
Join ==
  LET outcomes == { shard[s].outcome : s \in Shard }
      results == UNION { shard[s].results : s \in Shard }
  IN /\ worker = "shards" /\ \A s \in Shard : shard[s].pc = "done"
     /\ \E state \in Outcomes(outcomes) :
          IF "raised" \in outcomes \/ (state = "passed" /\ results # Assigned(partition) \cup inherited)
          THEN Fails(NoResult)
          ELSE LET final == IF state = "passed" /\ results # Index THEN "partial" ELSE state
               IN /\ worker' = IF final \in {"passed", "partial"} THEN "closing" ELSE "result"
                  /\ verdict' = [NoResult EXCEPT !.state = final, !.results = results]
     /\ UNCHANGED <<others, shard, dir>>

\* The validation of a successful run, and the last look at the cancel file.
Close ==
  /\ worker = "closing"
  /\ IF Sealed(Snapshot)
     THEN worker' = "result" /\ verdict' = [verdict EXCEPT !.state =
                                              IF dir.cancel THEN "cancelled" ELSE @]
     ELSE Fails(verdict)
  /\ UNCHANGED <<others, shard, dir>>

\* A probe, a copy or a read raised: the job fails with that failure class.
WorkerRaises ==
  /\ worker \in {"check", "install", "closing"} /\ Fails(verdict)
  /\ UNCHANGED <<others, shard, dir>>

PublishResult ==
  /\ worker = "result" /\ worker' = "terminal"
  /\ dir' = [dir EXCEPT !.result = verdict] /\ UNCHANGED <<others, verdict, shard>>

OpenTerminal ==
  /\ worker = "terminal" /\ worker' = IF dir.tmp = "none" THEN "settling" ELSE "dead"
  /\ dir' = [dir EXCEPT !.tmp = IF @ = "none" THEN "worker" ELSE @]
  /\ UNCHANGED <<others, verdict, shard>>

PublishTerminal ==
  /\ worker = "settling" /\ worker' = "exited"
  /\ dir' = [dir EXCEPT !.state = verdict.state, !.tmp = "none"]
  /\ UNCHANGED <<others, verdict, shard>>

Main == TakeLock \/ CheckInputs \/ OpenRunning \/ PublishRunning \/ Install \/ Join \/ Close
        \/ PublishResult \/ OpenTerminal \/ PublishTerminal

-----------------------------------------------------------------------------
(* A shard thread.                                                         *)

still == <<manifest, starter, worker, verdict, world>>
At(s, pc) == worker = "shards" /\ shard[s].pc = pc
Goes(s, pc) == shard' = [shard EXCEPT ![s].pc = pc] /\ UNCHANGED <<still, dir, clean>>

\* The thread ends with this outcome, after creating the cancel file or not.
Ends(s, outcome, cancels) ==
  /\ shard' = [shard EXCEPT ![s].pc = "done", ![s].outcome = outcome]
  /\ dir' = [dir EXCEPT !.cancel = @ \/ cancels]
  /\ UNCHANGED <<still, clean>>

\* Fault: an inherited pass is listed only when its turn comes.
ImportedLater(s) == {}

\* What is inherited counts at once: an interruption must not lose it.
Imported(s) == inherited \cap Group(s)

\* The commands of the group that this shard still has to run, and the log
\* bytes it has left.
Todo(s) == (Group(s) \cap Assigned(partition)) \ (inherited \cup shard[s].results)
Room(s) == Allowance(s) - BytesOf(shard[s].results)

\* A pool thread takes the next shard.
Enter(s) ==
  /\ At(s, "queued")
  /\ \A r \in Shard : (r < s) => (shard[r].pc # "queued")
  /\ Cardinality({ r \in Shard : shard[r].pc \notin {"queued", "done"} }) < Workers
  /\ IF BytesOf(inherited \cap Group(s)) <= Allowance(s) /\ Valid(Root(s))
     THEN /\ shard' = [shard EXCEPT ![s].pc = "next", ![s].results = Imported(s)]
          /\ UNCHANGED <<still, dir, clean>>
     ELSE Ends(s, "raised", TRUE)

\* The progress record and the validation before the next command.
Begin(s) ==
  /\ At(s, "next") /\ Todo(s) # {} /\ Valid(Root(s))
  /\ shard' = [shard EXCEPT ![s].pc = "check", ![s].current = Min(Todo(s))]
  /\ UNCHANGED <<still, dir, clean>>

\* Cancellation first, then the deadline and the log allowance, which cancel.
Check(s) ==
  /\ At(s, "check")
  /\ IF dir.cancel THEN Ends(s, "cancelled", FALSE)
     ELSE IF world.expired THEN Ends(s, "timed_out", TRUE)
     ELSE IF Room(s) <= 0 THEN Ends(s, "log_limit", TRUE)
     ELSE Goes(s, "seal")

SealBefore(s) == At(s, "seal") /\ Sealed(Root(s)) /\ Goes(s, "exec")

\* process.execute returned; its process group is dead and its log is synced.
Executed(s, state, bytes) ==
  /\ At(s, "exec")
  /\ shard' = [shard EXCEPT ![s].pc = "reseal", ![s].run = [state |-> state, bytes |-> bytes]]
  /\ UNCHANGED <<still, dir>>

\* Fault: the loop asks for the cancel file only.
StoppedByCancel(s) == dir.cancel /\ Executed(s, "cancelled", 0) /\ UNCHANGED clean

\* The runner stops the command.  How much a command that did not pass has
\* printed is never added up, so it counts as nothing here.
Stopped(s) ==
  /\ \/ dir.cancel /\ Executed(s, "cancelled", 0)
     \/ world.expired /\ Executed(s, "timed_out", 0)
  /\ UNCHANGED clean

Flooded(s) ==
  /\ \E n \in LogSizes : n > Room(s)
  /\ Executed(s, "log_limit", 0) /\ UNCHANGED clean

\* The command ends by itself, perhaps before a cancellation that the runner's
\* loop would have seen next.
Exits(s) ==
  \/ Executed(s, "failed", 0) /\ UNCHANGED clean
  \/ \E n \in LogSizes :
       /\ n <= Room(s) /\ Executed(s, "passed", n)
       /\ clean' = IF Sealed(Root(s)) THEN clean \cup {shard[s].current} ELSE clean

\* Fault: the inputs are not looked at again after the command.
SealAfterNot(s) == At(s, "reseal") /\ Goes(s, "publish")

\* Only a command that passed is sealed again.
SealAfter(s) ==
  /\ At(s, "reseal")
  /\ (shard[s].run.state = "passed") => Sealed(Root(s))
  /\ Goes(s, "publish")

Publish(s) ==
  /\ At(s, "publish")
  /\ dir' = [dir EXCEPT !.record[shard[s].current] = shard[s].run]
  /\ shard' = [shard EXCEPT ![s].pc = IF shard[s].run.state = "passed" THEN "next" ELSE "stop",
                            ![s].results = @ \cup {shard[s].current}]
  /\ UNCHANGED <<still, clean>>

\* The first command that does not pass stops the shard, and the others.
Stop(s) == At(s, "stop") /\ Ends(s, shard[s].run.state, TRUE)

Leave(s) ==
  /\ At(s, "next") /\ Todo(s) = {} /\ Valid(Root(s))
  /\ Ends(s, IF dir.cancel THEN "cancelled" ELSE "passed", FALSE)

\* A validation or a seal found a change.
Rejects(s) ==
  /\ \/ At(s, "next") /\ ~Valid(Root(s))
     \/ At(s, "seal") /\ ~Sealed(Root(s))
     \/ At(s, "reseal") /\ shard[s].run.state = "passed" /\ ~Sealed(Root(s))
  /\ Ends(s, "raised", TRUE)

\* A probe timed out, a file could not be written, a process would not start.
Raises(s) ==
  /\ \E pc \in {"next", "seal", "exec", "reseal", "publish"} : At(s, pc)
  /\ Ends(s, "raised", TRUE)

\* What a thread does whatever the command does.
Runs(s) == Enter(s) \/ Begin(s) \/ Check(s) \/ SealBefore(s) \/ Stopped(s) \/ SealAfter(s)
           \/ Publish(s) \/ Stop(s) \/ Leave(s) \/ Rejects(s)

-----------------------------------------------------------------------------
(* Everybody else.                                                         *)

Alive == worker \notin {"none", "exited", "dead"}

RequestCancel ==
  /\ starter # "allocated" /\ ~dir.cancel
  /\ dir' = [dir EXCEPT !.cancel = TRUE] /\ UNCHANGED <<started, starter, worker>>

\* SIGKILL, a lost host, a full disk while the result is written.
Dies ==
  /\ Alive /\ worker' = "dead" /\ verdict' = NoResult /\ shard' = IdleShards
  /\ UNCHANGED <<others, dir>>

\* Somebody runs _worker once more.
RunAgain ==
  /\ worker \in {"exited", "dead"} /\ worker' = "boot"
  /\ verdict' = NoResult /\ shard' = IdleShards /\ UNCHANGED <<others, dir>>

Expire ==
  /\ Alive /\ ~world.expired /\ world' = [world EXCEPT !.expired = TRUE]
  /\ UNCHANGED <<manifest, starter, worker, verdict, shard, dir, clean>>

\* An input changes; it may change back while no command depends on it.
Change(x) ==
  /\ Alive
  /\ \/ /\ x \notin world.drift /\ world.drifts < Drifts
        /\ world' = [world EXCEPT !.drift = @ \cup {x}, !.drifts = @ + 1]
     \/ /\ x \in world.drift /\ world' = [world EXCEPT !.drift = @ \ {x}]
        /\ \A s \in Shard : (shard[s].pc \in {"exec", "reseal"}) => x \notin {Root(s), Tools}
  /\ UNCHANGED <<manifest, starter, worker, verdict, shard, dir, clean>>

\* The start raised before it launched a worker: nothing is left to happen.
Finished == starter = "raised" /\ worker = "none" /\ UNCHANGED vars

Next ==
  \/ Finished \/ Start \/ StartRaises \/ Main \/ WorkerRaises
  \/ \E s \in Shard : Runs(s) \/ Exits(s) \/ Flooded(s) \/ Raises(s)
  \/ RequestCancel \/ Dies \/ RunAgain \/ Expire \/ \E x \in Changeable : Change(x)

Spec == Init /\ [][Next]_vars

(***************************************************************************)
(* The operating system schedules the worker's threads, and time passes.   *)
(* Nothing makes a command end, an operator cancel or a killed worker run. *)
(***************************************************************************)
FairSpec ==
  /\ Spec /\ WF_vars(Main) /\ WF_vars(Expire)
  /\ \A s \in Shard : WF_vars(Runs(s))

-----------------------------------------------------------------------------
(* Properties.                                                             *)

\* Types, and the places each thread may be in.
TypeOK ==
  /\ partition \in Partitions /\ inherited \in Inheritances
  /\ starter \in {"allocated", "pending", "launched", "returned", "failing", "recording",
                  "raised"}
  /\ worker \in {"none", "boot", "check", "opening", "running", "install", "shards", "closing",
                 "result", "terminal", "settling", "exited", "dead"}
  /\ dir \in Directory /\ clean \subseteq Index
  /\ world \in [expired : BOOLEAN, drift : SUBSET Changeable, drifts : 0..Drifts]
  /\ \A s \in Shard :
       /\ shard[s].pc \in {"queued", "next", "check", "seal", "exec", "reseal", "publish",
                           "stop", "done"}
       /\ shard[s].results \subseteq Index

\* What a reader believes: state.json is terminal and names this result.json.
Evidence ==
  LET Of(state) == { i \in dir.result.results : dir.record[i].state = state }
      told == dir.state \in Terminals /\ dir.result.state = dir.state
      usable == told /\ ~dir.result.raised
  IN [state |-> IF told THEN dir.state ELSE "none",
      raised |-> told /\ dir.result.raised,
      passes |-> IF usable THEN Of("passed") ELSE {},
      failures |-> IF usable THEN Of("failed") ELSE {}]

Promise == INSTANCE DetachedJobSpec WITH evidence <- Evidence, cancel <- dir.cancel

\* A job, with its threads, its crashes and its operator, publishes at most one
\* truthful result (DetachedJobSpec); a start that raises may hide it.
PublishesTruthfully == Promise!Spec

\* A record that says passed was left by a command that exited with 0 while
\* its source tree and the tools were those of the manifest.
PassRanOnFrozenInputs ==
  \A i \in Index \ inherited : (dir.record[i].state = "passed") => i \in clean

\* detached_shards.run keeps a concrete failure instead of the cancellation
\* that it caused in the other shards.
FailureIsNotHidden == (Evidence.failures # {}) => (Evidence.state \in Concrete)

\* What collect asks of the job itself, beside its parents and its lateness.
Collectable ==
  /\ ~dir.cancel /\ world.drift = {}
  /\ Evidence.state = "passed" /\ ~Evidence.raised /\ Evidence.passes = Index
  /\ BytesOf(Index) <= LogBytes

\* Nothing but a cancellation, a changed input or a late end comes between a
\* passed run and its collection: what the shards may print, together with the
\* inherited logs, never exceeds the budget that collect adds up again.
PassedRunCollects ==
  (Evidence.state = "passed" /\ ~dir.cancel /\ world.drift = {}) => Collectable

\* A worker that has its lock leaves a result, unless it is killed or its start
\* failed: no hung command, failed sibling, cancellation or changed input
\* leaves a thread waiting.
WorkerSettles ==
  dir.lock ~> (worker = "dead" \/ starter = "raised" \/ Evidence.state # "none")

\* detached_job.start: "a preparation failure is never resumable as success".
\* checkpoints.completed resumes from a successful result without asking for
\* the cancel file that the failed start has left.
PreparationFailureIsNotSuccess ==
  (starter = "raised") => ~(Evidence.state \in {"passed", "partial"} /\ ~Evidence.raised)

=============================================================================

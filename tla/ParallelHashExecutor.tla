------------------------- MODULE ParallelHashExecutor -------------------------
(***************************************************************************)
(* Bounded native-thread ParallelHash (brynja-hash-parallel-std/src/lib.rs *)
(* and worker.rs, over the plan and collector of brynja-hash-parallel/src/ *)
(* scheduled.rs).                                                          *)
(*                                                                         *)
(* Threads share one executor; a try_lock gate lets one of them in.  The   *)
(* call splits its input into leaves and runs them in batches: scoped      *)
(* worker threads fill the batch's slots, the caller joins them in order   *)
(* and absorbs their leaves.  Any thread may cancel a token at any moment. *)
(*                                                                         *)
(* A leaf value is the sequence of input positions hashed into it, so what *)
(* is released shows what was absorbed, and in which order.  The 128- and  *)
(* 256-bit calls, their XOF and bit-string forms run the same control.     *)
(***************************************************************************)
EXTENDS Naturals, Sequences, FiniteSets

CONSTANTS
  Callers,     \* the threads that share the executor
  Tokens,      \* the cancellation tokens they use, shared or not
  Lengths,     \* the input lengths
  BlockSize,   \* ParallelHash's B
  Workers,     \* ParallelHashExecutor::workers
  MaxLeaves    \* ParallelHashExecutor::max_leaves

ASSUME ExecutorAssumption ==
  /\ {"Free", "Poisoned"} \cap Callers = {}
  /\ Lengths \subseteq Nat /\ Lengths # {}
  /\ BlockSize \in Nat \ {0} /\ Workers \in Nat \ {0} /\ MaxLeaves \in Nat \ {0}

VARIABLES
  gate,        \* operation_gate: "Free", its holder, or "Poisoned"
  phase,       \* where each caller's thread is; "Idle" outside a call
  op,          \* each caller's last admitted call
  worker,      \* what became of the worker thread of each slot
  slot,        \* LeafStorage: the leaf value each slot holds; empty when erased
  cancelled,   \* the tokens whose flag is set
  result,      \* the result of each caller's last call; "None" while it runs
  output       \* what that call released; empty if nothing

vars == <<gate, phase, op, worker, slot, cancelled, result, output>>

Slots == 1..Workers
Erased == [i \in Slots |-> <<>>]
Partial == <<0>>   \* a leaf whose worker died while it was writing

-----------------------------------------------------------------------------
(* The plan.                                                               *)

\* Fault: the incomplete last leaf is not counted.
LeafCountComplete(n) == n \div BlockSize

\* leaf_count: a last leaf may be short; an empty input has none.
LeafCount(n) == n \div BlockSize + (IF n % BlockSize = 0 THEN 0 ELSE 1)

\* leaf_slice: the input positions of the leaf with this index.
LeafSlice(n, index) ==
  LET start == index * BlockSize
  IN [k \in 1..(IF n - start < BlockSize THEN n - start ELSE BlockSize) |-> start + k]

\* Fault: the slots are the even share of the leaves per worker.
SlotCountShare(leaves) == leaves \div Workers

\* The slots a call allocates, and the most workers it runs at once.
SlotCount(leaves) == IF leaves < Workers THEN leaves ELSE Workers

\* The workers of the batch that starts at op[c].base.
BatchCount(c) ==
  LET remaining == LeafCount(op[c].length) - op[c].base
      slots == SlotCount(LeafCount(op[c].length))
  IN IF remaining < slots THEN remaining ELSE slots

NewOperation(n, t) ==
  [length |-> n, token |-> t, base |-> 0, spawned |-> 0, joined |-> 0, failure |-> "None",
   merged |-> 0, absorbed |-> <<>>,
   early |-> t \in cancelled,   \* history: cancelled before the call
   late |-> 0]                  \* history: workers started after the cancellation

Init ==
  /\ gate = "Free" /\ cancelled = {}
  /\ phase = [c \in Callers |-> "Idle"]
  /\ \E n \in Lengths, t \in Tokens : op = [c \in Callers |-> NewOperation(n, t)]
  /\ worker = [c \in Callers |-> [i \in Slots |-> "None"]]
  /\ slot = [c \in Callers |-> Erased]
  /\ result = [c \in Callers |-> "None"]
  /\ output = [c \in Callers |-> <<>>]

-----------------------------------------------------------------------------
(* Tokens.                                                                 *)

Cancel(t) ==
  /\ cancelled' = cancelled \cup {t}
  /\ UNCHANGED <<gate, phase, op, worker, slot, result, output>>

\* A fresh token takes the place of one that no call in progress uses.
Renew(t) ==
  /\ \A c \in Callers : phase[c] # "Idle" => op[c].token # t
  /\ cancelled' = cancelled \ {t}
  /\ UNCHANGED <<gate, phase, op, worker, slot, result, output>>

\* ensure_live
Live(c) == op[c].token \notin cancelled

-----------------------------------------------------------------------------
(* Entering and leaving.                                                   *)

\* Fault: a call does not stop at a gate that is held.
MayEnterHeld == gate # "Poisoned"

\* enter_operation never waits: the gate is free, or the call is refused.
MayEnter == gate = "Free"

Enter(c) ==
  /\ phase[c] = "Idle"
  /\ \/ /\ MayEnter /\ gate' = c
        /\ phase' = [phase EXCEPT ![c] = "Admit"]
        /\ \E n \in Lengths, t \in Tokens : op' = [op EXCEPT ![c] = NewOperation(n, t)]
        /\ result' = [result EXCEPT ![c] = "None"]
     \/ /\ ~MayEnter
        /\ result' = [result EXCEPT ![c] = IF gate = "Poisoned" THEN "WorkerPanicked"
                                           ELSE "ResourceExhausted"]
        /\ UNCHANGED <<gate, phase, op>>
  /\ output' = [output EXCEPT ![c] = <<>>]
  /\ UNCHANGED <<worker, slot, cancelled>>

\* Fault: only the slots whose workers were joined are wiped.
WipeJoined(c) ==
  slot' = [slot EXCEPT ![c] = [i \in Slots |-> IF i <= op[c].joined THEN <<>> ELSE @[i]]]

\* Drop of LeafStorage: every slot, on every way out of a call.
Wipe(c) == slot' = [slot EXCEPT ![c] = Erased]

\* What is left of a call in this model: its input, its token and its history.
Forgotten(o) == [o EXCEPT !.base = 0, !.spawned = 0, !.joined = 0, !.failure = "None",
                          !.merged = 0, !.absorbed = <<>>]

\* The call returns r: storage, collector and plan are dropped, then the gate.
Return(c, r) ==
  /\ phase' = [phase EXCEPT ![c] = "Idle"]
  /\ op' = [op EXCEPT ![c] = Forgotten(@)]
  /\ result' = [result EXCEPT ![c] = r]
  /\ gate' = "Free" /\ Wipe(c)
  /\ UNCHANGED <<worker, cancelled>>

Abandon(c, r) == Return(c, r) /\ UNCHANGED output

Goto(c, p) ==
  /\ phase' = [phase EXCEPT ![c] = p]
  /\ UNCHANGED <<gate, cancelled, result, output>>

\* Planning, the collector, admit_work and the leaf storage.
Admit(c) ==
  /\ phase[c] = "Admit"
  /\ \/ Abandon(c, "Construction")
     \/ ~Live(c) /\ Abandon(c, "Cancelled")
     \/ /\ Live(c) /\ LeafCount(op[c].length) > MaxLeaves
        /\ Abandon(c, "WorkLimitExceeded")
     \/ /\ Live(c) /\ LeafCount(op[c].length) <= MaxLeaves
        /\ \/ LeafCount(op[c].length) > 0 /\ Abandon(c, "ResourceExhausted")
           \/ Goto(c, "Batch") /\ UNCHANGED <<op, worker, slot>>

-----------------------------------------------------------------------------
(* One batch.                                                              *)

\* The loop of execute128_with; the storage is dropped after its last batch.
Batch(c) ==
  /\ phase[c] = "Batch"
  /\ IF op[c].base >= LeafCount(op[c].length)
     THEN Goto(c, "Finish") /\ Wipe(c) /\ UNCHANGED <<op, worker>>
     ELSE \/ ~Live(c) /\ Abandon(c, "Cancelled")
          \/ Live(c) /\ Abandon(c, "ResourceExhausted")   \* the handles' allocation
          \/ /\ Live(c)
             /\ Goto(c, IF BatchCount(c) = 0 THEN "Join" ELSE "Check")
             /\ op' = [op EXCEPT ![c].spawned = 0, ![c].joined = 0]
             /\ UNCHANGED <<worker, slot>>

\* Fault: the token is only consulted for the first worker of a batch.
StopsSpawningFirst(c) == ~Live(c) /\ op[c].spawned = 0

\* The token is consulted before every worker.
StopsSpawning(c) == ~Live(c)

Check(c) ==
  /\ phase[c] = "Check"
  /\ IF StopsSpawning(c)
     THEN op' = [op EXCEPT ![c].failure = "Cancelled"] /\ Goto(c, "Join")
     ELSE Goto(c, "Spawn") /\ UNCHANGED op
  /\ UNCHANGED <<worker, slot>>

\* A worker was started, while the token was live or after.
Started(o, live) == [o EXCEPT !.spawned = @ + 1, !.late = IF live THEN @ ELSE @ + 1]

\* The token may be cancelled between the check and the spawn.  leaf_index and
\* plan.job accept every index of a batch, which ends within the leaves (TypeOK);
\* their error paths are left out.  Where spawning
\* unwinds, thread::scope holds the unwinding until its threads are done.
Spawn(c) ==
  /\ phase[c] = "Spawn"
  /\ \/ /\ worker' = [worker EXCEPT ![c][op[c].spawned + 1] = "Running"]
        /\ op' = [op EXCEPT ![c] = Started(@, Live(c))]
        /\ Goto(c, IF op[c].spawned + 1 = BatchCount(c) THEN "Join" ELSE "Check")
     \/ /\ op' = [op EXCEPT ![c].failure = "ResourceExhausted"]
        /\ Goto(c, "Join") /\ UNCHANGED worker
     \/ Goto(c, "Unwinding") /\ UNCHANGED <<op, worker>>
  /\ UNCHANGED slot

\* The worker of slot i: job.execute(destination).
Work(c, i) ==
  /\ worker[c][i] = "Running"
  /\ \/ /\ worker' = [worker EXCEPT ![c][i] = "Done"]
        /\ slot' = [slot EXCEPT ![c][i] = LeafSlice(op[c].length, op[c].base + i - 1)]
     \/ worker' = [worker EXCEPT ![c][i] = "Failed"] /\ UNCHANGED slot
     \/ /\ worker' = [worker EXCEPT ![c][i] = "Panicked"]
        /\ \E left \in {<<>>, Partial} : slot' = [slot EXCEPT ![c][i] = left]
  /\ UNCHANGED <<gate, phase, op, cancelled, result, output>>

\* failure.get_or_insert: the first failure of a batch is the one reported.
FirstFailure(c, r) == IF op[c].failure = "None" THEN r ELSE op[c].failure

\* A leaf was merged.
Merged(o, leaf) ==
  [o EXCEPT !.joined = @ + 1, !.merged = @ + 1, !.absorbed = @ \o leaf]

\* Every handle is joined, whatever became of the workers before it.
AllJoined(c) == op[c].joined = op[c].spawned

\* merge128 for the next handle, in spawn order.
Join(c) ==
  /\ phase[c] = "Join" /\ ~AllJoined(c)
  /\ LET i == op[c].joined + 1
         index == op[c].base + i - 1
         joined(r) == op' = [op EXCEPT ![c].joined = i, ![c].failure = FirstFailure(c, r)]
     IN /\ worker[c][i] # "Running"
        /\ worker' = [worker EXCEPT ![c][i] = "None"]
        /\ CASE worker[c][i] = "Panicked" -> joined("WorkerPanicked") /\ UNCHANGED slot
             [] worker[c][i] = "Failed"   -> joined("Construction") /\ UNCHANGED slot
             [] OTHER ->
                  /\ \/ ~Live(c) /\ joined("Cancelled")
                     \/ Live(c) /\ joined("Construction")   \* the collector failed
                     \/ /\ Live(c) /\ op[c].failure = "None" /\ index = op[c].merged
                        /\ op' = [op EXCEPT ![c] = Merged(@, slot[c][i])]
                  /\ slot' = [slot EXCEPT ![c][i] = <<>>]
  /\ UNCHANGED <<gate, phase, cancelled, result, output>>

\* The batch is over: report its failure, or go on with the next.
EndBatch(c) ==
  /\ phase[c] = "Join" /\ AllJoined(c)
  /\ IF op[c].failure # "None"
     THEN Abandon(c, op[c].failure)
     ELSE /\ op' = [op EXCEPT ![c].base = @ + BatchCount(c)]
          /\ Goto(c, "Batch") /\ UNCHANGED <<worker, slot>>

\* The unwinding goes on once no worker runs: storage wiped, gate poisoned.
Unwind(c) ==
  /\ phase[c] = "Unwinding"
  /\ \A i \in Slots : worker[c][i] # "Running"
  /\ phase' = [phase EXCEPT ![c] = "Idle"]
  /\ op' = [op EXCEPT ![c] = Forgotten(@)]
  /\ worker' = [worker EXCEPT ![c] = [i \in Slots |-> "None"]]
  /\ result' = [result EXCEPT ![c] = "Unwound"]
  /\ gate' = "Poisoned" /\ Wipe(c)
  /\ UNCHANGED <<cancelled, output>>

-----------------------------------------------------------------------------
(* The result.                                                             *)

\* The last look at the token.
Finish(c) ==
  /\ phase[c] = "Finish"
  /\ \/ ~Live(c) /\ Abandon(c, "Cancelled")
     \/ Live(c) /\ Goto(c, "Release") /\ UNCHANGED <<op, worker, slot>>

\* collector.finalize: every leaf was merged, and the output is written.
Release(c) ==
  /\ phase[c] = "Release"
  /\ \/ Abandon(c, "Construction")
     \/ /\ op[c].merged = LeafCount(op[c].length)
        /\ Return(c, "Ok")
        /\ output' = [output EXCEPT ![c] = op[c].absorbed]

-----------------------------------------------------------------------------
\* The steps of a caller's thread inside a call.
Step(c) == Admit(c) \/ Batch(c) \/ Check(c) \/ Spawn(c) \/ Join(c) \/ EndBatch(c)
             \/ Unwind(c) \/ Finish(c) \/ Release(c)

Next ==
  \/ \E c \in Callers : Enter(c) \/ Step(c) \/ \E i \in Slots : Work(c, i)
  \/ \E t \in Tokens : Cancel(t) \/ Renew(t)

Spec == Init /\ [][Next]_vars

\* The threads the system scheduled keep running: leaf jobs are finite
\* computations and the calling thread waits for nothing but its workers.
FairSpec ==
  /\ Spec
  /\ \A c \in Callers : WF_vars(Step(c))
  /\ \A c \in Callers : \A i \in Slots : WF_vars(Work(c, i))

-----------------------------------------------------------------------------
(* Properties.                                                             *)

Errors == {"Construction", "Cancelled", "WorkLimitExceeded", "ResourceExhausted",
           "WorkerPanicked"}
Phases == {"Idle", "Admit", "Batch", "Check", "Spawn", "Join", "Unwinding", "Finish",
           "Release"}

\* Every variable keeps its type; indices stay within the call's slots and leaves.
TypeOK ==
  /\ gate \in Callers \cup {"Free", "Poisoned"}
  /\ phase \in [Callers -> Phases]
  /\ op \in [Callers -> [length : Lengths, token : Tokens, base : Nat, spawned : 0..Workers,
                         joined : 0..Workers, failure : Errors \cup {"None"}, merged : Nat,
                         absorbed : Seq(Nat), early : BOOLEAN, late : Nat]]
  /\ worker \in [Callers -> [Slots -> {"None", "Running", "Done", "Failed", "Panicked"}]]
  /\ slot \in [Callers -> [Slots -> Seq(Nat)]]
  /\ cancelled \subseteq Tokens
  /\ result \in [Callers -> Errors \cup {"None", "Ok", "Unwound"}]
  /\ output \in [Callers -> Seq(Nat)]
  /\ \A c \in Callers : op[c].base <= LeafCount(op[c].length)

\* When a call has returned, whatever its result, none of its workers is still
\* running and no leaf value is left in its storage: not one of a worker that
\* panicked half way, nor of one that no one joined because spawning unwound.
NothingOutlivesTheCall ==
  \A c \in Callers : phase[c] = "Idle" =>
    \A i \in Slots : worker[c][i] # "Running" /\ slot[c][i] = <<>>

\* All the threads that share an executor never run more workers together than
\* the executor's bound, because only one of them is inside.
WorkersBounded ==
  Cardinality({ w \in Callers \X Slots : worker[w[1]][w[2]] = "Running" }) <= Workers

\* A cancellation is prompt: at most the one worker whose check came before it
\* is still started, and a call that was cancelled before it began starts none
\* and releases nothing.
CancellationIsPrompt ==
  \A c \in Callers :
    /\ op[c].late <= 1
    /\ op[c].early => op[c].late = 0 /\ output[c] = <<>>

\* The executor is what ParallelHashSpec promises: one call at a time, the whole
\* digest or nothing, and no call gets in after one of them unwound.
Abstract ==
  INSTANCE ParallelHashSpec WITH length <- [c \in Callers |-> op[c].length]

ImplementsSpec == Abstract!Spec

\* Every call returns: the batches of a call are finitely many, and joining
\* never waits for a worker that was not started.
EveryCallReturns == \A c \in Callers : phase[c] # "Idle" ~> phase[c] = "Idle"

=============================================================================

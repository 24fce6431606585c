-------------------------- MODULE StrictParallelHash --------------------------
(***************************************************************************)
(* ParallelHash on protected stacks (brynja-hash-parallel-std/src/         *)
(* strict_execution, over the thread groups of brynja-crypto-cpu-std/src/  *)
(* protected_memory/platform/thread.rs).                                   *)
(*                                                                         *)
(* A session owns a root stack, one stack per worker and the protected     *)
(* buffers.  A call runs on the root's thread, then leaf by leaf in waves  *)
(* of worker threads, then on the root's thread again; the caller waits    *)
(* for every thread before it clears the stack that thread ran on.  The    *)
(* result is a loan of the output buffer.  Another thread may cancel the   *)
(* call's token at any moment.                                             *)
(*                                                                         *)
(* One module stands for Session ("Scalar") and CompiledSession            *)
(* ("Compiled"): the second adds backends that fail and the quarantine.    *)
(* A leaf's chaining value is its index, so what is squeezed shows what    *)
(* was merged; the split of the input into leaves is ParallelHashExecutor's.*)
(***************************************************************************)
EXTENDS Naturals, Sequences

CONSTANTS
  Workers,     \* Limits::workers
  MaxLeaves,   \* Limits::max_leaves
  Lengths,     \* the inputs, by the number of their leaves
  Chunks       \* the parts the output is squeezed in: 1, or more for a long XOF

ASSUME StrictAssumption ==
  /\ Workers \in Nat \ {0} /\ MaxLeaves \in Nat /\ Chunks \in Nat \ {0}
  /\ Lengths \subseteq Nat /\ Lengths # {}

VARIABLES
  kind,          \* "Scalar" or "Compiled"
  quarantined,   \* CompiledSession::quarantined
  loan,          \* the Output: "None", "Held", or "Forgotten" by mem::forget
  phase,         \* where the caller is; "Idle" outside a call
  call,          \* the call's request and progress
  cancelled,     \* the flag of the call's token
  thread,        \* the thread on each stack; 0 is the root's
  stack,         \* whether a stack holds frames that were not cleared
  answer,        \* the result slot of each leaf
  cv,            \* the chaining value in each leaf's slot
  staging,       \* the staging buffer
  output,        \* the output buffer
  result,        \* history: how the last call ended; "None" while it runs
  released,      \* history: what it released
  observed       \* history: the failures that calls of this session met

buffers == <<cv, staging, output>>
threads == <<thread, stack>>
history == <<result, released>>
vars == <<kind, quarantined, loan, phase, call, cancelled, thread, stack, answer,
          cv, staging, output, result, released, observed>>

Root == 0
WorkerStacks == 1..Workers
Stacks == 0..Workers
Leaves == 1..MaxLeaves
NoThreads == [s \in Stacks |-> "None"]
CleanStacks == [s \in Stacks |-> FALSE]
NoAnswers == [i \in Leaves |-> "None"]
NoValues == [i \in Leaves |-> <<>>]

NewCall(n) == [length |-> n, base |-> 0, started |-> 0, merged |-> 0, error |-> "None",
               absorbed |-> <<>>]

Init ==
  /\ kind \in {"Scalar", "Compiled"}
  /\ quarantined = FALSE /\ loan = "None" /\ phase = "Idle" /\ cancelled = FALSE
  /\ \E n \in Lengths : call = NewCall(n)
  /\ thread = NoThreads /\ stack = CleanStacks
  /\ answer = NoAnswers /\ cv = NoValues /\ staging = <<>> /\ output = <<>>
  /\ result = "None" /\ released = <<>> /\ observed = {}

-----------------------------------------------------------------------------
(* Entering and leaving a call.                                            *)

\* Another thread cancels the token.
Cancel ==
  /\ phase # "Idle" /\ cancelled' = TRUE
  /\ UNCHANGED <<kind, quarantined, loan, phase, call, answer, observed>>
  /\ UNCHANGED <<threads, buffers, history>>

ClearBuffers == cv' = NoValues /\ staging' = <<>> /\ output' = <<>>

\* compute borrows the session, so no Output is held; a forgotten one is
\* cleared first, and so are the buffers.  The token may be cancelled already.
Enter ==
  /\ phase = "Idle" /\ loan # "Held"
  /\ phase' = "Admit" /\ loan' = "None" /\ cancelled' \in BOOLEAN
  /\ \E n \in Lengths : call' = NewCall(n)
  /\ answer' = NoAnswers /\ ClearBuffers
  /\ result' = "None" /\ released' = <<>>
  /\ UNCHANGED <<kind, quarantined, observed, threads>>

\* The call returns the error r: Buffers is dropped, and clears them all.
Abandon(r) ==
  /\ phase' = "Idle" /\ result' = r /\ ClearBuffers
  /\ call' = NewCall(call.length) /\ answer' = NoAnswers
  /\ UNCHANGED <<kind, loan, cancelled, released>>

\* Fault: only the errors of a backend keep the session quarantined.
HarmlessMost(r) == r # "Backend"

\* The results after which a CompiledSession may be used again.
Harmless(r) == r \in {"Ok", "Cancelled", "InvalidBits"}

\* worker::run returned an error: the quarantine that was armed stays or goes.
Fail(r) == Abandon(r) /\ quarantined' = (quarantined /\ ~Harmless(r))

Goto(p) == phase' = p /\ UNCHANGED <<kind, loan, cancelled, history>>

\* The refusals before anything starts; a CompiledSession that goes on is
\* quarantined until the call's result says otherwise.
Admit ==
  /\ phase = "Admit"
  /\ \/ quarantined /\ Abandon("Quarantined") /\ UNCHANGED quarantined
     \/ /\ ~quarantined /\ Abandon("WorkLimit") /\ UNCHANGED quarantined
     \/ /\ ~quarantined /\ call.length <= MaxLeaves /\ cancelled
        /\ Abandon("Cancelled") /\ UNCHANGED quarantined
     \/ /\ ~quarantined /\ call.length <= MaxLeaves /\ ~cancelled
        /\ quarantined' = (kind = "Compiled")
        /\ Goto("Canonical") /\ UNCHANGED <<call, answer, buffers>>
  /\ UNCHANGED <<threads, observed>>

-----------------------------------------------------------------------------
(* The root's thread (ProtectedStack::run).                                *)

\* pthread_create, on the stack that was acquired for it.
Create(s) ==
  /\ thread' = [thread EXCEPT ![s] = "Running"]
  /\ stack' = [stack EXCEPT ![s] = TRUE]

StartRoot ==
  /\ phase \in {"Canonical", "Collect"} /\ thread[Root] = "None"
  /\ \/ Create(Root) /\ UNCHANGED <<quarantined, phase, call, answer, buffers, observed>>
        /\ UNCHANGED <<kind, loan, cancelled, history>>
     \/ /\ Fail("ThreadStart") /\ observed' = observed \cup {"NotStarted"}
        /\ UNCHANGED threads

\* The thread of a stack ends.
Ends(s, how) == thread' = [thread EXCEPT ![s] = how] /\ UNCHANGED stack

\* The root's closure returns this error, or none.
RootReturns(r) ==
  /\ Ends(Root, "Done") /\ call' = [call EXCEPT !.error = r]
  /\ UNCHANGED <<quarantined, answer, phase, kind, loan, cancelled, history>>

\* The bit strings are checked and canonicalised.
Canonicalize ==
  /\ phase = "Canonical" /\ thread[Root] = "Running"
  /\ \E r \in {"None", "InvalidBits"} : RootReturns(r)
  /\ UNCHANGED <<buffers, observed>>

\* A job that unwinds on its stack, whose frames stay; the unwinding ends in
\* `enter`.  A worker may have been in the middle of its leaf.
Panic(s) ==
  /\ thread[s] \in {"Running", "Working"} /\ Ends(s, "Panicked")
  /\ observed' = observed \cup {"Panicked"}
  /\ IF s = Root THEN UNCHANGED cv
     ELSE \E v \in {<<>>, <<0>>} : cv' = [cv EXCEPT ![call.base + s] = v]
  /\ UNCHANGED <<kind, quarantined, loan, phase, call, cancelled, answer, staging, output, history>>

\* Fault: the error the root's closure stored is not looked at.
RootErrorUnread == "None"

\* What the root's closure left for the caller.
RootError == call.error

\* join, clear the stack, look at the panic and then at the closure's result.
JoinRoot ==
  /\ thread[Root] \in {"Done", "Panicked"}
  /\ thread' = [thread EXCEPT ![Root] = "None"]
  /\ stack' = [stack EXCEPT ![Root] = FALSE]
  /\ \/ thread[Root] = "Panicked" /\ Fail("WorkerPanicked")
     \/ thread[Root] = "Done" /\ RootError # "None" /\ Fail(RootError)
     \/ /\ thread[Root] = "Done" /\ RootError = "None"
        /\ Goto(IF phase = "Canonical" THEN "Wave" ELSE "Finish")
        /\ UNCHANGED <<quarantined, call, answer, buffers>>
  /\ UNCHANGED observed

-----------------------------------------------------------------------------
(* The waves (ProtectedStack::run_group).                                  *)

\* The leaves of this wave.
WaveSize == IF call.length - call.base < Workers THEN call.length - call.base ELSE Workers

\* Nothing is started before every job and thread attribute is ready; the
\* results are allocated before the first look at the token.
Wave ==
  /\ phase = "Wave"
  /\ \/ /\ call.base < call.length /\ (cancelled => call.base = 0)
        /\ Fail("WorkLimit") /\ observed' = observed \cup {"NoResources"}
     \/ /\ call.base >= call.length /\ Goto("Collect")
        /\ UNCHANGED <<quarantined, call, answer, buffers, observed>>
     \/ call.base < call.length /\ cancelled /\ Fail("Cancelled") /\ UNCHANGED observed
     \/ /\ call.base < call.length /\ ~cancelled /\ Goto("Launch")
        /\ call' = [call EXCEPT !.started = 0]
        /\ UNCHANGED <<quarantined, answer, buffers, observed>>
  /\ UNCHANGED threads

\* One thread after the other; the first that cannot be created ends it.
Launch ==
  /\ phase = "Launch"
  /\ LET s == call.started + 1 IN
     \/ /\ Create(s) /\ call' = [call EXCEPT !.started = s]
        /\ Goto(IF s = WaveSize THEN "Join" ELSE "Launch") /\ UNCHANGED observed
     \/ /\ call' = [call EXCEPT !.error = "ThreadStart"] /\ Goto("Join")
        /\ observed' = observed \cup {"NotStarted"} /\ UNCHANGED threads
  /\ UNCHANGED <<quarantined, answer, buffers>>

\* The result slot of the leaf on worker stack s, and the value it left.
Answers(s, r, v) ==
  /\ answer' = [answer EXCEPT ![call.base + s] = r]
  /\ cv' = [cv EXCEPT ![call.base + s] = v]
  /\ Ends(s, "Done")
  /\ UNCHANGED <<kind, quarantined, loan, phase, call, cancelled, staging, output, history>>

\* A job's first look at the token.
Begin(s) ==
  /\ thread[s] = "Running" /\ UNCHANGED observed
  /\ \/ cancelled /\ Answers(s, "Cancelled", <<>>)
     \/ /\ ~cancelled /\ thread' = [thread EXCEPT ![s] = "Working"]
        /\ UNCHANGED <<kind, quarantined, loan, phase, call, cancelled, stack, answer>>
        /\ UNCHANGED <<buffers, history>>

\* The leaf is done, failed, or was cancelled: by its last look at the token,
\* or inside a batch, before its value was written.
Work(s) ==
  /\ thread[s] = "Working"
  /\ LET value == <<call.base + s>> IN
     \/ ~cancelled /\ Answers(s, "Ok", value) /\ UNCHANGED observed
     \/ /\ cancelled /\ \E v \in {<<>>, value} : Answers(s, "Cancelled", v)
        /\ UNCHANGED observed
     \/ /\ \E v \in {<<>>, value} : Answers(s, "Backend", v)
        /\ observed' = observed \cup {"LeafFailed"}

Ended == {"None", "Done", "Panicked"}

\* Fault: a thread that could not be created ends the call at once.
GroupJoinedOnSuccess ==
  call.error = "ThreadStart" \/ \A s \in WorkerStacks : thread[s] \in Ended

\* Fault: threads that were never created are joined too.
GroupJoinedUnstarted == \A s \in WorkerStacks : thread[s] \in {"Done", "Panicked"}

\* join_all: every thread that was started has ended, on every path.
GroupJoined == \A s \in WorkerStacks : thread[s] \in Ended

\* A thread that has ended is gone once it is joined.
AfterJoin(s) == IF thread[s] \in Ended THEN "None" ELSE thread[s]

\* The leaves of the wave that have no value, and the first of them.
Missing == { i \in call.base + 1 .. call.base + WaveSize : answer[i] # "Ok" }
FirstMissing == CHOOSE i \in Missing : \A j \in Missing : i <= j

\* All stacks of the group are cleared; then the group's own error, a panic,
\* and the first result that is not a leaf, in this order.
JoinWave ==
  /\ phase = "Join" /\ GroupJoined
  /\ thread' = [s \in Stacks |-> AfterJoin(s)]
  /\ stack' = [s \in Stacks |-> s = Root /\ stack[s]]
  /\ LET panicked == \E s \in WorkerStacks : thread[s] = "Panicked" IN
     \/ call.error # "None" /\ Fail(call.error)
     \/ call.error = "None" /\ panicked /\ Fail("WorkerPanicked")
     \/ /\ call.error = "None" /\ ~panicked /\ Missing # {}
        /\ Fail(answer[FirstMissing])
     \/ /\ call.error = "None" /\ ~panicked /\ Missing = {}
        /\ call' = [call EXCEPT !.base = @ + WaveSize]
        /\ Goto("Wave") /\ UNCHANGED <<quarantined, answer, buffers>>
  /\ UNCHANGED observed

-----------------------------------------------------------------------------
(* The result.                                                             *)

Collecting == phase = "Collect" /\ thread[Root] = "Running"

RootStays == UNCHANGED <<kind, quarantined, loan, phase, cancelled, answer, threads, history>>

\* check(cancel): before the workspace, each merge, each part, and at the end.
RootCancelled ==
  /\ Collecting /\ cancelled
  /\ RootReturns("Cancelled") /\ UNCHANGED <<buffers, observed>>

\* The next part of the digest of what was absorbed.
Part(absorbed, k) == [over |-> absorbed, part |-> k]
NextPart == Part(call.absorbed, Len(output) + 1)

\* The collector, the reader or the root's backend fails; staging may hold a
\* part that was not transferred.
RootFailed ==
  /\ Collecting /\ RootReturns("Backend")
  /\ observed' = observed \cup {"RootFailed"}
  /\ staging' \in {staging, <<NextPart>>} /\ UNCHANGED <<cv, output>>

\* collector.merge of the next leaf.
Merge ==
  /\ Collecting /\ ~cancelled /\ call.merged < call.length
  /\ call' = [call EXCEPT !.merged = @ + 1, !.absorbed = @ \o cv[call.merged + 1]]
  /\ RootStays /\ UNCHANGED <<buffers, observed>>

\* Squeeze the next part into staging and transfer it.
Squeeze ==
  /\ Collecting /\ ~cancelled /\ call.merged = call.length /\ Len(output) < Chunks
  /\ staging' = <<NextPart>> /\ output' = Append(output, NextPart)
  /\ RootStays /\ UNCHANGED <<call, cv, observed>>

\* The last look at the token on the root's stack.
RootDone ==
  /\ Collecting /\ ~cancelled /\ Len(output) = Chunks
  /\ RootReturns("None") /\ UNCHANGED <<buffers, observed>>

\* The caller's last look at the token: the result is lent, or cleared.
Finish ==
  /\ phase = "Finish"
  /\ \/ cancelled /\ Fail("Cancelled")
     \/ /\ ~cancelled /\ phase' = "Idle" /\ result' = "Ok"
        /\ quarantined' = FALSE
        /\ loan' = "Held" /\ released' = output
        /\ cv' = NoValues /\ staging' = <<>> /\ UNCHANGED output
        /\ call' = NewCall(call.length) /\ answer' = NoAnswers
        /\ UNCHANGED <<kind, cancelled>>
  /\ UNCHANGED <<threads, observed>>

\* Drop of Output, or declassify, which drops it on every path.
DropOutput ==
  /\ loan = "Held" /\ loan' = "None" /\ output' = <<>>
  /\ UNCHANGED <<kind, quarantined, phase, call, cancelled, threads, answer, cv, staging>>
  /\ UNCHANGED <<history, observed>>

\* mem::forget of Output.
ForgetOutput ==
  /\ loan = "Held" /\ loan' = "Forgotten"
  /\ UNCHANGED <<kind, quarantined, phase, call, cancelled, threads, answer, buffers>>
  /\ UNCHANGED <<history, observed>>

\* CompiledSession::quarantine.
Quarantine ==
  /\ kind = "Compiled" /\ phase = "Idle" /\ loan # "Held"
  /\ quarantined' = TRUE /\ loan' = "None" /\ ClearBuffers
  /\ UNCHANGED <<kind, phase, call, cancelled, threads, answer, history, observed>>

-----------------------------------------------------------------------------
RootStep == Canonicalize \/ RootCancelled \/ RootFailed \/ Merge \/ Squeeze \/ RootDone

CallerStep == Admit \/ StartRoot \/ JoinRoot \/ Wave \/ Launch \/ JoinWave \/ Finish

Next ==
  \/ Enter \/ CallerStep \/ RootStep \/ Cancel
  \/ \E s \in WorkerStacks : Begin(s) \/ Work(s)
  \/ \E s \in Stacks : Panic(s)
  \/ DropOutput \/ ForgetOutput \/ Quarantine

Spec == Init /\ [][Next]_vars

\* Threads that exist keep running: a job is a finite computation that waits
\* for nothing, and the caller only waits for the threads it created.
FairSpec ==
  /\ Spec
  /\ WF_vars(CallerStep) /\ WF_vars(RootStep)
  /\ \A s \in WorkerStacks : WF_vars(Begin(s) \/ Work(s))

-----------------------------------------------------------------------------
(* Properties.                                                             *)

Errors == {"Quarantined", "WorkLimit", "Cancelled", "InvalidBits", "ThreadStart",
           "WorkerPanicked", "Backend"}
Phases == {"Idle", "Admit", "Canonical", "Wave", "Launch", "Join", "Collect", "Finish"}
Failures == {"NotStarted", "NoResources", "Panicked", "LeafFailed", "RootFailed"}

\* Every variable keeps its type; a wave stays within the call's leaves.
TypeOK ==
  /\ kind \in {"Scalar", "Compiled"} /\ quarantined \in BOOLEAN
  /\ loan \in {"None", "Held", "Forgotten"} /\ phase \in Phases
  /\ call \in [length : Lengths, base : Nat, started : 0..Workers, merged : Nat,
               error : Errors \cup {"None"}, absorbed : Seq(Nat)]
  /\ call.base <= call.length /\ call.merged <= call.length
  /\ cancelled \in BOOLEAN
  /\ thread \in [Stacks -> {"None", "Running", "Working", "Done", "Panicked"}]
  /\ stack \in [Stacks -> BOOLEAN]
  /\ answer \in [Leaves -> {"None", "Ok", "Cancelled", "Backend"}]
  /\ cv \in [Leaves -> Seq(Nat)]
  /\ result \in Errors \cup {"None", "Ok"}
  /\ observed \subseteq Failures

\* However a call ends, nothing of it stays behind: no thread runs, no stack
\* keeps frames, no chaining value and no staged part is left, and the output
\* buffer is only filled while its loan is held or was forgotten.  And no stack
\* is cleared while a thread is still on it.
NothingLeftBehind ==
  /\ phase = "Idle" =>
       /\ thread = NoThreads /\ stack = CleanStacks
       /\ cv = NoValues /\ staging = <<>>
       /\ loan = "None" => output = <<>>
  /\ \A s \in Stacks : thread[s] # "None" => stack[s]

\* A compiled session in which a job panicked, a thread or its resources were
\* missing, or the root's backend failed is never used again.
QuarantineIsKept ==
  kind = "Compiled" /\ phase = "Idle" /\ observed \ {"LeafFailed"} # {} => quarantined

\* The documented rule (compiled.rs:26): every failure after arming quarantines
\* the session permanently, those of the leaves' backends included.
FailureQuarantines ==
  kind = "Compiled" /\ phase = "Idle" /\ observed # {} => quarantined

\* Every call returns, whatever its threads do: it waits for each thread that
\* was created and for no other.
EveryCallReturns == phase # "Idle" ~> phase = "Idle"

\* What the abstract executor calls the result of a strict call.
AbstractResult ==
  CASE result \in {"None", "Ok", "Cancelled", "WorkerPanicked"} -> result
    [] result = "WorkLimit"   -> "WorkLimitExceeded"
    [] result = "ThreadStart" -> "ResourceExhausted"
    [] OTHER                  -> "Construction"

\* The leaves a released output is the digest of, if it is whole.
Digested ==
  IF released = <<>> THEN <<>>
  ELSE LET absorbed == released[1].over
       IN IF released = [k \in 1..Chunks |-> Part(absorbed, k)] THEN absorbed ELSE <<0>>

Owner == "owner"

Abstract == INSTANCE ParallelHashSpec WITH
  Callers <- {Owner},
  gate <- IF phase = "Idle" THEN "Free" ELSE Owner,
  length <- [c \in {Owner} |-> call.length],
  result <- [c \in {Owner} |-> AbstractResult],
  output <- [c \in {Owner} |-> Digested]

\* A session implements the same executor as the native threads do, for one
\* caller: a call releases the digest of all its leaves in order, or nothing.
ImplementsSpec == Abstract!Spec

=============================================================================

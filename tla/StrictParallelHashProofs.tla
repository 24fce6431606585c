----------------------- MODULE StrictParallelHashProofs -----------------------
(***************************************************************************)
(* The safety of StrictParallelHash for every number of workers, leaves    *)
(* and parts and every set of inputs, and its refinement of                *)
(* ParallelHashSpec.                                                       *)
(*                                                                         *)
(* The worker threads that exist are those of the stacks up to the number  *)
(* started, and only while their wave is launched or joined; the leaves    *)
(* below the wave have their values and the leaves beyond it no answer yet;*)
(* and a compiled session stays quarantined through a call, which a failure*)
(* seen so far can only end in an error that is not harmless.              *)
(***************************************************************************)
EXTENDS StrictParallelHash, FiniteSetTheorems, SequenceTheorems, WellFoundedInduction, TLAPS

Working == Phases \ {"Idle", "Admit"}
Waving == {"Launch", "Join"}
Reducing == {"Collect", "Finish"}

\* A wave stays within the leaves, and the leaves within the session's.
WaveFacts ==
  /\ phase \in Working => call.length <= MaxLeaves
  /\ phase \in {"Idle", "Admit", "Canonical"} => call.base = 0
  /\ phase = "Launch" => call.base < call.length /\ call.started < WaveSize
  /\ phase = "Join" => /\ call.base < call.length /\ call.started <= WaveSize
                       /\ call.error = "None" => call.started = WaveSize
  /\ phase \in {"Wave", "Launch"} => call.error = "None"
  /\ phase = "Join" => call.error \in {"None", "ThreadStart"}
  /\ phase \in Reducing => call.base = call.length

\* Which threads exist, each on a stack that is not cleared.
StackFacts ==
  /\ \A s \in Stacks : stack[s] <=> thread[s] # "None"
  /\ thread[Root] # "None" => phase \in {"Canonical", "Collect"}
  /\ \A s \in WorkerStacks :
       thread[s] # "None" <=> phase \in Waving /\ s <= call.started

\* What the leaves' slots hold.
LeafFacts ==
  /\ \A i \in Leaves :
       /\ answer[i] = "Ok" => cv[i] = <<i>>
       /\ i <= call.base => answer[i] = "Ok"
       /\ phase \notin Waving /\ call.base < i => answer[i] = "None"
       /\ phase \in Waving /\ call.base + call.started < i => answer[i] = "None"
  /\ \A s \in WorkerStacks :
       /\ thread[s] \in {"Running", "Working"} => answer[call.base + s] = "None"
       /\ thread[s] = "Done" => answer[call.base + s] # "None"

\* The first n leaves, and the first n parts of the whole digest.
Prefix(n) == [k \in 1..n |-> k]
PartsOf(n) == [k \in 1..n |-> Part(Prefix(call.length), k)]

\* What was absorbed and squeezed.
DigestFacts ==
  /\ call.absorbed = Prefix(call.merged)
  /\ phase \notin Reducing => call.merged = 0
  /\ phase \notin Reducing \cup {"Idle"} => output = <<>>
  /\ phase \in Reducing =>
       \E n \in 0..Chunks :
         /\ output = PartsOf(n)
         /\ n > 0 => call.merged = call.length
         /\ phase = "Finish" => n = Chunks
         /\ thread[Root] = "Done" /\ call.error = "None" => n = Chunks

\* What a session keeps between calls.
CleanFacts ==
  /\ phase \in {"Idle", "Admit"} => cv = NoValues /\ staging = <<>>
  /\ phase = "Idle" /\ loan = "None" => output = <<>>
  /\ loan # "None" => phase = "Idle"

\* A failure was seen that no call may end harmlessly after.
Severe == observed \ {"LeafFailed"} # {}

\* This call ends in an error that is not harmless.
Doomed ==
  \/ \E s \in Stacks : thread[s] = "Panicked"
  \/ phase = "Join" /\ call.error = "ThreadStart"
  \/ phase = "Collect" /\ thread[Root] = "Done" /\ call.error = "Backend"

ArmedFacts ==
  kind = "Compiled" =>
    /\ phase \in Working => quarantined
    /\ Severe => IF phase \in Working THEN Doomed ELSE quarantined

\* The inductive invariant.
IInv ==
  TypeOK /\ WaveFacts /\ StackFacts /\ LeafFacts /\ DigestFacts /\ CleanFacts /\ ArmedFacts

-----------------------------------------------------------------------------
(* What the types and the assumptions say.                                 *)

Calls == [length : Lengths, base : Nat, started : 0..Workers, merged : Nat,
          error : Errors \cup {"None"}, absorbed : Seq(Nat)]

\* The lengths, counts and fields of a call.
LEMMA CallTypes ==
  ASSUME TypeOK
  PROVE  /\ call \in Calls /\ call.length \in Nat /\ call.length \in Lengths
         /\ call.base \in Nat /\ call.started \in Nat /\ call.started \in 0..Workers
         /\ call.merged \in Nat /\ call.error \in Errors \cup {"None"}
         /\ call.absorbed \in Seq(Nat)
         /\ call.base <= call.length /\ call.merged <= call.length
<1>1. call \in Calls /\ call.base <= call.length /\ call.merged <= call.length
  BY DEF TypeOK, Calls
<1>2. /\ call.length \in Lengths /\ call.base \in Nat
      /\ call.merged \in Nat /\ call.error \in Errors \cup {"None"}
  BY <1>1 DEF Calls
<1>3. call.started \in 0..Workers
  BY <1>1, StrictAssumption DEF Calls
<1>4. call.absorbed \in Seq(Nat)
  BY <1>1 DEF Calls
<1>5. call.length \in Nat
  BY <1>2, StrictAssumption, Zenon
<1>6. call.started \in Nat
  BY <1>3, StrictAssumption
<1> QED
  BY <1>1, <1>2, <1>3, <1>4, <1>5, <1>6, Zenon

\* A new call.
LEMMA NewCallFacts ==
  ASSUME NEW n \in Lengths
  PROVE  /\ NewCall(n) \in Calls
         /\ NewCall(n).length = n /\ NewCall(n).base = 0 /\ NewCall(n).started = 0
         /\ NewCall(n).merged = 0 /\ NewCall(n).error = "None" /\ NewCall(n).absorbed = <<>>
BY StrictAssumption DEF NewCall, Calls

\* The empty slots and stacks.
LEMMA EmptyTypes ==
  /\ NoThreads \in [Stacks -> {"None", "Running", "Working", "Done", "Panicked"}]
  /\ CleanStacks \in [Stacks -> BOOLEAN]
  /\ NoAnswers \in [Leaves -> {"None", "Ok", "Cancelled", "Backend"}]
  /\ NoValues \in [Leaves -> Seq(Nat)]
  /\ \A s \in Stacks : NoThreads[s] = "None" /\ CleanStacks[s] = FALSE
  /\ \A i \in Leaves : NoAnswers[i] = "None"
BY DEF NoThreads, CleanStacks, NoAnswers, NoValues

\* The root's stack and the workers'.
LEMMA StackNames ==
  /\ Root \in Stacks /\ Root \notin WorkerStacks
  /\ WorkerStacks \subseteq Stacks /\ \A s \in Stacks : s = Root \/ s \in WorkerStacks
BY StrictAssumption DEF Root, Stacks, WorkerStacks

\* A wave that has leaves to work on.
LEMMA WaveBounds ==
  ASSUME TypeOK, WaveFacts, phase \in Working, call.base < call.length
  PROVE  /\ WaveSize \in 1..Workers /\ call.base + WaveSize <= call.length
         /\ call.length <= MaxLeaves
         /\ \A s \in 1..WaveSize : s \in WorkerStacks /\ call.base + s \in Leaves
<1>1. call.length \in Nat /\ call.base \in Nat /\ call.length <= MaxLeaves
  BY CallTypes DEF WaveFacts
<1>2. WaveSize \in 1..Workers /\ call.base + WaveSize <= call.length
  BY <1>1, StrictAssumption DEF WaveSize
<1> QED
  BY <1>1, <1>2, StrictAssumption DEF WorkerStacks, Leaves

\* Nothing is absorbed of no leaves.
LEMMA PrefixFacts ==
  /\ Prefix(0) = <<>>
  /\ \A n \in Nat : Prefix(n) \in Seq(Nat) /\ Append(Prefix(n), n + 1) = Prefix(n + 1)
                    /\ Prefix(n) \o <<n + 1>> = Prefix(n + 1)
<1>1. Prefix(0) = <<>>
  BY DEF Prefix
<1>2. ASSUME NEW n \in Nat
      PROVE  /\ Prefix(n) \in Seq(Nat) /\ Append(Prefix(n), n + 1) = Prefix(n + 1)
             /\ Prefix(n) \o <<n + 1>> = Prefix(n + 1)
  <2>1. Prefix(n) \in Seq(Nat) /\ Len(Prefix(n)) = n
    BY DEF Prefix
  <2>2. Append(Prefix(n), n + 1) = Prefix(n + 1)
    BY <2>1 DEF Prefix
  <2>3. Prefix(n) \o <<n + 1>> = Append(Prefix(n), n + 1)
    BY <2>1, AppendIsConcat
  <2> QED
    BY <2>1, <2>2, <2>3
<1> QED
  BY <1>1, <1>2

\* The state of a fresh session.
LEMMA InitIInv == Init => IInv
<1> SUFFICES ASSUME Init PROVE IInv
  OBVIOUS
<1>1. PICK n \in Lengths : call = NewCall(n)
  BY DEF Init
<1>2. /\ call \in Calls /\ call.length = n /\ call.base = 0 /\ call.started = 0
      /\ call.merged = 0 /\ call.error = "None" /\ call.absorbed = <<>>
  BY <1>1, NewCallFacts
<1>3. TypeOK
  <2>1. call \in Calls /\ call.base <= call.length /\ call.merged <= call.length
    BY <1>2, StrictAssumption
  <2>2. /\ thread \in [Stacks -> {"None", "Running", "Working", "Done", "Panicked"}]
        /\ stack \in [Stacks -> BOOLEAN]
        /\ answer \in [Leaves -> {"None", "Ok", "Cancelled", "Backend"}]
        /\ cv \in [Leaves -> Seq(Nat)]
    BY EmptyTypes DEF Init
  <2> QED
    BY <2>1, <2>2 DEF Init, TypeOK, Calls, Phases
<1>4. WaveFacts
  BY <1>2 DEF Init, WaveFacts, Working, Reducing
<1>5. StackFacts
  BY EmptyTypes, StackNames DEF Init, StackFacts, Waving
<1>6. LeafFacts
  <2>1. \A i \in Leaves : ~(i <= 0) /\ answer[i] = "None"
    BY EmptyTypes DEF Init, Leaves
  <2>2. \A s \in WorkerStacks : thread[s] = "None"
    BY EmptyTypes, StackNames DEF Init
  <2> QED
    BY <1>2, <2>1, <2>2 DEF Init, LeafFacts, Waving
<1>7. DigestFacts /\ CleanFacts /\ ArmedFacts
  BY <1>2, PrefixFacts DEF Init, DigestFacts, CleanFacts, ArmedFacts, Severe, Working, Reducing
<1> QED
  BY <1>3, <1>4, <1>5, <1>6, <1>7 DEF IInv

-----------------------------------------------------------------------------
(* Entering and leaving.                                                   *)

\* Nothing depends on the token.
LEMMA CancelIInv ==
  ASSUME IInv, cancelled' \in BOOLEAN,
         UNCHANGED <<kind, quarantined, loan, phase, call, thread, stack, answer, cv, staging,
                     output, result, released, observed>>
  PROVE  IInv'
<1>1. WaveFacts' /\ StackFacts' /\ CleanFacts'
  BY DEF IInv, WaveFacts, WaveSize, StackFacts, CleanFacts
<1>2. LeafFacts'
  BY DEF IInv, LeafFacts
<1>3. DigestFacts'
  BY DEF IInv, DigestFacts, PartsOf
<1>4. ArmedFacts'
  BY DEF IInv, ArmedFacts, Severe, Doomed
<1>5. TypeOK'
  BY DEF IInv, TypeOK
<1> QED
  BY <1>1, <1>2, <1>3, <1>4, <1>5 DEF IInv

\* A call that returns an error leaves a clean session, if its threads are gone
\* and its quarantine is kept when it must be.
LEMMA LeaveIInv ==
  ASSUME IInv, NEW r \in Errors, Abandon(r), quarantined' \in BOOLEAN,
         thread' = NoThreads, stack' = CleanStacks, observed' \subseteq Failures,
         kind = "Compiled" /\ Severe' => quarantined'
  PROVE  IInv'
<1>1. call.length \in Lengths /\ call.length \in Nat /\ TypeOK
  BY CallTypes DEF IInv
<1>2. /\ call' \in Calls /\ call'.length = call.length /\ call'.base = 0 /\ call'.started = 0
      /\ call'.merged = 0 /\ call'.error = "None" /\ call'.absorbed = <<>>
  BY <1>1, NewCallFacts DEF Abandon
<1>3. /\ phase' = "Idle" /\ cv' = NoValues /\ staging' = <<>> /\ output' = <<>>
      /\ answer' = NoAnswers /\ result' = r
      /\ UNCHANGED <<kind, loan, cancelled, released>>
  BY DEF Abandon, ClearBuffers
<1>4. TypeOK'
  <2>1. call' \in Calls /\ call'.base <= call'.length /\ call'.merged <= call'.length
    BY <1>1, <1>2
  <2>2. /\ thread' \in [Stacks -> {"None", "Running", "Working", "Done", "Panicked"}]
        /\ stack' \in [Stacks -> BOOLEAN]
        /\ answer' \in [Leaves -> {"None", "Ok", "Cancelled", "Backend"}]
        /\ cv' \in [Leaves -> Seq(Nat)]
    BY <1>3, EmptyTypes
  <2> QED
    BY <1>1, <1>3, <2>1, <2>2 DEF TypeOK, Calls, Phases
<1>5. WaveFacts'
  BY <1>2, <1>3 DEF WaveFacts, Working, Reducing
<1>6. StackFacts'
  BY <1>3, EmptyTypes, StackNames DEF StackFacts, Waving
<1>7. LeafFacts'
  <2>1. \A i \in Leaves : ~(i <= 0) /\ answer'[i] = "None"
    BY <1>3, EmptyTypes DEF Leaves
  <2>2. \A s \in WorkerStacks : thread'[s] = "None"
    BY EmptyTypes, StackNames
  <2> QED
    BY <1>2, <1>3, <2>1, <2>2 DEF LeafFacts, Waving
<1>8. DigestFacts' /\ CleanFacts' /\ ArmedFacts'
  BY <1>2, <1>3, PrefixFacts DEF DigestFacts, CleanFacts, ArmedFacts, Working, Reducing
<1> QED
  BY <1>4, <1>5, <1>6, <1>7, <1>8 DEF IInv

\* Outside a call, and before its root starts, no stack holds a thread.
LEMMA NoThreadsYet ==
  ASSUME IInv, thread[Root] = "None", phase \notin Waving
  PROVE  thread = NoThreads /\ stack = CleanStacks
<1>1. \A s \in Stacks : thread[s] = "None" /\ stack[s] = FALSE
  BY StackNames DEF IInv, StackFacts, TypeOK
<1>2. thread = [s \in Stacks |-> thread[s]] /\ stack = [s \in Stacks |-> stack[s]]
  BY DEF IInv, TypeOK
<1> QED
  BY <1>1, <1>2 DEF NoThreads, CleanStacks

\* Entering clears what a forgotten output left.
LEMMA EnterIInv == ASSUME IInv, Enter PROVE IInv'
<1>1. PICK n \in Lengths : call' = NewCall(n)
  BY DEF Enter
<1>2. /\ call' \in Calls /\ call'.length = n /\ call'.base = 0 /\ call'.started = 0
      /\ call'.merged = 0 /\ call'.error = "None" /\ call'.absorbed = <<>>
  BY <1>1, NewCallFacts
<1>3. /\ phase = "Idle" /\ phase' = "Admit" /\ loan' = "None" /\ cancelled' \in BOOLEAN
      /\ cv' = NoValues /\ staging' = <<>> /\ output' = <<>> /\ answer' = NoAnswers
      /\ result' = "None" /\ UNCHANGED <<kind, quarantined, observed, thread, stack>>
  BY DEF Enter, ClearBuffers, threads
<1>4. thread' = NoThreads /\ stack' = CleanStacks
  <2>1. thread[Root] = "None" /\ phase \notin Waving
    BY <1>3 DEF IInv, StackFacts, Waving
  <2> QED
    BY <1>3, <2>1, NoThreadsYet
<1>5. TypeOK'
  <2>1. call' \in Calls /\ call'.base <= call'.length /\ call'.merged <= call'.length
    BY <1>2, StrictAssumption
  <2>2. /\ answer' \in [Leaves -> {"None", "Ok", "Cancelled", "Backend"}]
        /\ cv' \in [Leaves -> Seq(Nat)]
    BY <1>3, EmptyTypes
  <2> QED
    BY <1>3, <2>1, <2>2 DEF IInv, TypeOK, Calls, Phases
<1>6. WaveFacts'
  BY <1>2, <1>3 DEF WaveFacts, Working, Reducing
<1>7. StackFacts'
  BY <1>3, <1>4, EmptyTypes, StackNames DEF StackFacts, Waving
<1>8. LeafFacts'
  <2>1. \A i \in Leaves : ~(i <= 0) /\ answer'[i] = "None"
    BY <1>3, EmptyTypes DEF Leaves
  <2>2. \A s \in WorkerStacks : thread'[s] = "None"
    BY <1>4, EmptyTypes, StackNames
  <2> QED
    BY <1>2, <1>3, <2>1, <2>2 DEF LeafFacts, Waving
<1>9. DigestFacts' /\ CleanFacts'
  BY <1>2, <1>3, PrefixFacts DEF DigestFacts, CleanFacts, Reducing
<1>10. ArmedFacts'
  BY <1>3 DEF IInv, ArmedFacts, Severe, Working
<1> QED
  BY <1>5, <1>6, <1>7, <1>8, <1>9, <1>10 DEF IInv

\* Admission refuses, or arms the quarantine of a compiled session.
LEMMA AdmitIInv == ASSUME IInv, Admit PROVE IInv'
<1>1. phase = "Admit" /\ UNCHANGED <<thread, stack, observed>> /\ TypeOK
  BY DEF Admit, threads, IInv
<1>2. thread = NoThreads /\ stack = CleanStacks
  BY <1>1, NoThreadsYet DEF IInv, StackFacts, Waving
<1>3. CASE /\ UNCHANGED quarantined
           /\ Abandon("Quarantined") \/ Abandon("WorkLimit") \/ Abandon("Cancelled")
  <2>1. kind = "Compiled" /\ Severe' => quarantined'
    BY <1>1, <1>3 DEF IInv, ArmedFacts, Severe, Working
  <2>2. quarantined' \in BOOLEAN /\ observed' \subseteq Failures
    BY <1>1, <1>3 DEF TypeOK
  <2> QED
    BY <1>1, <1>2, <1>3, <2>1, <2>2, LeaveIInv DEF Errors
<1>4. CASE /\ ~quarantined /\ call.length <= MaxLeaves
           /\ quarantined' = (kind = "Compiled")
           /\ Goto("Canonical") /\ UNCHANGED <<call, answer, buffers>>
  <2>1. /\ phase' = "Canonical"
        /\ UNCHANGED <<kind, loan, cancelled, result, released, call, answer, cv, staging, output>>
    BY <1>4 DEF Goto, buffers, history
  <2>2. TypeOK'
    BY <1>1, <1>4, <2>1 DEF TypeOK, Phases
  <2>3. WaveFacts'
    BY <1>1, <1>4, <2>1 DEF IInv, WaveFacts, WaveSize, Working, Reducing
  <2>4. StackFacts'
    BY <1>1, <2>1 DEF IInv, StackFacts, Waving
  <2>5. LeafFacts'
    BY <1>1, <2>1 DEF IInv, LeafFacts, Waving
  <2>6. DigestFacts' /\ CleanFacts'
    BY <1>1, <2>1 DEF IInv, DigestFacts, CleanFacts, Reducing
  <2>7. ArmedFacts'
    BY <1>1, <1>4, <2>1 DEF IInv, ArmedFacts, Severe, Working
  <2> QED
    BY <2>2, <2>3, <2>4, <2>5, <2>6, <2>7 DEF IInv
<1> QED
  BY <1>3, <1>4 DEF Admit

-----------------------------------------------------------------------------
(* The root's thread.                                                      *)

\* No worker runs beside the root, and no call is doomed while it runs.
LEMMA RootAlone ==
  ASSUME IInv, phase \in {"Canonical", "Collect"}
  PROVE  /\ \A s \in WorkerStacks : thread[s] = "None" /\ stack[s] = FALSE
         /\ thread[Root] \in {"None", "Running"} => (kind = "Compiled" => ~Severe)
<1>1. \A s \in WorkerStacks : thread[s] = "None" /\ stack[s] = FALSE
  BY StackNames DEF IInv, StackFacts, Waving, TypeOK
<1>2. ASSUME thread[Root] \in {"None", "Running"}, kind = "Compiled", Severe PROVE FALSE
  <2>1. Doomed
    BY <1>2 DEF IInv, ArmedFacts, Working, Phases
  <2>2. \A s \in Stacks : thread[s] # "Panicked"
    BY <1>1, <1>2, StackNames
  <2> QED
    BY <1>2, <2>1, <2>2 DEF Doomed
<1> QED
  BY <1>1, <1>2

\* A call that ends with the root's thread.
LEMMA RootGone ==
  ASSUME IInv, phase \in {"Canonical", "Collect"},
         thread' = [thread EXCEPT ![Root] = "None"], stack' = [stack EXCEPT ![Root] = FALSE]
  PROVE  thread' = NoThreads /\ stack' = CleanStacks
<1>1. \A s \in Stacks : thread'[s] = "None" /\ stack'[s] = FALSE
  BY RootAlone, StackNames DEF IInv, TypeOK
<1>2. thread' = [s \in Stacks |-> thread'[s]] /\ stack' = [s \in Stacks |-> stack'[s]]
  BY DEF IInv, TypeOK
<1> QED
  BY <1>1, <1>2 DEF NoThreads, CleanStacks

\* The root's thread starts, or the call ends.
LEMMA StartRootIInv == ASSUME IInv, StartRoot PROVE IInv'
<1>1. phase \in {"Canonical", "Collect"} /\ thread[Root] = "None" /\ TypeOK
  BY DEF StartRoot, IInv
<1>2. CASE /\ Create(Root) /\ UNCHANGED <<quarantined, phase, call, answer, buffers, observed>>
           /\ UNCHANGED <<kind, loan, cancelled, history>>
  <2>1. /\ UNCHANGED <<quarantined, phase, call, answer, cv, staging, output, observed>>
        /\ UNCHANGED <<kind, loan, cancelled, result, released>>
        /\ thread' = [thread EXCEPT ![Root] = "Running"]
        /\ stack' = [stack EXCEPT ![Root] = TRUE]
    BY <1>2 DEF Create, buffers, history
  <2>2. \A s \in WorkerStacks : thread'[s] = thread[s] /\ stack'[s] = stack[s]
    BY <1>1, <2>1, StackNames DEF TypeOK
  <2>3. thread'[Root] = "Running" /\ stack'[Root] = TRUE
    BY <1>1, <2>1, StackNames DEF TypeOK
  <2>4. TypeOK'
    BY <1>1, <2>1, StackNames DEF TypeOK
  <2>5. WaveFacts' /\ CleanFacts'
    BY <2>1 DEF IInv, WaveFacts, WaveSize, CleanFacts
  <2>6. StackFacts'
    BY <1>1, <2>1, <2>2, <2>3, StackNames DEF IInv, StackFacts
  <2>7. LeafFacts'
    BY <2>1, <2>2 DEF IInv, LeafFacts
  <2>8. DigestFacts'
    BY <2>1, <2>3 DEF IInv, DigestFacts, PartsOf
  <2>9. ArmedFacts'
    BY <1>1, <2>1, RootAlone DEF IInv, ArmedFacts, Severe
  <2> QED
    BY <2>4, <2>5, <2>6, <2>7, <2>8, <2>9 DEF IInv
<1>3. CASE /\ Fail("ThreadStart") /\ observed' = observed \cup {"NotStarted"}
           /\ UNCHANGED threads
  <2>1. /\ Abandon("ThreadStart") /\ quarantined' = quarantined
        /\ UNCHANGED <<thread, stack, kind>>
    BY <1>1, <1>3 DEF Fail, Harmless, threads, TypeOK, Abandon
  <2>2. thread' = NoThreads /\ stack' = CleanStacks
    BY <1>1, <2>1, NoThreadsYet DEF Waving
  <2>3. kind = "Compiled" => quarantined'
    BY <1>1, <2>1 DEF IInv, ArmedFacts, Working, Phases
  <2>4. observed' \subseteq Failures /\ quarantined' \in BOOLEAN
    BY <1>1, <1>3, <2>1 DEF TypeOK, Failures
  <2> QED
    BY <2>1, <2>2, <2>3, <2>4, LeaveIInv DEF Errors
<1> QED
  BY <1>2, <1>3 DEF StartRoot

\* The root's closure returns: with an error, or with what the phase asks for.
LEMMA RootReturnsIInv ==
  ASSUME IInv, phase \in {"Canonical", "Collect"}, thread[Root] = "Running",
         NEW r \in Errors \cup {"None"}, RootReturns(r), observed' \subseteq Failures,
         UNCHANGED <<cv, output>>,
         phase = "Collect" /\ r = "None" => call.merged = call.length /\ output = PartsOf(Chunks),
         Severe' => Severe \/ (phase = "Collect" /\ r = "Backend")
  PROVE  IInv'
<1>1. /\ thread' = [thread EXCEPT ![Root] = "Done"] /\ call' = [call EXCEPT !.error = r]
      /\ UNCHANGED <<stack, quarantined, answer, phase, kind, loan, cancelled, result, released>>
      /\ TypeOK
  BY DEF RootReturns, Ends, history, IInv
<1>2. /\ call' \in Calls /\ call'.length = call.length /\ call'.base = call.base
      /\ call'.started = call.started /\ call'.merged = call.merged /\ call'.error = r
      /\ call'.absorbed = call.absorbed
  BY <1>1, CallTypes DEF Calls
<1>3. /\ thread' \in [Stacks -> {"None", "Running", "Working", "Done", "Panicked"}]
      /\ thread'[Root] = "Done" /\ \A s \in WorkerStacks : thread'[s] = thread[s]
  BY <1>1, StackNames DEF TypeOK
<1>4. TypeOK'
  BY <1>1, <1>2, <1>3 DEF TypeOK, Calls
<1>5. WaveFacts' /\ CleanFacts'
  BY <1>1, <1>2 DEF IInv, WaveFacts, WaveSize, CleanFacts
<1>6. StackFacts'
  BY <1>1, <1>2, <1>3, StackNames DEF IInv, StackFacts
<1>7. LeafFacts'
  BY <1>1, <1>2, <1>3 DEF IInv, LeafFacts
<1>8. DigestFacts'
  <2>1. \A n \in 0..Chunks : PartsOf(n)' = PartsOf(n)
    BY <1>2 DEF PartsOf
  <2>2. phase = "Collect" =>
          \E n \in 0..Chunks :
            /\ output' = PartsOf(n)'
            /\ n > 0 => call'.merged = call'.length
            /\ r = "None" => n = Chunks
    <3>1. CASE phase = "Collect" /\ r = "None"
      <4>1. Chunks \in 0..Chunks
        BY StrictAssumption
      <4> QED
        BY <1>2, <2>1, <3>1, <4>1
    <3>2. CASE phase = "Collect" /\ r # "None"
      <4>1. PICK n \in 0..Chunks : output = PartsOf(n) /\ (n > 0 => call.merged = call.length)
        BY <3>2 DEF IInv, DigestFacts, Reducing
      <4> QED
        BY <1>2, <2>1, <3>2, <4>1
    <3> QED
      BY <3>1, <3>2
  <2> QED
    BY <1>1, <1>2, <1>3, <2>2 DEF IInv, DigestFacts, Reducing
<1>9. ArmedFacts'
  <2>1. kind = "Compiled" => ~Severe
    BY RootAlone
  <2> QED
    BY <1>1, <1>2, <1>3, <2>1 DEF IInv, ArmedFacts, Doomed, Working, Phases
<1> QED
  BY <1>4, <1>5, <1>6, <1>7, <1>8, <1>9 DEF IInv

LEMMA CanonicalizeIInv == ASSUME IInv, Canonicalize PROVE IInv'
<1>1. /\ phase = "Canonical" /\ thread[Root] = "Running"
      /\ UNCHANGED <<cv, staging, output, observed>>
  BY DEF Canonicalize, buffers
<1>2. PICK r \in {"None", "InvalidBits"} : RootReturns(r)
  BY DEF Canonicalize
<1>3. observed' \subseteq Failures /\ (Severe' => Severe)
  BY <1>1 DEF IInv, TypeOK, Severe
<1> QED
  BY <1>1, <1>2, <1>3, RootReturnsIInv DEF Errors

\* The root is joined: the call ends, or goes on to its waves or its end.
LEMMA JoinRootIInv == ASSUME IInv, JoinRoot PROVE IInv'
<1>1. /\ thread[Root] \in {"Done", "Panicked"} /\ TypeOK /\ UNCHANGED observed
      /\ thread' = [thread EXCEPT ![Root] = "None"] /\ stack' = [stack EXCEPT ![Root] = FALSE]
  BY DEF JoinRoot, IInv
<1>2. phase \in {"Canonical", "Collect"}
  BY <1>1 DEF IInv, StackFacts
<1>3. thread' = NoThreads /\ stack' = CleanStacks
  BY <1>1, <1>2, RootGone
<1>4. kind = "Compiled" => quarantined
  BY <1>2 DEF IInv, ArmedFacts, Working, Phases
<1>5. kind = "Compiled" /\ Severe /\ thread[Root] = "Done"
        => phase = "Collect" /\ call.error = "Backend"
  <2>1. ASSUME thread[Root] = "Done" PROVE \A s \in Stacks : thread[s] # "Panicked"
    BY <1>2, <2>1, RootAlone, StackNames
  <2> QED
    BY <1>2, <2>1 DEF IInv, ArmedFacts, Doomed, Working, Phases
<1>6. observed' \subseteq Failures /\ (Severe' <=> Severe) /\ quarantined \in BOOLEAN
  BY <1>1 DEF TypeOK, Severe
<1>7. CASE thread[Root] = "Panicked" /\ Fail("WorkerPanicked")
  <2>1. Abandon("WorkerPanicked") /\ quarantined' = quarantined /\ kind' = kind
    BY <1>6, <1>7 DEF Fail, Harmless, Abandon
  <2> QED
    BY <1>3, <1>4, <1>6, <2>1, LeaveIInv DEF Errors
<1>8. CASE thread[Root] = "Done" /\ RootError # "None" /\ Fail(RootError)
  <2>1. /\ Abandon(call.error) /\ call.error \in Errors
        /\ quarantined' = (quarantined /\ ~Harmless(call.error))
    BY <1>1, <1>8, CallTypes DEF Fail, RootError
  <2>2. kind = "Compiled" /\ Severe' => quarantined'
    BY <1>4, <1>5, <1>6, <1>8, <2>1 DEF Harmless
  <2>3. quarantined' \in BOOLEAN
    BY <1>6, <2>1
  <2> QED
    BY <1>3, <1>6, <2>1, <2>2, <2>3, LeaveIInv
<1>9. CASE /\ thread[Root] = "Done" /\ RootError = "None"
           /\ Goto(IF phase = "Canonical" THEN "Wave" ELSE "Finish")
           /\ UNCHANGED <<quarantined, call, answer, buffers>>
  <2>1. /\ phase' = IF phase = "Canonical" THEN "Wave" ELSE "Finish"
        /\ call.error = "None"
        /\ UNCHANGED <<kind, loan, cancelled, result, released, quarantined, call, answer>>
        /\ UNCHANGED <<cv, staging, output>>
    BY <1>9 DEF Goto, RootError, buffers, history
  <2>2. TypeOK'
    BY <1>1, <1>3, <1>6, <2>1, EmptyTypes DEF TypeOK, Phases
  <2>3. WaveFacts'
    BY <1>2, <2>1 DEF IInv, WaveFacts, WaveSize, Working, Phases, Reducing
  <2>4. StackFacts'
    BY <1>3, <2>1, EmptyTypes, StackNames DEF StackFacts, Waving
  <2>5. LeafFacts'
    <3>1. \A s \in WorkerStacks : thread'[s] = "None"
      BY <1>3, EmptyTypes, StackNames
    <3> QED
      BY <1>2, <2>1, <3>1 DEF IInv, LeafFacts, Waving
  <2>6. DigestFacts'
    <3>1. \A n \in 0..Chunks : PartsOf(n)' = PartsOf(n)
      BY <2>1 DEF PartsOf
    <3>2. CASE phase = "Canonical"
      BY <2>1, <3>2 DEF IInv, DigestFacts, Reducing
    <3>3. CASE phase = "Collect"
      <4>1. PICK n \in 0..Chunks :
              output = PartsOf(n) /\ (n > 0 => call.merged = call.length) /\ n = Chunks
        BY <1>9, <2>1, <3>3 DEF IInv, DigestFacts, Reducing
      <4>2. thread'[Root] # "Done"
        BY <1>3, EmptyTypes, StackNames
      <4>3. PartsOf(n)' = PartsOf(n)
        BY <3>1
      <4> QED
        BY <2>1, <3>3, <4>1, <4>2, <4>3 DEF IInv, DigestFacts, Reducing
    <3> QED
      BY <1>2, <3>2, <3>3
  <2>7. CleanFacts'
    BY <1>2, <1>9, <2>1 DEF IInv, CleanFacts
  <2>8. ArmedFacts'
    BY <1>4, <1>5, <1>6, <1>9, <2>1 DEF ArmedFacts, RootError
  <2> QED
    BY <2>2, <2>3, <2>4, <2>5, <2>6, <2>7, <2>8 DEF IInv
<1> QED
  BY <1>7, <1>8, <1>9 DEF JoinRoot

\* A worker's thread belongs to a leaf of the wave.
LEMMA WorkerLeaf ==
  ASSUME IInv, NEW s \in WorkerStacks, thread[s] # "None"
  PROVE  /\ phase \in Waving /\ s <= call.started /\ s \in Nat /\ call.base \in Nat
         /\ call.base + s \in Leaves
<1>1. phase \in Waving /\ s <= call.started /\ s \in Stacks
  BY StackNames DEF IInv, StackFacts
<1>2. call.base < call.length /\ call.started <= WaveSize /\ phase \in Working
  BY <1>1, CallTypes, WaveBounds DEF IInv, WaveFacts, Waving, Working, Phases
<1>3. WaveSize \in Nat /\ s \in 1..WaveSize /\ call.base \in Nat
  <2>1. WaveSize \in 1..Workers /\ call.started \in Nat /\ call.base \in Nat
    BY <1>2, WaveBounds, CallTypes DEF IInv
  <2> QED
    BY <1>1, <1>2, <2>1 DEF WorkerStacks
<1>4. call.base + s \in Leaves
  BY <1>2, <1>3, WaveBounds DEF IInv
<1> QED
  BY <1>1, <1>3, <1>4

\* A thread that panics stays until it is joined, and dooms the call.
LEMMA PanicIInv == ASSUME IInv, NEW s \in Stacks, Panic(s) PROVE IInv'
<1>1. /\ thread[s] \in {"Running", "Working"} /\ thread' = [thread EXCEPT ![s] = "Panicked"]
      /\ observed' = observed \cup {"Panicked"} /\ TypeOK
      /\ UNCHANGED <<kind, quarantined, loan, phase, call, cancelled, answer, staging, output>>
      /\ UNCHANGED <<stack, result, released>>
  BY DEF Panic, Ends, history, IInv
<1>2. /\ thread' \in [Stacks -> {"None", "Running", "Working", "Done", "Panicked"}]
      /\ thread'[s] = "Panicked" /\ \A t \in Stacks \ {s} : thread'[t] = thread[t]
  BY <1>1 DEF TypeOK
<1>3. phase \in Working
  <2>1. phase \in {"Canonical", "Collect"} \cup Waving
    BY <1>1, StackNames DEF IInv, StackFacts
  <2> QED
    BY <2>1 DEF Working, Phases, Waving
<1>4. cv' \in [Leaves -> Seq(Nat)] /\ \A i \in Leaves : answer[i] = "Ok" => cv'[i] = cv[i]
  <2>1. CASE s = Root
    BY <1>1, <2>1 DEF Panic, TypeOK
  <2>2. CASE s # Root
    <3>1. s \in WorkerStacks /\ call.base + s \in Leaves
      BY <1>1, <2>2, StackNames, WorkerLeaf
    <3>2. answer[call.base + s] = "None"
      BY <1>1, <3>1 DEF IInv, LeafFacts
    <3>3. PICK v \in {<<>>, <<0>>} : cv' = [cv EXCEPT ![call.base + s] = v]
      BY <2>2 DEF Panic
    <3>4. v \in Seq(Nat)
      <4>1. <<>> \in Seq(Nat) /\ <<0>> \in Seq(Nat)
        OBVIOUS
      <4> QED
        BY <3>3, <4>1, Zenon
    <3> QED
      BY <1>1, <3>1, <3>2, <3>3, <3>4 DEF TypeOK
  <2> QED
    BY <2>1, <2>2
<1>5. TypeOK'
  <2>1. observed' \subseteq Failures
    BY <1>1 DEF TypeOK, Failures
  <2> QED
    BY <1>1, <1>2, <1>4, <2>1 DEF TypeOK
<1>6. WaveFacts'
  BY <1>1 DEF IInv, WaveFacts, WaveSize
<1>7. StackFacts'
  BY <1>1, <1>2, StackNames DEF IInv, StackFacts
<1>8. LeafFacts'
  BY <1>1, <1>2, <1>4, StackNames DEF IInv, LeafFacts
<1>9. DigestFacts'
  <2>1. thread'[Root] = "Done" => thread[Root] = "Done"
    BY <1>2, StackNames
  <2> QED
    BY <1>1, <2>1 DEF IInv, DigestFacts, PartsOf
<1>10. CleanFacts'
  BY <1>1, <1>3 DEF IInv, CleanFacts, Working
<1>11. ArmedFacts'
  <2>1. Doomed'
    BY <1>2 DEF Doomed
  <2> QED
    BY <1>1, <1>3, <2>1 DEF IInv, ArmedFacts
<1> QED
  BY <1>5, <1>6, <1>7, <1>8, <1>9, <1>10, <1>11 DEF IInv

-----------------------------------------------------------------------------
(* The root's work.                                                        *)

LEMMA RootCancelledIInv == ASSUME IInv, RootCancelled PROVE IInv'
<1>1. /\ phase = "Collect" /\ thread[Root] = "Running" /\ RootReturns("Cancelled")
      /\ UNCHANGED <<cv, output, observed>>
  BY DEF RootCancelled, Collecting, buffers
<1>2. observed' \subseteq Failures /\ (Severe' => Severe)
  BY <1>1 DEF IInv, TypeOK, Severe
<1> QED
  BY <1>1, <1>2, RootReturnsIInv DEF Errors

LEMMA RootFailedIInv == ASSUME IInv, RootFailed PROVE IInv'
<1>1. /\ phase = "Collect" /\ thread[Root] = "Running" /\ RootReturns("Backend")
      /\ UNCHANGED <<cv, output>> /\ observed' = observed \cup {"RootFailed"}
  BY DEF RootFailed, Collecting
<1>2. observed' \subseteq Failures
  BY <1>1 DEF IInv, TypeOK, Failures
<1> QED
  BY <1>1, <1>2, RootReturnsIInv DEF Errors

\* The parts so far and the next one.
LEMMA NextPartFacts ==
  ASSUME NEW n \in Nat
  PROVE  /\ Len(PartsOf(n)) = n
         /\ Append(PartsOf(n), Part(Prefix(call.length), n + 1)) = PartsOf(n + 1)
<1> DEFINE P(k) == Part(Prefix(call.length), k)
<1>1. Len([k \in 1..n |-> P(k)]) = n /\ Append([k \in 1..n |-> P(k)], P(n + 1)) = [k \in 1..n + 1 |-> P(k)]
  <2> HIDE DEF P
  <2>1. Len([k \in 1..n |-> P(k)]) = n
    OBVIOUS
  <2>2. Append([k \in 1..n |-> P(k)], P(n + 1)) = [k \in 1..n + 1 |-> P(k)]
    OBVIOUS
  <2> QED
    BY <2>1, <2>2
<1> QED
  BY <1>1 DEF PartsOf

\* What a step of the root leaves alone.
LEMMA RootStaysIInv ==
  ASSUME IInv, Collecting, RootStays, observed' = observed, cv' = cv,
         call' \in Calls, call'.length = call.length, call'.base = call.base,
         call'.started = call.started, call'.error = call.error,
         call'.merged <= call'.length, call'.absorbed = Prefix(call'.merged),
         \E n \in 0..Chunks : output' = PartsOf(n) /\ (n > 0 => call'.merged = call.length)
  PROVE  IInv'
<1>1. /\ phase = "Collect" /\ thread[Root] = "Running"
      /\ UNCHANGED <<kind, quarantined, loan, phase, cancelled, answer, thread, stack>>
      /\ UNCHANGED <<result, released>>
  BY DEF Collecting, RootStays, threads, history
<1>2. TypeOK'
  BY <1>1 DEF IInv, TypeOK, Calls
<1>3. WaveFacts' /\ StackFacts' /\ LeafFacts'
  BY <1>1 DEF IInv, WaveFacts, WaveSize, StackFacts, LeafFacts
<1>4. DigestFacts'
  <2>1. \A n \in 0..Chunks : PartsOf(n)' = PartsOf(n)
    BY DEF PartsOf
  <2> QED
    BY <1>1, <2>1 DEF DigestFacts, Reducing
<1>5. CleanFacts' /\ ArmedFacts'
  BY <1>1 DEF IInv, CleanFacts, ArmedFacts, Severe, Doomed
<1> QED
  BY <1>2, <1>3, <1>4, <1>5 DEF IInv

\* The next leaf is there and is the next of the input.
LEMMA MergeIInv == ASSUME IInv, Merge PROVE IInv'
<1>1. /\ Collecting /\ RootStays /\ UNCHANGED <<cv, staging, output, observed>>
      /\ call.merged < call.length /\ phase = "Collect" /\ TypeOK
      /\ call' = [call EXCEPT !.merged = @ + 1, !.absorbed = @ \o cv[call.merged + 1]]
  BY DEF Merge, Collecting, buffers, IInv
<1>2. /\ call.length \in Nat /\ call.merged \in Nat /\ call.base = call.length
      /\ call.length <= MaxLeaves /\ call.absorbed = Prefix(call.merged) /\ call \in Calls
  BY <1>1, CallTypes DEF IInv, WaveFacts, DigestFacts, Reducing, Working, Phases
<1>3. call.merged + 1 \in Leaves /\ call.merged + 1 <= call.base
  BY <1>1, <1>2, StrictAssumption DEF Leaves
<1>4. cv[call.merged + 1] = <<call.merged + 1>>
  BY <1>3 DEF IInv, LeafFacts
<1>5. call.absorbed \o cv[call.merged + 1] = Prefix(call.merged + 1)
  <2>1. Prefix(call.merged) \o <<call.merged + 1>> = Prefix(call.merged + 1)
    BY <1>2, PrefixFacts, Zenon
  <2> QED
    BY <1>2, <1>4, <2>1, Zenon
<1>6. Prefix(call.merged + 1) \in Seq(Nat) /\ call.merged + 1 \in Nat
  <2>1. call.merged + 1 \in Nat
    BY <1>2
  <2> QED
    BY <2>1, PrefixFacts, Zenon
<1>7. call' = [call EXCEPT !.merged = call.merged + 1, !.absorbed = Prefix(call.merged + 1)]
  BY <1>1, <1>5
<1>8. /\ call' \in Calls /\ call'.length = call.length /\ call'.base = call.base
      /\ call'.started = call.started /\ call'.error = call.error
      /\ call'.merged = call.merged + 1 /\ call'.absorbed = Prefix(call.merged + 1)
  BY <1>2, <1>6, <1>7 DEF Calls
<1>9. \E n \in 0..Chunks : output' = PartsOf(n) /\ (n > 0 => call'.merged = call.length)
  <2>1. PICK n \in 0..Chunks : output = PartsOf(n) /\ (n > 0 => call.merged = call.length)
    BY <1>1 DEF IInv, DigestFacts, Reducing
  <2>2. ~(n > 0)
    BY <1>1, <1>2, <2>1
  <2> QED
    BY <1>1, <2>1, <2>2
<1>10. call'.merged <= call'.length /\ call'.absorbed = Prefix(call'.merged)
  <2>1. call.merged + 1 <= call.length
    BY <1>1, <1>2
  <2> QED
    BY <1>8, <2>1, Zenon
<1> QED
  BY <1>1, <1>8, <1>9, <1>10, RootStaysIInv

\* One more part of the digest of the whole input.
LEMMA SqueezeIInv == ASSUME IInv, Squeeze PROVE IInv'
<1>1. /\ Collecting /\ RootStays /\ UNCHANGED <<call, cv, observed>>
      /\ call.merged = call.length /\ Len(output) < Chunks
      /\ output' = Append(output, NextPart) /\ phase = "Collect"
  BY DEF Squeeze, Collecting
<1>2. PICK n \in 0..Chunks : output = PartsOf(n)
  BY <1>1 DEF IInv, DigestFacts, Reducing
<1>3. n \in Nat /\ n < Chunks /\ n + 1 \in 0..Chunks
  <2>1. n \in Nat
    BY <1>2, StrictAssumption
  <2> QED
    BY <1>1, <1>2, <2>1, NextPartFacts, StrictAssumption
<1>4. NextPart = Part(Prefix(call.length), n + 1)
  <2>1. call.absorbed = Prefix(call.length) /\ Len(output) = n
    BY <1>1, <1>2, <1>3, NextPartFacts DEF IInv, DigestFacts
  <2> QED
    BY <2>1 DEF NextPart
<1>5. output' = PartsOf(n + 1)
  BY <1>1, <1>2, <1>3, <1>4, NextPartFacts
<1>6. call' \in Calls /\ call'.merged <= call'.length /\ call'.absorbed = Prefix(call'.merged)
  BY <1>1, CallTypes DEF IInv, DigestFacts
<1> QED
  BY <1>1, <1>3, <1>5, <1>6, RootStaysIInv

LEMMA RootDoneIInv == ASSUME IInv, RootDone PROVE IInv'
<1>1. /\ phase = "Collect" /\ thread[Root] = "Running" /\ RootReturns("None")
      /\ UNCHANGED <<cv, output, observed>> /\ Len(output) = Chunks
  BY DEF RootDone, Collecting, buffers
<1>2. observed' \subseteq Failures /\ (Severe' => Severe)
  BY <1>1 DEF IInv, TypeOK, Severe
<1>3. call.merged = call.length /\ output = PartsOf(Chunks)
  <2>1. PICK n \in 0..Chunks : output = PartsOf(n) /\ (n > 0 => call.merged = call.length)
    BY <1>1 DEF IInv, DigestFacts, Reducing
  <2>2. n \in Nat
    BY <2>1, StrictAssumption
  <2>3. n = Chunks
    BY <1>1, <2>1, <2>2, NextPartFacts
  <2> QED
    BY <2>1, <2>3, StrictAssumption
<1> QED
  BY <1>1, <1>2, <1>3, RootReturnsIInv

-----------------------------------------------------------------------------
(* The waves.                                                              *)

\* A wave begins, the waves are over, or the call ends.
LEMMA WaveIInv == ASSUME IInv, Wave PROVE IInv'
<1>1. phase = "Wave" /\ UNCHANGED <<thread, stack>> /\ TypeOK
  BY DEF Wave, threads, IInv
<1>2. thread = NoThreads /\ stack = CleanStacks
  BY <1>1, NoThreadsYet DEF IInv, StackFacts, Waving
<1>3. kind = "Compiled" => quarantined /\ ~Severe
  <2>1. \A s \in Stacks : thread[s] # "Panicked"
    BY <1>2, EmptyTypes
  <2> QED
    BY <1>1, <2>1 DEF IInv, ArmedFacts, Doomed, Working, Phases
<1>4. quarantined \in BOOLEAN /\ observed \subseteq Failures
  BY <1>1 DEF TypeOK
<1>5. CASE Fail("WorkLimit") /\ observed' = observed \cup {"NoResources"}
  <2>1. Abandon("WorkLimit") /\ quarantined' = quarantined /\ kind' = kind
    BY <1>4, <1>5 DEF Fail, Harmless, Abandon
  <2>2. observed' \subseteq Failures
    BY <1>4, <1>5 DEF Failures
  <2> QED
    BY <1>1, <1>2, <1>3, <1>4, <2>1, <2>2, LeaveIInv DEF Errors
<1>6. CASE Fail("Cancelled") /\ UNCHANGED observed
  <2>1. Abandon("Cancelled") /\ quarantined' = FALSE /\ kind' = kind
    BY <1>6 DEF Fail, Harmless, Abandon
  <2>2. Severe' <=> Severe
    BY <1>6 DEF Severe
  <2> QED
    BY <1>1, <1>2, <1>3, <1>4, <1>6, <2>1, <2>2, LeaveIInv DEF Errors
<1>7. ASSUME UNCHANGED <<kind, quarantined, loan, cancelled, answer, cv, staging, output>>,
             UNCHANGED <<result, released, observed>>,
             \/ /\ call.base >= call.length /\ phase' = "Collect" /\ call' = call
             \/ /\ call.base < call.length /\ phase' = "Launch"
                /\ call' = [call EXCEPT !.started = 0]
      PROVE  IInv'
  <2>1. /\ call' \in Calls /\ call'.length = call.length /\ call'.base = call.base
        /\ call'.merged = call.merged /\ call'.error = call.error
        /\ call'.absorbed = call.absorbed /\ (phase' = "Launch" => call'.started = 0)
    <3>1. 0 \in 0..Workers /\ call \in Calls
      BY <1>1, CallTypes, StrictAssumption
    <3>2. CASE call' = call /\ phase' = "Collect"
      BY <3>1, <3>2
    <3>3. CASE call' = [call EXCEPT !.started = 0]
      BY <3>1, <3>3 DEF Calls
    <3> QED
      BY <1>7, <3>2, <3>3
  <2>2. TypeOK'
    BY <1>1, <1>7, <2>1 DEF TypeOK, Calls, Phases
  <2>3. WaveFacts'
    <3>1. call.length <= MaxLeaves /\ call.error = "None"
      BY <1>1 DEF IInv, WaveFacts, Working, Phases
    <3>2. phase' = "Collect" => call.base = call.length
      BY <1>1, <1>7, CallTypes
    <3>3. phase' = "Launch" => call.base < call.length /\ 0 < WaveSize
      BY <1>1, <1>7, WaveBounds DEF IInv, Working, Phases
    <3>4. WaveSize' = WaveSize
      BY <2>1 DEF WaveSize
    <3> QED
      BY <1>7, <2>1, <3>1, <3>2, <3>3, <3>4 DEF WaveFacts, Reducing
  <2>4. StackFacts'
    <3>1. \A s \in WorkerStacks : ~(s <= 0)
      BY DEF WorkerStacks
    <3> QED
      BY <1>1, <1>2, <1>7, <2>1, <3>1, EmptyTypes, StackNames DEF StackFacts, Waving
  <2>5. LeafFacts'
    <3>1. \A s \in WorkerStacks : thread'[s] = "None"
      BY <1>1, <1>2, EmptyTypes, StackNames
    <3>2. \A i \in Leaves : call.base < i => answer[i] = "None"
      BY <1>1 DEF IInv, LeafFacts, Waving
    <3>3. \A i \in Leaves : phase' = "Launch" /\ call'.base + call'.started < i => call.base < i
      BY <1>1, <2>1, CallTypes
    <3> QED
      BY <1>7, <2>1, <3>1, <3>2, <3>3 DEF IInv, LeafFacts, Waving
  <2>6. DigestFacts' /\ CleanFacts'
    <3>1. output = <<>> /\ call.merged = 0 /\ call.absorbed = Prefix(0)
      BY <1>1 DEF IInv, DigestFacts, Reducing
    <3>2. 0 \in 0..Chunks /\ PartsOf(0)' = <<>> /\ ~(0 > 0)
      BY StrictAssumption DEF PartsOf
    <3>3. thread'[Root] # "Done" /\ phase' # "Finish"
      BY <1>1, <1>2, <1>7, EmptyTypes, StackNames
    <3>4. \E n \in 0..Chunks : /\ output' = PartsOf(n)' /\ (n > 0 => call'.merged = call'.length)
                               /\ (phase' = "Finish" => n = Chunks)
                               /\ (thread'[Root] = "Done" /\ call'.error = "None" => n = Chunks)
      BY <1>7, <3>1, <3>2, <3>3
    <3>5. CleanFacts'
      BY <1>1, <1>7 DEF IInv, CleanFacts
    <3> QED
      BY <1>7, <2>1, <3>1, <3>4, <3>5 DEF DigestFacts, Reducing
  <2>7. ArmedFacts'
    BY <1>3, <1>7 DEF ArmedFacts, Severe
  <2> QED
    BY <2>2, <2>3, <2>4, <2>5, <2>6, <2>7 DEF IInv
<1> QED
  BY <1>5, <1>6, <1>7 DEF Wave, Goto, buffers, history

\* The next worker starts, or the wave stops with those that did.
LEMMA LaunchIInv == ASSUME IInv, Launch PROVE IInv'
<1> DEFINE w == call.started + 1
<1>1. /\ phase = "Launch" /\ TypeOK
      /\ UNCHANGED <<kind, quarantined, loan, cancelled, answer, cv, staging, output>>
      /\ UNCHANGED <<result, released>>
  BY DEF Launch, Goto, buffers, history, IInv
<1>2. /\ call.base < call.length /\ call.started < WaveSize /\ WaveSize \in 1..Workers
      /\ call.started \in Nat /\ call.base \in Nat /\ call.length \in Nat
      /\ call.base + WaveSize <= call.length
  BY <1>1, CallTypes, WaveBounds DEF IInv, WaveFacts, Working, Phases
<1>3. w \in 1..WaveSize /\ w \in WorkerStacks /\ call.base + w \in Leaves
  <2>1. w \in 1..WaveSize
    BY <1>2
  <2> QED
    BY <1>1, <1>2, <2>1, WaveBounds DEF IInv, Working, Phases
<1>4. \A n \in 0..Chunks : call'.length = call.length => PartsOf(n)' = PartsOf(n)
  BY DEF PartsOf
<1>5. call.length <= MaxLeaves /\ call.error = "None"
  BY <1>1 DEF IInv, WaveFacts, Working, Phases
<1>6. CASE /\ Create(w) /\ call' = [call EXCEPT !.started = w] /\ UNCHANGED observed
           /\ phase' = IF w = WaveSize THEN "Join" ELSE "Launch"
  <2>1. /\ thread' = [thread EXCEPT ![w] = "Running"] /\ stack' = [stack EXCEPT ![w] = TRUE]
    BY <1>6 DEF Create
  <2>2. /\ call' \in Calls /\ call'.length = call.length /\ call'.base = call.base
        /\ call'.merged = call.merged /\ call'.error = call.error
        /\ call'.absorbed = call.absorbed /\ call'.started = w
    <3>1. w \in 0..Workers
      BY <1>2, <1>3, StrictAssumption
    <3> QED
      BY <1>1, <1>6, <3>1, CallTypes DEF Calls
  <2>3. /\ thread' \in [Stacks -> {"None", "Running", "Working", "Done", "Panicked"}]
        /\ stack' \in [Stacks -> BOOLEAN] /\ thread'[w] = "Running" /\ stack'[w] = TRUE
        /\ \A s \in Stacks \ {w} : thread'[s] = thread[s] /\ stack'[s] = stack[s]
    BY <1>1, <1>3, <2>1, StackNames DEF TypeOK
  <2>4. TypeOK'
    BY <1>1, <1>6, <2>2, <2>3 DEF TypeOK, Calls, Phases
  <2>5. WaveSize' = WaveSize
    BY <2>2 DEF WaveSize
  <2>6. WaveFacts'
    BY <1>2, <1>3, <1>5, <1>6, <2>2, <2>5 DEF WaveFacts, Reducing
  <2>7. StackFacts'
    <3>1. \A s \in WorkerStacks \ {w} : s <= call.started <=> s <= w
      BY <1>2 DEF WorkerStacks
    <3>2. \A s \in WorkerStacks : thread'[s] # "None" <=> s <= w
      <4> TAKE s \in WorkerStacks
      <4>1. CASE s = w
        BY <1>2, <2>3, <4>1
      <4>2. CASE s # w
        BY <1>1, <2>3, <3>1, <4>2, StackNames DEF IInv, StackFacts, Waving
      <4> QED
        BY <4>1, <4>2
    <3>3. thread'[Root] = "None"
      BY <1>1, <1>3, <2>3, StackNames DEF IInv, StackFacts
    <3>4. \A s \in Stacks : stack'[s] <=> thread'[s] # "None"
      <4> TAKE s \in Stacks
      <4>1. CASE s = w
        BY <2>3, <4>1
      <4>2. CASE s # w
        BY <2>3, <4>2 DEF IInv, StackFacts
      <4> QED
        BY <4>1, <4>2
    <3> QED
      BY <1>6, <2>2, <3>2, <3>3, <3>4 DEF StackFacts, Waving
  <2>8. LeafFacts'
    <3>1. answer[call.base + w] = "None"
      BY <1>1, <1>2, <1>3 DEF IInv, LeafFacts, Waving
    <3>2. \A i \in Leaves : call.base + w < i => call.base + call.started < i
      BY <1>2 DEF Leaves
    <3>3. \A s \in WorkerStacks : s # w => thread'[s] = thread[s]
      BY <2>3, StackNames
    <3> QED
      BY <1>1, <1>6, <2>2, <2>3, <3>1, <3>2, <3>3 DEF IInv, LeafFacts, Waving
  <2>9. DigestFacts' /\ CleanFacts'
    BY <1>1, <1>6, <2>2 DEF IInv, DigestFacts, CleanFacts, Reducing
  <2>10. ArmedFacts'
    <3>1. Doomed => Doomed'
      <4> SUFFICES ASSUME NEW s \in Stacks, thread[s] = "Panicked" PROVE Doomed'
        BY <1>1 DEF Doomed
      <4>1. s # w
        BY <1>2, <1>3 DEF IInv, StackFacts
      <4> QED
        BY <2>3, <4>1 DEF Doomed
    <3> QED
      BY <1>1, <1>6, <3>1 DEF IInv, ArmedFacts, Severe, Working, Phases
  <2> QED
    BY <2>4, <2>6, <2>7, <2>8, <2>9, <2>10 DEF IInv
<1>7. CASE /\ call' = [call EXCEPT !.error = "ThreadStart"] /\ phase' = "Join"
           /\ observed' = observed \cup {"NotStarted"} /\ UNCHANGED <<thread, stack>>
  <2>1. /\ call' \in Calls /\ call'.length = call.length /\ call'.base = call.base
        /\ call'.merged = call.merged /\ call'.error = "ThreadStart"
        /\ call'.absorbed = call.absorbed /\ call'.started = call.started
    BY <1>1, <1>7, CallTypes DEF Calls, Errors
  <2>2. TypeOK'
    <3>1. observed' \subseteq Failures
      BY <1>1, <1>7 DEF TypeOK, Failures
    <3> QED
      BY <1>1, <1>7, <2>1, <3>1 DEF TypeOK, Calls, Phases
  <2>3. WaveFacts'
    <3>1. WaveSize' = WaveSize
      BY <2>1 DEF WaveSize
    <3> QED
      BY <1>2, <1>5, <1>7, <2>1, <3>1 DEF WaveFacts, Reducing
  <2>4. StackFacts' /\ LeafFacts'
    BY <1>1, <1>7, <2>1 DEF IInv, StackFacts, LeafFacts, Waving
  <2>5. DigestFacts' /\ CleanFacts'
    BY <1>1, <1>7, <2>1 DEF IInv, DigestFacts, CleanFacts, Reducing
  <2>6. ArmedFacts'
    BY <1>1, <1>7, <2>1 DEF IInv, ArmedFacts, Doomed, Working, Phases
  <2> QED
    BY <2>2, <2>3, <2>4, <2>5, <2>6 DEF IInv
<1> QED
  BY <1>6, <1>7 DEF Launch, Goto, threads

\* What a worker leaves alone; its leaf was not answered before.
LEMMA WorkerIInv ==
  ASSUME IInv, NEW s \in WorkerStacks, thread[s] \in {"Running", "Working"},
         NEW how \in {"Working", "Done"}, thread' = [thread EXCEPT ![s] = how],
         UNCHANGED <<kind, quarantined, loan, phase, call, cancelled, stack, staging, output>>,
         UNCHANGED <<result, released>>,
         observed' \in {observed, observed \cup {"LeafFailed"}},
         NEW r \in {"None", "Ok", "Cancelled", "Backend"}, NEW v \in Seq(Nat),
         how = "Working" <=> r = "None", r = "Ok" => v = <<call.base + s>>,
         answer' = [answer EXCEPT ![call.base + s] = r],
         cv' = [cv EXCEPT ![call.base + s] = v]
  PROVE  IInv'
<1> DEFINE leaf == call.base + s
<1>1. /\ TypeOK /\ phase \in Waving /\ s <= call.started /\ s \in Nat /\ call.base \in Nat
      /\ leaf \in Leaves /\ s \in Stacks /\ s # Root
  BY WorkerLeaf, StackNames DEF IInv
<1>2. /\ thread' \in [Stacks -> {"None", "Running", "Working", "Done", "Panicked"}]
      /\ thread'[s] = how /\ \A t \in Stacks \ {s} : thread'[t] = thread[t]
  BY <1>1 DEF TypeOK
<1>3. /\ answer' \in [Leaves -> {"None", "Ok", "Cancelled", "Backend"}]
      /\ cv' \in [Leaves -> Seq(Nat)]
      /\ answer'[leaf] = r /\ cv'[leaf] = v
      /\ \A i \in Leaves \ {leaf} : answer'[i] = answer[i] /\ cv'[i] = cv[i]
  BY <1>1 DEF TypeOK
<1>4. TypeOK'
  <2>1. observed' \subseteq Failures
    BY <1>1 DEF TypeOK, Failures
  <2> QED
    BY <1>1, <1>2, <1>3, <2>1 DEF TypeOK
<1>5. WaveFacts'
  BY DEF IInv, WaveFacts, WaveSize
<1>6. StackFacts'
  BY <1>1, <1>2, StackNames DEF IInv, StackFacts
<1>7. LeafFacts'
  <2>1. /\ answer[leaf] = "None" /\ ~(leaf <= call.base)
        /\ ~(call.base + call.started < leaf)
    BY <1>1, CallTypes DEF IInv, LeafFacts, WorkerStacks
  <2>2. ASSUME NEW i \in Leaves
        PROVE  /\ answer'[i] = "Ok" => cv'[i] = <<i>>
               /\ i <= call'.base => answer'[i] = "Ok"
               /\ phase' \notin Waving /\ call'.base < i => answer'[i] = "None"
               /\ phase' \in Waving /\ call'.base + call'.started < i => answer'[i] = "None"
    <3>1. CASE i = leaf
      BY <1>1, <1>3, <2>1, <3>1
    <3>2. CASE i # leaf
      BY <1>3, <3>2 DEF IInv, LeafFacts
    <3> QED
      BY <3>1, <3>2
  <2>3. ASSUME NEW t \in WorkerStacks
        PROVE  /\ thread'[t] \in {"Running", "Working"} => answer'[call'.base + t] = "None"
               /\ thread'[t] = "Done" => answer'[call'.base + t] # "None"
    <3>1. CASE t = s
      BY <1>1, <1>2, <1>3, <3>1
    <3>2. CASE t # s
      <4>1. thread'[t] = thread[t]
        BY <1>2, <3>2, StackNames
      <4>2. thread[t] # "None" => call.base + t \in Leaves /\ call.base + t # leaf
        <5>1. t \in Nat
          BY DEF WorkerStacks
        <5> QED
          BY <1>1, <3>2, <5>1, WorkerLeaf
      <4> QED
        BY <1>3, <4>1, <4>2 DEF IInv, LeafFacts
    <3> QED
      BY <3>1, <3>2
  <2> QED
    BY <2>2, <2>3 DEF LeafFacts
<1>8. DigestFacts' /\ CleanFacts'
  <2>1. thread'[Root] = thread[Root] /\ phase \notin Reducing /\ phase \notin {"Idle", "Admit"}
    BY <1>1, <1>2, StackNames DEF Waving, Reducing
  <2> QED
    BY <1>1, <2>1 DEF IInv, DigestFacts, CleanFacts
<1>9. ArmedFacts'
  <2>1. Severe' <=> Severe
    BY DEF Severe
  <2>2. Doomed => Doomed'
    BY <1>1, <1>2 DEF Doomed, Waving
  <2> QED
    BY <2>1, <2>2 DEF IInv, ArmedFacts
<1> QED
  BY <1>4, <1>5, <1>6, <1>7, <1>8, <1>9 DEF IInv

LEMMA BeginIInv == ASSUME IInv, NEW s \in WorkerStacks, Begin(s) PROVE IInv'
<1>1. /\ thread[s] \in {"Running", "Working"} /\ TypeOK /\ call.base + s \in Leaves
      /\ answer[call.base + s] = "None" /\ observed' = observed
  BY WorkerLeaf DEF Begin, IInv, LeafFacts
<1>2. CASE Answers(s, "Cancelled", <<>>)
  <2>1. /\ thread' = [thread EXCEPT ![s] = "Done"] /\ <<>> \in Seq(Nat)
        /\ answer' = [answer EXCEPT ![call.base + s] = "Cancelled"]
        /\ cv' = [cv EXCEPT ![call.base + s] = <<>>]
        /\ UNCHANGED <<kind, quarantined, loan, phase, call, cancelled, stack, staging, output>>
        /\ UNCHANGED <<result, released>>
    BY <1>2 DEF Answers, Ends, history
  <2> QED
    BY <1>1, <2>1, WorkerIInv
<1>3. CASE /\ thread' = [thread EXCEPT ![s] = "Working"]
           /\ UNCHANGED <<kind, quarantined, loan, phase, call, cancelled, stack, answer>>
           /\ UNCHANGED <<buffers, history>>
  <2>1. /\ UNCHANGED <<kind, quarantined, loan, phase, call, cancelled, stack, staging, output>>
        /\ UNCHANGED <<result, released, answer, cv>>
    BY <1>3 DEF buffers, history
  <2>2. /\ answer' = [answer EXCEPT ![call.base + s] = "None"]
        /\ cv' = [cv EXCEPT ![call.base + s] = cv[call.base + s]]
        /\ cv[call.base + s] \in Seq(Nat)
    BY <1>1, <2>1 DEF TypeOK
  <2> QED
    BY <1>1, <1>3, <2>1, <2>2, WorkerIInv
<1> QED
  BY <1>2, <1>3 DEF Begin

LEMMA WorkIInv == ASSUME IInv, NEW s \in WorkerStacks, Work(s) PROVE IInv'
<1>1. thread[s] \in {"Running", "Working"} /\ TypeOK
  BY DEF Work, IInv
<1>2. PICK r \in {"Ok", "Cancelled", "Backend"}, v \in {<<>>, <<call.base + s>>} :
        /\ Answers(s, r, v) /\ (r = "Ok" => v = <<call.base + s>>)
        /\ observed' \in {observed, observed \cup {"LeafFailed"}}
  BY DEF Work
<1>3. v \in Seq(Nat)
  <2>1. call.base + s \in Nat
    BY <1>1, CallTypes DEF WorkerStacks
  <2>2. <<>> \in Seq(Nat) /\ <<call.base + s>> \in Seq(Nat)
    BY <2>1
  <2> QED
    BY <1>2, <2>2, Zenon
<1>4. /\ thread' = [thread EXCEPT ![s] = "Done"]
      /\ answer' = [answer EXCEPT ![call.base + s] = r]
      /\ cv' = [cv EXCEPT ![call.base + s] = v]
      /\ UNCHANGED <<kind, quarantined, loan, phase, call, cancelled, stack, staging, output>>
      /\ UNCHANGED <<result, released>>
  BY <1>2 DEF Answers, Ends, history
<1> QED
  BY <1>1, <1>2, <1>3, <1>4, WorkerIInv

\* A set of natural numbers has a least element.
LEMMA HasLeast ==
  ASSUME NEW S, S \subseteq Nat, S # {}
  PROVE  \E x \in S : \A y \in S : x <= y
<1> DEFINE R == OpToRel(<, Nat)
<1>1. IsWellFoundedOn(R, Nat)
  BY NatLessThanWellFounded
<1>2. \A x, y : (<<y, x>> \in R) <=> (x \in Nat /\ y \in Nat /\ y < x)
  BY Zenon DEF OpToRel
<1> HIDE DEF R
<1>3. PICK x \in S : \A y \in S : ~(<<y, x>> \in R)
  BY <1>1, WFMin
<1>4. ASSUME NEW y \in S PROVE ~(y < x)
  BY <1>2, <1>3
<1>5. \A y \in S : x <= y
  BY <1>4
<1> QED
  BY <1>5

\* The first leaf without a value was answered by a thread that ended.
LEMMA MissingAnswer ==
  ASSUME IInv, phase = "Join", call.error = "None", Missing # {}, GroupJoined,
         \A s \in WorkerStacks : thread[s] # "Panicked"
  PROVE  answer[FirstMissing] \in {"Cancelled", "Backend"}
<1>1. /\ call.base < call.length /\ call.started = WaveSize /\ TypeOK
      /\ WaveSize \in 1..Workers /\ call.base \in Nat
  BY CallTypes, WaveBounds DEF IInv, WaveFacts, Working, Phases
<1>2. Missing \subseteq Nat
  BY <1>1 DEF Missing
<1>3. FirstMissing \in Missing
  <2>1. \E i \in Missing : \A j \in Missing : i <= j
    BY <1>2, HasLeast
  <2> QED
    BY <2>1 DEF FirstMissing
<1> DEFINE s == FirstMissing - call.base
<1>4. s \in 1..WaveSize /\ call.base + s = FirstMissing /\ answer[FirstMissing] # "Ok"
  BY <1>1, <1>2, <1>3 DEF Missing
<1>5. s \in WorkerStacks /\ FirstMissing \in Leaves /\ s <= call.started
  BY <1>1, <1>4, WaveBounds DEF IInv, Working, Phases
<1>6. thread[s] = "Done"
  BY <1>5 DEF IInv, StackFacts, Waving, GroupJoined, Ended
<1>7. answer[FirstMissing] # "None"
  <2> HIDE DEF s
  <2> QED
    BY <1>4, <1>5, <1>6 DEF IInv, LeafFacts
<1> QED
  BY <1>1, <1>4, <1>5, <1>7 DEF TypeOK

\* The wave is joined: the call ends, or the next wave begins.
LEMMA JoinWaveIInv == ASSUME IInv, JoinWave PROVE IInv'
<1> DEFINE panicked == \E s \in WorkerStacks : thread[s] = "Panicked"
<1>1. phase = "Join" /\ GroupJoined /\ observed' = observed /\ TypeOK
  BY DEF JoinWave, IInv
<1>2. thread' = NoThreads /\ stack' = CleanStacks
  <2>1. thread[Root] = "None" /\ stack[Root] = FALSE
    BY <1>1, StackNames DEF IInv, StackFacts, TypeOK
  <2>2. \A s \in Stacks : AfterJoin(s) = "None" /\ (s = Root /\ stack[s]) = FALSE
    BY <1>1, <2>1, StackNames DEF AfterJoin, GroupJoined, Ended
  <2>3. thread' = [s \in Stacks |-> AfterJoin(s)] /\ stack' = [s \in Stacks |-> s = Root /\ stack[s]]
    BY DEF JoinWave
  <2> QED
    BY <2>2, <2>3 DEF NoThreads, CleanStacks
<1>3. kind = "Compiled" => quarantined
  BY <1>1 DEF IInv, ArmedFacts, Working, Phases
<1>4. kind = "Compiled" /\ Severe => panicked \/ call.error = "ThreadStart"
  <2>1. Root \in Stacks /\ thread[Root] # "Panicked"
    BY <1>1, StackNames DEF IInv, StackFacts
  <2> QED
    BY <1>1, <2>1, StackNames DEF IInv, ArmedFacts, Doomed, Working, Phases
<1>5. observed' \subseteq Failures /\ (Severe' <=> Severe) /\ quarantined \in BOOLEAN
  BY <1>1 DEF TypeOK, Severe
<1>6. ASSUME NEW r \in Errors, Fail(r), kind = "Compiled" /\ Severe => ~Harmless(r)
      PROVE  IInv'
  <2>1. Abandon(r) /\ quarantined' = (quarantined /\ ~Harmless(r)) /\ kind' = kind
    BY <1>6 DEF Fail, Abandon
  <2>2. quarantined' \in BOOLEAN
    BY <1>5, <2>1
  <2>3. kind = "Compiled" /\ Severe' => quarantined'
    BY <1>3, <1>5, <1>6, <2>1
  <2> QED
    BY <1>2, <1>5, <2>1, <2>2, <2>3, LeaveIInv
<1>7. CASE call.error # "None" /\ Fail(call.error)
  <2>1. call.error = "ThreadStart"
    BY <1>1, <1>7 DEF IInv, WaveFacts
  <2> QED
    BY <1>6, <1>7, <2>1 DEF Harmless, Errors
<1>8. CASE Fail("WorkerPanicked")
  BY <1>6, <1>8 DEF Harmless, Errors
<1>9. CASE /\ call.error = "None" /\ ~panicked /\ Missing # {}
           /\ Fail(answer[FirstMissing])
  <2>1. answer[FirstMissing] \in Errors
    BY <1>1, <1>9, MissingAnswer DEF Errors
  <2> QED
    BY <1>4, <1>6, <1>9, <2>1
<1>10. CASE /\ call.error = "None" /\ ~panicked /\ Missing = {}
            /\ call' = [call EXCEPT !.base = @ + WaveSize]
            /\ Goto("Wave") /\ UNCHANGED <<quarantined, answer, buffers>>
  <2>1. /\ phase' = "Wave" /\ UNCHANGED <<kind, loan, cancelled, result, released>>
        /\ UNCHANGED <<quarantined, answer, cv, staging, output>>
    BY <1>10 DEF Goto, buffers, history
  <2>2. /\ call.base < call.length /\ call.started = WaveSize /\ WaveSize \in 1..Workers
        /\ call.base \in Nat /\ call.length \in Nat /\ call.base + WaveSize <= call.length
        /\ call.length <= MaxLeaves
    BY <1>1, <1>10, CallTypes, WaveBounds DEF IInv, WaveFacts, Working, Phases
  <2>3. call.base + WaveSize \in Nat
    BY <2>2
  <2>4. /\ call' \in Calls /\ call'.length = call.length /\ call'.base = call.base + WaveSize
        /\ call'.merged = call.merged /\ call'.error = "None"
        /\ call'.absorbed = call.absorbed /\ call'.started = call.started
    BY <1>1, <1>10, <2>3, CallTypes DEF Calls
  <2>5. TypeOK'
    BY <1>1, <1>2, <1>5, <2>1, <2>2, <2>4, EmptyTypes DEF TypeOK, Calls, Phases
  <2>6. WaveFacts'
    BY <2>1, <2>2, <2>4 DEF WaveFacts, Reducing
  <2>7. StackFacts'
    BY <1>2, <2>1, EmptyTypes, StackNames DEF StackFacts, Waving
  <2>8. LeafFacts'
    <3>1. ASSUME NEW i \in Leaves, i <= call.base + WaveSize PROVE answer[i] = "Ok"
      <4>1. CASE i <= call.base
        BY <4>1 DEF IInv, LeafFacts
      <4>2. CASE ~(i <= call.base)
        BY <1>10, <2>2, <3>1, <4>2 DEF Missing, Leaves
      <4> QED
        BY <4>1, <4>2
    <3>2. ASSUME NEW i \in Leaves, call.base + WaveSize < i PROVE answer[i] = "None"
      BY <1>1, <2>2, <3>2 DEF IInv, LeafFacts, Waving
    <3>3. \A s \in WorkerStacks : thread'[s] = "None"
      BY <1>2, EmptyTypes, StackNames
    <3> QED
      BY <2>1, <2>4, <3>1, <3>2, <3>3 DEF IInv, LeafFacts, Waving
  <2>9. DigestFacts' /\ CleanFacts'
    BY <1>1, <2>1, <2>4 DEF IInv, DigestFacts, CleanFacts, Reducing
  <2>10. ArmedFacts'
    BY <1>3, <1>4, <1>5, <1>10, <2>1 DEF ArmedFacts
  <2> QED
    BY <2>5, <2>6, <2>7, <2>8, <2>9, <2>10 DEF IInv
<1> QED
  BY <1>7, <1>8, <1>9, <1>10 DEF JoinWave

-----------------------------------------------------------------------------
(* The end of a call and what may happen between calls.                    *)

\* The result is lent, or cleared.
LEMMA FinishIInv == ASSUME IInv, Finish PROVE IInv'
<1>1. phase = "Finish" /\ UNCHANGED <<thread, stack, observed>> /\ TypeOK
  BY DEF Finish, threads, IInv
<1>2. thread = NoThreads /\ stack = CleanStacks
  BY <1>1, NoThreadsYet DEF IInv, StackFacts, Waving
<1>3. kind = "Compiled" => ~Severe
  <2>1. \A s \in Stacks : thread[s] # "Panicked"
    BY <1>2, EmptyTypes
  <2> QED
    BY <1>1, <2>1 DEF IInv, ArmedFacts, Doomed, Working, Phases
<1>4. observed' \subseteq Failures /\ (Severe' <=> Severe)
  BY <1>1 DEF TypeOK, Severe
<1>5. CASE Fail("Cancelled")
  <2>1. Abandon("Cancelled") /\ quarantined' = FALSE /\ kind' = kind
    BY <1>5 DEF Fail, Harmless, Abandon
  <2> QED
    BY <1>1, <1>2, <1>3, <1>4, <2>1, LeaveIInv DEF Errors
<1>6. CASE /\ phase' = "Idle" /\ result' = "Ok" /\ quarantined' = FALSE
           /\ loan' = "Held" /\ cv' = NoValues /\ staging' = <<>> /\ UNCHANGED output
           /\ call' = NewCall(call.length) /\ answer' = NoAnswers
           /\ UNCHANGED <<kind, cancelled>>
  <2>1. /\ call' \in Calls /\ call'.length = call.length /\ call'.base = 0 /\ call'.started = 0
        /\ call'.merged = 0 /\ call'.error = "None" /\ call'.absorbed = <<>>
        /\ call.length \in Nat
    BY <1>1, <1>6, CallTypes, NewCallFacts
  <2>2. TypeOK'
    <3>1. call' \in Calls /\ call'.base <= call'.length /\ call'.merged <= call'.length
      BY <2>1
    <3>2. /\ answer' \in [Leaves -> {"None", "Ok", "Cancelled", "Backend"}]
          /\ cv' \in [Leaves -> Seq(Nat)]
      BY <1>6, EmptyTypes
    <3> QED
      BY <1>1, <1>4, <1>6, <3>1, <3>2 DEF TypeOK, Calls, Phases
  <2>3. WaveFacts'
    BY <1>6, <2>1 DEF WaveFacts, Working, Reducing
  <2>4. StackFacts'
    BY <1>1, <1>2, <1>6, EmptyTypes, StackNames DEF StackFacts, Waving
  <2>5. LeafFacts'
    <3>1. \A i \in Leaves : ~(i <= 0) /\ answer'[i] = "None"
      BY <1>6, EmptyTypes DEF Leaves
    <3>2. \A s \in WorkerStacks : thread'[s] = "None"
      BY <1>1, <1>2, EmptyTypes, StackNames
    <3> QED
      BY <1>6, <2>1, <3>1, <3>2 DEF LeafFacts, Waving
  <2>6. DigestFacts' /\ CleanFacts' /\ ArmedFacts'
    BY <1>3, <1>4, <1>6, <2>1, PrefixFacts
    DEF DigestFacts, CleanFacts, ArmedFacts, Working, Reducing
  <2> QED
    BY <2>2, <2>3, <2>4, <2>5, <2>6 DEF IInv
<1> QED
  BY <1>5, <1>6 DEF Finish

\* The output is dropped or forgotten, or the session quarantined.
LEMMA BetweenIInv ==
  ASSUME IInv, phase = "Idle", DropOutput \/ ForgetOutput \/ Quarantine PROVE IInv'
<1>1. /\ UNCHANGED <<kind, phase, call, cancelled, thread, stack, answer, cv, staging>>
      /\ UNCHANGED <<result, released, observed>> /\ TypeOK
      /\ loan' \in {"None", "Forgotten"} /\ (loan' = "None" => output' = <<>>)
      /\ phase' = "Idle" /\ cv' = NoValues /\ staging' = <<>>
  BY DEF DropOutput, ForgetOutput, Quarantine, ClearBuffers, threads, buffers, history, IInv,
         CleanFacts
<1>2. quarantined' \in BOOLEAN /\ (quarantined => quarantined')
  <2>1. quarantined \in BOOLEAN
    BY DEF IInv, TypeOK
  <2>2. CASE UNCHANGED quarantined
    BY <2>1, <2>2, Zenon
  <2>3. CASE quarantined' = TRUE
    BY <2>3, Zenon
  <2> QED
    BY <2>2, <2>3 DEF DropOutput, ForgetOutput, Quarantine
<1>3. TypeOK'
  BY <1>1, <1>2 DEF TypeOK
<1>4. WaveFacts' /\ StackFacts' /\ LeafFacts'
  BY <1>1 DEF IInv, WaveFacts, WaveSize, StackFacts, LeafFacts
<1>5. DigestFacts'
  BY <1>1 DEF IInv, DigestFacts, Reducing
<1>6. CleanFacts'
  BY <1>1 DEF CleanFacts
<1>7. ArmedFacts'
  BY <1>1, <1>2 DEF IInv, ArmedFacts, Severe, Working
<1> QED
  BY <1>3, <1>4, <1>5, <1>6, <1>7 DEF IInv

\* An output is only lent outside a call.
LEMMA LentOutside == ASSUME IInv, loan # "None" PROVE phase = "Idle"
BY DEF IInv, CleanFacts

\* Every step preserves the inductive invariant.
LEMMA NextIInv == ASSUME IInv, [Next]_vars PROVE IInv'
<1>1. CASE CallerStep
  BY <1>1, AdmitIInv, StartRootIInv, JoinRootIInv, WaveIInv, LaunchIInv, JoinWaveIInv,
     FinishIInv DEF CallerStep
<1>2. CASE RootStep
  BY <1>2, CanonicalizeIInv, RootCancelledIInv, RootFailedIInv, MergeIInv, SqueezeIInv,
     RootDoneIInv DEF RootStep
<1>3. CASE \E s \in WorkerStacks : Begin(s) \/ Work(s)
  BY <1>3, BeginIInv, WorkIInv
<1>4. CASE \E s \in Stacks : Panic(s)
  BY <1>4, PanicIInv
<1>5. CASE Cancel
  BY <1>5, CancelIInv DEF Cancel, threads, buffers, history
<1>6. CASE DropOutput \/ ForgetOutput \/ Quarantine
  <2>1. phase = "Idle"
    BY <1>6, LentOutside DEF DropOutput, ForgetOutput, Quarantine
  <2> QED
    BY <1>6, <2>1, BetweenIInv
<1>7. CASE UNCHANGED vars
  BY <1>7, CancelIInv DEF vars, IInv, TypeOK
<1> QED
  BY <1>1, <1>2, <1>3, <1>4, <1>5, <1>6, <1>7, EnterIInv DEF Next

\* The inductive invariant of a strict session: which threads and values exist
\* in each phase of a call, and that a compiled session stays armed through it.
THEOREM Invariance == Spec => []IInv
<1>1. Init => IInv
  BY InitIInv
<1>2. IInv /\ [Next]_vars => IInv'
  BY NextIInv
<1> QED
  BY <1>1, <1>2, PTL DEF Spec

\* When a call has ended no thread, no frames, no value and no unlent output of
\* it is left, and a stack with a thread on it is not cleared.
THEOREM NothingStays == Spec => []NothingLeftBehind
<1>1. ASSUME IInv PROVE NothingLeftBehind
  <2>1. phase = "Idle" => thread = NoThreads /\ stack = CleanStacks
    BY <1>1, NoThreadsYet DEF IInv, StackFacts, Waving
  <2> QED
    BY <1>1, <2>1 DEF IInv, StackFacts, CleanFacts, NothingLeftBehind
<1> QED
  BY <1>1, Invariance, PTL

\* Outside a call, a compiled session that saw a panic, a missing thread or
\* resource, or a failure of the root is quarantined.
THEOREM QuarantineHolds == Spec => []QuarantineIsKept
<1>1. IInv => QuarantineIsKept
  BY DEF IInv, ArmedFacts, Severe, Working, QuarantineIsKept
<1> QED
  BY <1>1, Invariance, PTL

-----------------------------------------------------------------------------
(* Refinement.                                                             *)

\* A step that neither begins nor ends a call is not seen.
LEMMA Silent ==
  ASSUME phase' = "Idle" <=> phase = "Idle", call'.length = call.length,
         result' = result, released' = released
  PROVE  UNCHANGED Abstract!vars
<1>1. AbstractResult' = AbstractResult
  BY DEF AbstractResult
<1>2. Digested' = Digested
  BY DEF Digested
<1> QED
  BY <1>1, <1>2 DEF Abstract!vars

\* A call that returns an error is a failed call.
LEMMA AbandonFails ==
  ASSUME TypeOK, phase # "Idle", NEW r \in Errors, Abandon(r)
  PROVE  Abstract!Fail(Owner)
<1>1. phase' = "Idle" /\ result' = r /\ released' = released /\ call' = NewCall(call.length)
  BY DEF Abandon
<1>2. call'.length = call.length
  BY <1>1, CallTypes, NewCallFacts
<1>3. AbstractResult' \in Abstract!Refusals
  BY <1>1 DEF AbstractResult, Errors, Abstract!Refusals
<1>4. Digested' = Digested
  BY <1>1 DEF Digested
<1> QED
  BY <1>1, <1>2, <1>3, <1>4 DEF Abstract!Fail

\* Entering a call is entering the abstract executor.
LEMMA EnterAbstract == ASSUME TypeOK, Enter PROVE Abstract!Enter(Owner)
<1>1. PICK n \in Lengths : call' = NewCall(n)
  BY DEF Enter
<1>2. phase = "Idle" /\ phase' = "Admit" /\ result' = "None" /\ released' = <<>>
  BY DEF Enter
<1>3. call'.length = n
  BY <1>1, NewCallFacts
<1>4. AbstractResult' = "None" /\ Digested' = <<>>
  BY <1>2 DEF AbstractResult, Digested
<1> QED
  BY <1>2, <1>3, <1>4 DEF Abstract!Enter

\* The output that is lent is the digest of all leaves, in order.
LEMMA FinishAbstract ==
  ASSUME IInv, Finish PROVE Abstract!Fail(Owner) \/ Abstract!Succeed(Owner)
<1>1. phase = "Finish" /\ TypeOK
  BY DEF Finish, IInv
<1>2. CASE cancelled /\ Fail("Cancelled")
  BY <1>1, <1>2, AbandonFails DEF Fail, Errors
<1>3. CASE /\ phase' = "Idle" /\ result' = "Ok" /\ released' = output
           /\ call' = NewCall(call.length)
  <2>1. call'.length = call.length /\ call.length \in Nat
    BY <1>1, <1>3, CallTypes, NewCallFacts
  <2>2. released' = PartsOf(Chunks)
    BY <1>1, <1>3 DEF IInv, DigestFacts, Reducing
  <2>3. PartsOf(Chunks)[1] = Part(Prefix(call.length), 1) /\ PartsOf(Chunks) # <<>>
    <3>1. 1 \in 1..Chunks /\ Chunks \in Nat /\ Chunks # 0
      BY StrictAssumption
    <3>2. Len(PartsOf(Chunks)) = Chunks
      BY <3>1, NextPartFacts
    <3> QED
      BY <3>1, <3>2 DEF PartsOf
  <2>4. released'[1].over = Prefix(call.length) /\ released' # <<>>
    BY <2>2, <2>3 DEF Part
  <2>5. Digested' = Prefix(call.length)
    BY <2>2, <2>4 DEF Digested, PartsOf
  <2>6. AbstractResult' = "Ok"
    BY <1>3 DEF AbstractResult
  <2>7. Prefix(call.length) = Abstract!Whole([c \in {Owner} |-> call.length][Owner])
    BY DEF Prefix, Abstract!Whole
  <2> QED
    BY <1>1, <1>3, <2>1, <2>5, <2>6, <2>7 DEF Abstract!Succeed
<1> QED
  BY <1>2, <1>3 DEF Finish

\* The caller's other steps are not seen, or end the call with an error.
LEMMA CallerAbstract ==
  ASSUME IInv, Admit \/ StartRoot \/ JoinRoot \/ Wave \/ Launch \/ JoinWave
  PROVE  Abstract!Fail(Owner) \/ UNCHANGED Abstract!vars
<1>1. TypeOK /\ phase # "Idle" /\ call \in Calls
  <2>1. phase # "Idle"
    <3>1. CASE JoinRoot
      BY <3>1, StackNames DEF JoinRoot, IInv, StackFacts
    <3> QED
      BY <3>1 DEF Admit, StartRoot, Wave, Launch, JoinWave
  <2> QED
    BY <2>1, CallTypes DEF IInv
<1>2. ASSUME NEW r \in Errors, Fail(r) PROVE Abstract!Fail(Owner)
  BY <1>1, <1>2, AbandonFails DEF Fail
<1>3. ASSUME NEW p \in Phases \ {"Idle"}, Goto(p), call'.length = call.length
      PROVE  UNCHANGED Abstract!vars
  BY <1>1, <1>3, Silent DEF Goto, history
<1>4. CASE Admit
  BY <1>1, <1>3, <1>4, AbandonFails DEF Admit, Errors, Phases
<1>5. CASE StartRoot
  <2>1. CASE UNCHANGED <<phase, call>> /\ UNCHANGED history
    BY <2>1, Silent DEF history
  <2> QED
    BY <1>2, <1>5, <2>1 DEF StartRoot, Errors
<1>6. CASE JoinRoot
  <2>1. RootError \in Errors \cup {"None"}
    BY <1>1 DEF RootError, Calls
  <2>2. CASE Goto(IF phase = "Canonical" THEN "Wave" ELSE "Finish") /\ UNCHANGED call
    BY <1>3, <2>2 DEF Phases
  <2> QED
    BY <1>2, <1>6, <2>1, <2>2 DEF JoinRoot, Errors
<1>7. CASE Wave
  <2>1. CASE Goto("Collect") /\ UNCHANGED call
    BY <1>3, <2>1 DEF Phases
  <2>2. CASE Goto("Launch") /\ call' = [call EXCEPT !.started = 0]
    BY <1>1, <1>3, <2>2 DEF Phases, Calls
  <2> QED
    BY <1>2, <1>7, <2>1, <2>2 DEF Wave, Errors
<1>8. CASE Launch
  <2> DEFINE s == call.started + 1
  <2>1. CASE call' = [call EXCEPT !.started = s]
             /\ Goto(IF s = WaveSize THEN "Join" ELSE "Launch")
    BY <1>1, <1>3, <2>1 DEF Phases, Calls
  <2>2. CASE call' = [call EXCEPT !.error = "ThreadStart"] /\ Goto("Join")
    BY <1>1, <1>3, <2>2 DEF Phases, Calls
  <2> QED
    BY <1>8, <2>1, <2>2 DEF Launch
<1>9. CASE JoinWave
  <2>1. CASE call.error # "None" /\ Fail(call.error)
    BY <1>1, <1>2, <2>1 DEF Calls
  <2>2. CASE Fail("WorkerPanicked")
    BY <1>2, <2>2 DEF Errors
  <2>3. CASE /\ call.error = "None" /\ ~(\E s \in WorkerStacks : thread[s] = "Panicked")
             /\ Missing # {} /\ Fail(answer[FirstMissing])
    <3>1. answer[FirstMissing] \in Errors
      BY <1>9, <2>3, MissingAnswer DEF JoinWave, Errors
    <3> QED
      BY <1>2, <2>3, <3>1
  <2>4. CASE call' = [call EXCEPT !.base = @ + WaveSize] /\ Goto("Wave")
    BY <1>1, <1>3, <2>4 DEF Phases, Calls
  <2> QED
    BY <1>9, <2>1, <2>2, <2>3, <2>4 DEF JoinWave
<1> QED
  BY <1>4, <1>5, <1>6, <1>7, <1>8, <1>9

\* What threads do on their stacks is not seen.
LEMMA ThreadsAbstract ==
  ASSUME TypeOK,
         RootStep \/ (\E s \in WorkerStacks : Begin(s) \/ Work(s)) \/ \E s \in Stacks : Panic(s)
  PROVE  UNCHANGED Abstract!vars
<1>1. call \in Calls
  BY CallTypes
<1>2. CASE phase' = phase /\ call'.length = call.length /\ UNCHANGED <<result, released>>
  BY <1>2, Silent
<1>3. ASSUME NEW r, RootReturns(r) PROVE UNCHANGED Abstract!vars
  BY <1>1, <1>2, <1>3 DEF RootReturns, history, Calls
<1>4. CASE Canonicalize \/ RootCancelled \/ RootFailed \/ RootDone
  BY <1>3, <1>4 DEF Canonicalize, RootCancelled, RootFailed, RootDone
<1>5. CASE Merge
  BY <1>1, <1>2, <1>5 DEF Merge, RootStays, history, Calls
<1>6. CASE Squeeze
  BY <1>2, <1>6 DEF Squeeze, RootStays, history
<1>7. ASSUME NEW s, Begin(s) \/ Work(s) \/ Panic(s) PROVE UNCHANGED Abstract!vars
  BY <1>2, <1>7 DEF Begin, Work, Panic, Answers, history
<1> QED
  BY <1>4, <1>5, <1>6, <1>7 DEF RootStep

\* Every step of a session is a step of the abstract executor, or is not seen.
LEMMA NextAbstract ==
  ASSUME IInv, [Next]_vars PROVE [Abstract!Next]_(Abstract!vars)
<1>1. TypeOK
  BY DEF IInv
<1>2. CASE Enter
  BY <1>1, <1>2, EnterAbstract DEF Abstract!Next
<1>3. CASE CallerStep
  BY <1>3, CallerAbstract, FinishAbstract DEF CallerStep, Abstract!Next
<1>4. CASE \/ RootStep
           \/ \E s \in WorkerStacks : Begin(s) \/ Work(s)
           \/ \E s \in Stacks : Panic(s)
  BY <1>1, <1>4, ThreadsAbstract
<1>5. CASE Cancel \/ DropOutput \/ ForgetOutput
  BY <1>5, Silent DEF Cancel, DropOutput, ForgetOutput, history
<1>6. CASE Quarantine
  BY <1>6, Silent DEF Quarantine, history
<1>7. CASE UNCHANGED vars
  BY <1>7, Silent DEF vars
<1> QED
  BY <1>2, <1>3, <1>4, <1>5, <1>6, <1>7 DEF Next

\* A session on protected stacks implements the executor of the native threads,
\* for one caller: a call releases the whole digest or nothing of it.
THEOREM Implements == Spec => ImplementsSpec
<1>1. Init => Abstract!Init
  <2> SUFFICES ASSUME Init PROVE Abstract!Init
    OBVIOUS
  <2>1. call.length \in Lengths
    BY NewCallFacts DEF Init
  <2>2. phase = "Idle" /\ AbstractResult = "None" /\ Digested = <<>>
    BY DEF Init, AbstractResult, Digested
  <2> QED
    BY <2>1, <2>2 DEF Abstract!Init
<1>2. IInv /\ [Next]_vars => [Abstract!Next]_(Abstract!vars)
  BY NextAbstract
<1> QED
  BY <1>1, <1>2, Invariance, PTL DEF Spec, ImplementsSpec, Abstract!Spec

-----------------------------------------------------------------------------
(* Calls are finite.                                                       *)

Alive == { s \in WorkerStacks : thread[s] \in {"Running", "Working"} }
Fresh == { s \in WorkerStacks : thread[s] = "Running" }

\* The leaves beyond this wave.
Later == call.length - call.base - WaveSize

\* What the root has yet to merge, to squeeze and to return.
RootWork == call.length - call.merged + (Chunks - Len(output)) + 1

\* Starting the root's thread, its work, joining it.
RootSteps(work) ==
  CASE thread[Root] = "None" -> work + 2
    [] thread[Root] \in {"Running", "Working"} -> work + 1
    [] OTHER -> 1

\* The most steps that the caller and the root can still take: five for a leaf
\* and its wave with the two of the leaf's worker, one to merge it.
Ahead ==
  CASE phase = "Admit"     -> 6 * call.length + Chunks + 9
    [] phase = "Canonical" -> 6 * call.length + Chunks + 5 + RootSteps(1)
    [] phase = "Wave"      -> 5 * (call.length - call.base) + call.length + Chunks + 5
    [] phase = "Launch"    -> 5 * Later + 3 * (WaveSize - call.started) + call.length + Chunks + 6
    [] phase = "Join"      -> 5 * Later + call.length + Chunks + 6
    [] phase = "Collect"   -> RootSteps(RootWork) + 1
    [] phase = "Finish"    -> 1
    [] OTHER               -> 0

\* The same of the call with its workers, of which each takes two.
StepsLeft == Ahead + Cardinality(Alive) + Cardinality(Fresh)

\* Every step but a cancellation brings a call nearer to its end, failures and
\* panics included; it begins with six steps for each leaf, one for each part of
\* its output and nine more.
CallsAreFinite ==
  [][IF phase = "Idle" THEN phase' = "Idle" \/ StepsLeft' = 6 * call'.length + Chunks + 9
     ELSE Cancel \/ StepsLeft' < StepsLeft]_vars

LEMMA FewerThreads ==
  ASSUME NEW S, NEW T, IsFiniteSet(S), T \subseteq S
  PROVE  IsFiniteSet(T) /\ Cardinality(T) <= Cardinality(S)
         /\ Cardinality(T) \in Nat /\ Cardinality(S) \in Nat
BY FS_Subset, FS_CardinalityType

LEMMA OneMoreThread ==
  ASSUME NEW S, NEW T, NEW x, IsFiniteSet(S), T \subseteq S \cup {x}
  PROVE  /\ Cardinality(T) <= Cardinality(S) + 1
         /\ Cardinality(T) \in Nat /\ Cardinality(S) \in Nat
<1>1. Cardinality(S) \in Nat
  BY FS_CardinalityType
<1>2. IsFiniteSet(S \cup {x}) /\ Cardinality(S \cup {x}) <= Cardinality(S) + 1
  BY <1>1, FS_AddElement
<1> QED
  BY <1>1, <1>2, FewerThreads

LEMMA ThreadsAreFinite ==
  /\ IsFiniteSet(Alive) /\ Cardinality(Alive) \in Nat
  /\ IsFiniteSet(Fresh) /\ Cardinality(Fresh) \in Nat
<1>1. IsFiniteSet(WorkerStacks)
  BY StrictAssumption, FS_Interval DEF WorkerStacks
<1> QED
  BY <1>1, FewerThreads DEF Alive, Fresh

\* What there is to count.
LEMMA Counts ==
  ASSUME IInv
  PROVE  /\ call.length \in Nat /\ call.base \in Nat /\ call.started \in Nat
         /\ call.merged \in Nat /\ call.base <= call.length /\ call.merged <= call.length
         /\ WaveSize \in Nat /\ Later \in Nat /\ Later = call.length - call.base - WaveSize
         /\ Chunks \in Nat
<1>1. /\ call.length \in Nat /\ call.base \in Nat /\ call.started \in Nat
      /\ call.merged \in Nat /\ call.base <= call.length /\ call.merged <= call.length
  BY CallTypes DEF IInv
<1>2. WaveSize \in Nat /\ WaveSize <= call.length - call.base
  BY <1>1, StrictAssumption DEF WaveSize
<1>3. Chunks \in Nat
  BY StrictAssumption
<1> QED
  BY <1>1, <1>2, <1>3 DEF Later

\* What the root has to do while it reduces, and before.
LEMMA RootCounts ==
  ASSUME IInv
  PROVE  /\ phase \in Reducing => Len(output) \in 0..Chunks /\ RootWork \in Nat /\ RootWork > 0
         /\ phase \notin Reducing \cup {"Idle"} => Len(output) = 0 /\ call.merged = 0
<1>1. ASSUME phase \in Reducing
      PROVE  Len(output) \in 0..Chunks /\ RootWork \in Nat /\ RootWork > 0
  <2>1. PICK n \in 0..Chunks : output = PartsOf(n)
    BY <1>1 DEF IInv, DigestFacts
  <2>2. n \in Nat /\ n <= Chunks /\ Chunks \in Nat
    BY StrictAssumption
  <2>3. Len(output) = n
    BY <2>1, <2>2 DEF PartsOf
  <2>4. call.length \in Nat /\ call.merged \in Nat /\ call.merged <= call.length
    BY Counts
  <2> QED
    BY <2>2, <2>3, <2>4 DEF RootWork
<1> QED
  BY <1>1 DEF IInv, DigestFacts

\* A call is ahead of its end by a number, which is not zero while it runs.
LEMMA AheadIsNatural ==
  ASSUME IInv
  PROVE  /\ Ahead \in Nat /\ StepsLeft \in Nat
         /\ phase # "Idle" => Ahead > 0
<1>1. phase \in Phases
  BY DEF IInv, TypeOK
<1>2. phase = "Canonical" => RootSteps(1) \in Nat
  BY DEF RootSteps
<1>3. phase = "Collect" => RootSteps(RootWork) \in Nat
  BY RootCounts DEF RootSteps, Reducing
<1>4. Ahead \in Nat /\ (phase # "Idle" => Ahead > 0)
  <2>1. phase = "Launch" => call.started \in Nat /\ call.started < WaveSize
    BY Counts DEF IInv, WaveFacts
  <2> QED
    BY <1>1, <1>2, <1>3, <2>1, Counts DEF Ahead, Phases
<1> QED
  BY <1>4, ThreadsAreFinite DEF StepsLeft

\* The caller or the root comes nearer, and no worker starts.
LEMMA Nearer ==
  ASSUME IInv, Ahead' \in Int, Ahead' < Ahead, Alive' \subseteq Alive, Fresh' \subseteq Fresh
  PROVE  StepsLeft' < StepsLeft
<1>1. /\ Cardinality(Alive') <= Cardinality(Alive) /\ Cardinality(Alive') \in Nat
      /\ Cardinality(Fresh') <= Cardinality(Fresh) /\ Cardinality(Fresh') \in Nat
  BY ThreadsAreFinite, FewerThreads
<1> QED
  BY <1>1, AheadIsNatural, ThreadsAreFinite DEF StepsLeft

\* A call that ends is nearer to its end.
LEMMA EndIsNearer ==
  ASSUME IInv, phase # "Idle", phase' = "Idle", Alive' \subseteq Alive, Fresh' \subseteq Fresh
  PROVE  StepsLeft' < StepsLeft
<1>1. Ahead' = 0
  BY DEF Ahead
<1> QED
  BY <1>1, Nearer, AheadIsNatural

\* The steps of the caller that leave the workers alone or gone.
LEMMA CallerNearer ==
  ASSUME IInv, Admit \/ StartRoot \/ JoinRoot \/ Wave \/ JoinWave \/ Finish
  PROVE  phase # "Idle" /\ StepsLeft' < StepsLeft
<1>1. phase # "Idle"
  BY DEF Admit, StartRoot, JoinRoot, Wave, JoinWave, Finish, IInv, StackFacts
<1>2. Alive' \subseteq Alive /\ Fresh' \subseteq Fresh
  <2>1. thread \in [Stacks -> {"None", "Running", "Working", "Done", "Panicked"}]
    BY DEF IInv, TypeOK
  <2>2. CASE UNCHANGED threads
    BY <2>2 DEF threads, Alive, Fresh
  <2>3. CASE \E w : thread' = [thread EXCEPT ![Root] = w]
    BY <2>1, <2>3, StackNames DEF Alive, Fresh
  <2>4. CASE JoinWave
    BY <2>4, StackNames DEF JoinWave, AfterJoin, Alive, Fresh
  <2> QED
    BY <2>2, <2>3, <2>4 DEF Admit, StartRoot, JoinRoot, Wave, Finish, Create
<1>3. CASE phase' = "Idle"
  BY <1>1, <1>2, <1>3, EndIsNearer
<1>4. CASE phase' # "Idle"
  <2>0. \A r : ~Abandon(r) /\ ~Fail(r)
    BY <1>4 DEF Abandon, Fail
  <2>1. Ahead' \in Int /\ Ahead' < Ahead
    <3>1. CASE Admit
      <4>1. phase = "Admit" /\ phase' = "Canonical" /\ UNCHANGED <<call, thread>>
        BY <2>0, <3>1 DEF Admit, Goto, threads
      <4>2. RootSteps(1)' \in {1, 2, 3}
        BY DEF RootSteps
      <4>3. Ahead' = 6 * call.length + Chunks + 5 + RootSteps(1)'
        BY <4>1 DEF Ahead
      <4>4. Ahead = 6 * call.length + Chunks + 9
        BY <4>1 DEF Ahead
      <4> QED
        BY <4>2, <4>3, <4>4, Counts
    <3>2. CASE StartRoot
      <4>1. /\ phase \in {"Canonical", "Collect"} /\ thread[Root] = "None"
            /\ thread' = [thread EXCEPT ![Root] = "Running"]
            /\ UNCHANGED <<phase, call, output>>
        BY <2>0, <3>2 DEF StartRoot, Create, buffers
      <4>2. thread'[Root] = "Running"
        BY <4>1, StackNames DEF IInv, TypeOK
      <4>3. RootSteps(1)' = 2 /\ RootSteps(1) = 3
        BY <4>1, <4>2 DEF RootSteps
      <4>4. RootWork' = RootWork
        BY <4>1 DEF RootWork
      <4>5. RootSteps(RootWork)' = RootWork + 1 /\ RootSteps(RootWork) = RootWork + 2
        BY <4>1, <4>2, <4>4 DEF RootSteps
      <4>6. CASE phase = "Canonical"
        BY <4>1, <4>3, <4>6, Counts DEF Ahead
      <4>7. CASE phase = "Collect"
        <5>1. RootWork \in Nat
          BY <4>7, RootCounts DEF Reducing
        <5>2. Ahead = RootWork + 3 /\ Ahead' = RootWork + 2
          BY <4>1, <4>5, <4>7, <5>1 DEF Ahead
        <5> QED
          BY <5>1, <5>2
      <4> QED
        BY <4>1, <4>6, <4>7
    <3>3. CASE JoinRoot
      <4>1. /\ thread[Root] \in {"Done", "Panicked"} /\ UNCHANGED call
            /\ phase' = IF phase = "Canonical" THEN "Wave" ELSE "Finish"
        BY <2>0, <3>3 DEF JoinRoot, Goto
      <4>2. phase \in {"Canonical", "Collect"}
        BY <4>1 DEF IInv, StackFacts
      <4>3. RootSteps(1) = 1 /\ RootSteps(RootWork) = 1
        BY <4>1 DEF RootSteps
      <4>4. CASE phase = "Canonical"
        <5>1. Ahead = 6 * call.length + Chunks + 6
          BY <4>3, <4>4, Counts DEF Ahead
        <5>2. Ahead' = 5 * (call.length - call.base) + call.length + Chunks + 5
          BY <4>1, <4>4 DEF Ahead
        <5> QED
          BY <4>4, <5>1, <5>2, Counts DEF IInv, WaveFacts
      <4>5. CASE phase = "Collect"
        BY <4>1, <4>3, <4>5 DEF Ahead
      <4> QED
        BY <4>2, <4>4, <4>5
    <3>4. CASE Wave
      <4>0. phase = "Wave" /\ UNCHANGED <<thread, output>>
        BY <2>0, <3>4 DEF Wave, threads, buffers
      <4>1. Ahead = 5 * (call.length - call.base) + call.length + Chunks + 5
        BY <4>0 DEF Ahead
      <4>2. CASE call.base >= call.length /\ Goto("Collect") /\ UNCHANGED call
        <5>1. thread[Root] = "None"
          BY <4>0, StackNames DEF IInv, StackFacts, TypeOK
        <5>2. phase' = "Collect" /\ UNCHANGED call
          BY <4>2 DEF Goto
        <5>3. RootWork' = call.length + Chunks + 1
          BY <4>0, <5>2, Counts, RootCounts DEF RootWork, Reducing
        <5>4. RootSteps(RootWork)' = call.length + Chunks + 3
          BY <4>0, <5>1, <5>3, Counts DEF RootSteps
        <5>5. Ahead' = call.length + Chunks + 4
          BY <5>2, <5>4, Counts DEF Ahead
        <5> QED
          BY <4>1, <5>5, Counts
      <4>3. CASE /\ call.base < call.length /\ Goto("Launch")
                 /\ call' = [call EXCEPT !.started = 0]
        <5>1. WaveSize > 0
          BY <4>3, Counts, StrictAssumption DEF WaveSize
        <5>2. /\ phase' = "Launch" /\ call'.length = call.length /\ call'.base = call.base
              /\ call'.started = 0
          BY <4>3, CallTypes DEF Goto, Calls, IInv
        <5>3. WaveSize' = WaveSize /\ Later' = Later
          BY <5>2 DEF WaveSize, Later
        <5>4. Ahead' = 5 * Later + 3 * (WaveSize - 0) + call.length + Chunks + 6
          BY <5>2, <5>3 DEF Ahead
        <5> QED
          BY <4>1, <5>1, <5>4, Counts
      <4> QED
        BY <2>0, <3>4, <4>2, <4>3 DEF Wave
    <3>5. CASE JoinWave
      <4>1. /\ phase = "Join" /\ phase' = "Wave"
            /\ call' = [call EXCEPT !.base = @ + WaveSize]
        BY <2>0, <3>5 DEF JoinWave, Goto
      <4>2. call'.length = call.length /\ call'.base = call.base + WaveSize
        BY <4>1, CallTypes DEF Calls, IInv
      <4>3. Ahead' = 5 * (call.length - (call.base + WaveSize)) + call.length + Chunks + 5
        BY <4>1, <4>2 DEF Ahead
      <4>4. Ahead = 5 * Later + call.length + Chunks + 6
        BY <4>1 DEF Ahead
      <4> QED
        BY <4>3, <4>4, Counts
    <3>6. ~Finish
      BY <1>4, <2>0 DEF Finish
    <3> QED
      BY <3>1, <3>2, <3>3, <3>4, <3>5, <3>6
  <2> QED
    BY <1>1, <1>2, <2>1, Nearer
<1> QED
  BY <1>1, <1>3, <1>4

\* A worker that is started is paid for by its leaf.
LEMMA LaunchNearer ==
  ASSUME IInv, Launch
  PROVE  phase # "Idle" /\ StepsLeft' < StepsLeft
<1>1. phase = "Launch"
  BY DEF Launch
<1>2. Ahead = 5 * Later + 3 * (WaveSize - call.started) + call.length + Chunks + 6
  BY <1>1 DEF Ahead
<1>3. CASE /\ Create(call.started + 1) /\ call' = [call EXCEPT !.started = call.started + 1]
           /\ Goto(IF call.started + 1 = WaveSize THEN "Join" ELSE "Launch")
  <2>1. /\ phase' = (IF call.started + 1 = WaveSize THEN "Join" ELSE "Launch")
        /\ call'.length = call.length /\ call'.base = call.base
        /\ call'.started = call.started + 1
    BY <1>3, CallTypes DEF Goto, Calls, IInv
  <2>2. WaveSize' = WaveSize /\ Later' = Later
    BY <2>1 DEF WaveSize, Later
  <2>3. Ahead' \in Int /\ Ahead' + 2 < Ahead
    <3>1. CASE call.started + 1 = WaveSize
      <4>1. Ahead' = 5 * Later + call.length + Chunks + 6
        BY <2>1, <2>2, <3>1 DEF Ahead
      <4> QED
        BY <1>2, <3>1, <4>1, Counts
    <3>2. CASE call.started + 1 # WaveSize
      <4>1. Ahead' = 5 * Later + 3 * (WaveSize - (call.started + 1)) + call.length + Chunks + 6
        BY <2>1, <2>2, <3>2 DEF Ahead
      <4> QED
        BY <1>2, <4>1, Counts
    <3> QED
      BY <3>1, <3>2
  <2>4. /\ Alive' \subseteq Alive \cup {call.started + 1}
        /\ Fresh' \subseteq Fresh \cup {call.started + 1}
    BY <1>3, StackNames DEF Create, Alive, Fresh, IInv, TypeOK
  <2>5. /\ Cardinality(Alive') <= Cardinality(Alive) + 1 /\ Cardinality(Alive') \in Nat
        /\ Cardinality(Fresh') <= Cardinality(Fresh) + 1 /\ Cardinality(Fresh') \in Nat
    BY <2>4, ThreadsAreFinite, OneMoreThread
  <2> QED
    BY <1>1, <2>3, <2>5, AheadIsNatural, ThreadsAreFinite DEF StepsLeft
<1>4. CASE call' = [call EXCEPT !.error = "ThreadStart"] /\ Goto("Join") /\ UNCHANGED threads
  <2>1. phase' = "Join" /\ call'.length = call.length /\ call'.base = call.base
    BY <1>4, CallTypes DEF Goto, Calls, IInv
  <2>2. WaveSize' = WaveSize /\ Later' = Later
    BY <2>1 DEF WaveSize, Later
  <2>3. Ahead' = 5 * Later + call.length + Chunks + 6
    BY <2>1, <2>2 DEF Ahead
  <2>4. Alive' = Alive /\ Fresh' = Fresh
    BY <1>4 DEF threads, Alive, Fresh
  <2> QED
    BY <1>1, <1>2, <2>3, <2>4, Counts, Nearer DEF IInv, WaveFacts
<1> QED
  BY <1>3, <1>4 DEF Launch

\* What the root does on its stack.
LEMMA RootNearer ==
  ASSUME IInv, RootStep
  PROVE  phase # "Idle" /\ StepsLeft' < StepsLeft
<1>1. thread[Root] = "Running" /\ phase \in {"Canonical", "Collect"} /\ phase' = phase
  BY DEF RootStep, Canonicalize, RootCancelled, RootFailed, Merge, Squeeze, RootDone, Collecting,
         RootReturns, RootStays
<1>2. Alive' \subseteq Alive /\ Fresh' \subseteq Fresh
  <2>1. CASE UNCHANGED threads
    BY <2>1 DEF threads, Alive, Fresh
  <2>2. CASE thread' = [thread EXCEPT ![Root] = "Done"]
    BY <2>2, StackNames DEF Alive, Fresh, IInv, TypeOK
  <2> QED
    BY <2>1, <2>2
    DEF RootStep, Canonicalize, RootCancelled, RootFailed, Merge, Squeeze, RootDone, RootReturns,
        RootStays, Ends
<1>3. CASE \E r : RootReturns(r)
  <2>1. thread' = [thread EXCEPT ![Root] = "Done"] /\ call'.length = call.length
    BY <1>3, CallTypes DEF RootReturns, Ends, Calls, IInv
  <2>2. thread'[Root] = "Done"
    BY <2>1, StackNames DEF IInv, TypeOK
  <2>3. /\ RootSteps(1)' = 1 /\ RootSteps(RootWork)' = 1
        /\ RootSteps(1) = 2 /\ RootSteps(RootWork) = RootWork + 1
    BY <1>1, <2>2 DEF RootSteps
  <2>4. Ahead' \in Int /\ Ahead' < Ahead
    <3>1. CASE phase = "Canonical"
      BY <1>1, <2>1, <2>3, <3>1, Counts DEF Ahead
    <3>2. CASE phase = "Collect"
      <4>1. RootWork \in Nat /\ RootWork > 0
        BY <3>2, RootCounts DEF Reducing
      <4> QED
        BY <1>1, <2>3, <3>2, <4>1 DEF Ahead
    <3> QED
      BY <1>1, <3>1, <3>2
  <2> QED
    BY <1>1, <1>2, <2>4, Nearer
<1>4. CASE Merge \/ Squeeze
  <2>1. phase = "Collect" /\ thread' = thread
    BY <1>4 DEF Merge, Squeeze, Collecting, RootStays, threads
  <2>0. RootWork \in Nat /\ RootWork > 0 /\ Len(output) \in Nat
    BY <2>1, RootCounts, Counts DEF Reducing
  <2>2. RootWork' = RootWork - 1
    <3>1. CASE Merge
      <4>1. call'.length = call.length /\ call'.merged = call.merged + 1 /\ output' = output
        BY <3>1, CallTypes DEF Merge, Calls, buffers, IInv
      <4> QED
        <5>1. RootWork' = call.length - (call.merged + 1) + (Chunks - Len(output)) + 1
          BY <4>1 DEF RootWork
        <5>2. RootWork = call.length - call.merged + (Chunks - Len(output)) + 1
          BY DEF RootWork
        <5>3. call.length \in Nat /\ call.merged \in Nat /\ Chunks \in Nat
          BY Counts
        <5> QED
          BY <2>0, <5>1, <5>2, <5>3
    <3>2. CASE Squeeze
      <4>1. call' = call /\ Len(output') = Len(output) + 1
        <5>1. PICK n \in 0..Chunks : output = PartsOf(n)
          BY <2>1 DEF IInv, DigestFacts, Reducing
        <5>2. n \in Nat
          BY StrictAssumption
        <5>3. output \in Seq({ output[k] : k \in 1..n })
          BY <5>1, <5>2 DEF PartsOf
        <5>4. output' = Append(output, NextPart) /\ call' = call
          BY <3>2 DEF Squeeze
        <5> QED
          BY <5>3, <5>4
      <4> QED
        <5>1. RootWork' = call.length - call.merged + (Chunks - (Len(output) + 1)) + 1
          BY <4>1 DEF RootWork
        <5>2. RootWork = call.length - call.merged + (Chunks - Len(output)) + 1
          BY DEF RootWork
        <5>3. call.length \in Nat /\ call.merged \in Nat /\ Chunks \in Nat
          BY Counts
        <5> QED
          BY <2>0, <5>1, <5>2, <5>3
    <3> QED
      BY <1>4, <3>1, <3>2
  <2>3. RootSteps(RootWork) = RootWork + 1 /\ RootSteps(RootWork)' = RootWork'  + 1
    BY <1>1, <2>1 DEF RootSteps
  <2>4. Ahead' \in Int /\ Ahead' < Ahead
    BY <1>1, <2>0, <2>1, <2>2, <2>3 DEF Ahead
  <2> QED
    BY <1>1, <1>2, <2>4, Nearer
<1> QED
  BY <1>3, <1>4 DEF RootStep, Canonicalize, RootCancelled, RootFailed, RootDone

\* A worker looks at the token, ends or panics; the root panics.
LEMMA ThreadNearer ==
  ASSUME IInv, NEW s \in Stacks, Panic(s) \/ (s \in WorkerStacks /\ (Begin(s) \/ Work(s)))
  PROVE  phase # "Idle" /\ StepsLeft' < StepsLeft
<1>0. thread \in [Stacks -> {"None", "Running", "Working", "Done", "Panicked"}]
  BY DEF IInv, TypeOK
<1>1. thread[s] \in {"Running", "Working"}
  BY DEF Panic, Begin, Work
<1>2. phase # "Idle"
  BY <1>1, StackNames DEF IInv, StackFacts, Waving
<1>3. PICK w : thread' = [thread EXCEPT ![s] = w] /\ phase' = phase /\ call' = call
               /\ output' = output /\ w \in {"Working", "Done", "Panicked"}
               /\ (w = "Working" => thread[s] = "Running")
  BY DEF Panic, Begin, Work, Ends, Answers, buffers
<1>4. CASE s = Root
  <2>1. w = "Panicked"
    BY <1>0, <1>3, <1>4, StackNames DEF Panic, Begin, Work, Ends
  <2>2. thread'[Root] = "Panicked" /\ Alive' = Alive /\ Fresh' = Fresh
    BY <1>0, <1>3, <1>4, <2>1, StackNames DEF Alive, Fresh
  <2>3. /\ RootSteps(1)' = 1 /\ RootSteps(RootWork)' = 1
        /\ RootSteps(1) = 2 /\ RootSteps(RootWork) = RootWork + 1
    BY <1>1, <1>4, <2>2 DEF RootSteps
  <2>4. phase \in {"Canonical", "Collect"}
    BY <1>1, <1>4 DEF IInv, StackFacts
  <2>5. Ahead' \in Int /\ Ahead' < Ahead
    <3>1. CASE phase = "Canonical"
      BY <1>3, <2>3, <3>1, Counts DEF Ahead
    <3>2. CASE phase = "Collect"
      <4>1. RootWork \in Nat /\ RootWork > 0
        BY <3>2, RootCounts DEF Reducing
      <4> QED
        BY <1>3, <2>3, <3>2, <4>1 DEF Ahead
    <3> QED
      BY <2>4, <3>1, <3>2
  <2> QED
    BY <1>2, <2>2, <2>5, Nearer
<1>5. CASE s # Root
  <2>1. s \in WorkerStacks /\ thread'[Root] = thread[Root]
    BY <1>0, <1>3, <1>5, StackNames
  <2>2. Ahead' = Ahead
    BY <1>3, <2>1 DEF Ahead, Later, WaveSize, RootSteps, RootWork
  <2>3. Alive' \subseteq Alive /\ Fresh' \subseteq Fresh
    BY <1>0, <1>1, <1>3, <2>1, StackNames DEF Alive, Fresh
  <2>4. /\ Cardinality(Alive') <= Cardinality(Alive) /\ Cardinality(Alive') \in Nat
        /\ Cardinality(Fresh') <= Cardinality(Fresh) /\ Cardinality(Fresh') \in Nat
    BY <2>3, ThreadsAreFinite, FewerThreads
  <2>5. CASE w = "Working"
    <3>1. Fresh' = Fresh \ {s} /\ s \in Fresh
      BY <1>0, <1>3, <2>1, <2>5, StackNames DEF Fresh
    <3>2. Cardinality(Fresh') = Cardinality(Fresh) - 1
      BY <3>1, ThreadsAreFinite, FS_RemoveElement
    <3> QED
      BY <1>2, <2>2, <2>4, <3>2, AheadIsNatural, ThreadsAreFinite DEF StepsLeft
  <2>6. CASE w # "Working"
    <3>1. Alive' = Alive \ {s} /\ s \in Alive
      BY <1>0, <1>1, <1>3, <2>1, <2>6, StackNames DEF Alive
    <3>2. Cardinality(Alive') = Cardinality(Alive) - 1
      BY <3>1, ThreadsAreFinite, FS_RemoveElement
    <3> QED
      BY <1>2, <2>2, <2>4, <3>2, AheadIsNatural, ThreadsAreFinite DEF StepsLeft
  <2> QED
    BY <2>5, <2>6
<1> QED
  BY <1>4, <1>5

\* A call begins with its whole input and output ahead of it.
LEMMA EnterBegins ==
  ASSUME IInv, Enter
  PROVE  phase = "Idle" /\ StepsLeft' = 6 * call'.length + Chunks + 9
<1>1. phase = "Idle" /\ phase' = "Admit" /\ UNCHANGED threads
  BY DEF Enter
<1>2. PICK n \in Lengths : call' = NewCall(n)
  BY DEF Enter
<1>3. call'.length = n /\ n \in Nat
  BY <1>2, NewCallFacts, StrictAssumption
<1>4. Alive' = {} /\ Fresh' = {}
  BY <1>1 DEF threads, Alive, Fresh, IInv, StackFacts, Waving
<1>5. Ahead' = 6 * n + Chunks + 9
  BY <1>1, <1>3 DEF Ahead
<1> QED
  BY <1>1, <1>3, <1>4, <1>5, FS_EmptySet, StrictAssumption DEF StepsLeft

\* Calls are finite, for any numbers of workers, leaves and parts: what
\* EveryCallReturns needs of the code beside the fairness of its threads.
THEOREM Finite == Spec => [](StepsLeft \in Nat) /\ CallsAreFinite
<1> DEFINE Nears ==
      IF phase = "Idle" THEN phase' = "Idle" \/ StepsLeft' = 6 * call'.length + Chunks + 9
      ELSE Cancel \/ StepsLeft' < StepsLeft
<1>1. IInv => StepsLeft \in Nat
  BY AheadIsNatural
<1>2. IInv /\ [Next]_vars => [Nears]_vars
  <2> SUFFICES ASSUME IInv, Next PROVE Nears
    OBVIOUS
  <2>1. CASE CallerStep
    BY <2>1, CallerNearer, LaunchNearer DEF CallerStep
  <2>2. CASE RootStep
    BY <2>2, RootNearer
  <2>3. CASE \E s \in WorkerStacks : Begin(s) \/ Work(s)
    BY <2>3, ThreadNearer, StackNames
  <2>4. CASE \E s \in Stacks : Panic(s)
    BY <2>4, ThreadNearer
  <2>5. CASE Enter
    BY <2>5, EnterBegins
  <2>6. CASE Cancel
    BY <2>6 DEF Cancel
  <2>7. CASE DropOutput \/ ForgetOutput \/ Quarantine
    BY <2>7, LentOutside DEF DropOutput, ForgetOutput, Quarantine
  <2> HIDE DEF Nears
  <2> QED
    BY <2>1, <2>2, <2>3, <2>4, <2>5, <2>6, <2>7 DEF Next
<1> QED
  BY <1>1, <1>2, Invariance, PTL DEF Spec, CallsAreFinite

=============================================================================

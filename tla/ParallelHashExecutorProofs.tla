---------------------- MODULE ParallelHashExecutorProofs ----------------------
(***************************************************************************)
(* The safety of ParallelHashExecutor for every number of callers, tokens, *)
(* workers and leaves and every block size, and its refinement of          *)
(* ParallelHashSpec.                                                       *)
(*                                                                         *)
(* Three facts carry the argument.  The gate is held by exactly the caller *)
(* that is inside.  A worker thread exists only between the batch that     *)
(* spawned it and the join that ends it, and the slot of a finished one    *)
(* holds the leaf of its index.  What was absorbed is a prefix of the      *)
(* input, as long as the merged leaves.                                    *)
(***************************************************************************)
EXTENDS ParallelHashExecutor, FiniteSetTheorems, SequenceTheorems, TLAPS

\* The gate is held by the caller that is inside.
Inside == \A c \in Callers : phase[c] # "Idle" <=> gate = c

\* The loops of a call stay within its batch.
LoopFacts(c) ==
  /\ op[c].joined <= op[c].spawned
  /\ phase[c] \in {"Check", "Spawn"} =>
       op[c].joined = 0 /\ op[c].spawned < BatchCount(c)
  /\ phase[c] = "Join" => op[c].spawned <= BatchCount(c)

\* When the worker thread of a slot exists, and what the slot holds.
SlotFacts(c, i) ==
  /\ worker[c][i] # "None" =>
       /\ phase[c] \in {"Check", "Spawn", "Join", "Unwinding"}
       /\ i <= op[c].spawned
       /\ phase[c] = "Join" => op[c].joined < i
  /\ phase[c] \in {"Check", "Spawn", "Join"} /\ op[c].joined < i /\ i <= op[c].spawned =>
       worker[c][i] # "None"
  /\ worker[c][i] = "Done" =>
       slot[c][i] = LeafSlice(op[c].length, op[c].base + i - 1)
  /\ phase[c] = "Idle" => slot[c][i] = <<>>

\* How far a call gets after its token was cancelled.
CancelFacts(c) ==
  /\ op[c].late <= 1
  /\ phase[c] # "Idle" /\ Live(c) => op[c].late = 0
  /\ phase[c] = "Spawn" => op[c].late = 0
  /\ op[c].early => /\ op[c].late = 0 /\ output[c] = <<>>
                    /\ phase[c] \in {"Idle", "Admit"}
                    /\ phase[c] = "Admit" => ~Live(c)

\* The input positions that the first m leaves of an input of length n cover.
Prefix(n) == [k \in 1..n |-> k]
Covered(n, m) == IF m * BlockSize < n THEN m * BlockSize ELSE n

\* What was absorbed is what the merged leaves cover, in order.
PrefixFacts(c) ==
  /\ op[c].merged <= LeafCount(op[c].length)
  /\ op[c].absorbed = Prefix(Covered(op[c].length, op[c].merged))

CallerInv(c) ==
  LoopFacts(c) /\ (\A i \in Slots : SlotFacts(c, i)) /\ CancelFacts(c) /\ PrefixFacts(c)

\* The inductive invariant.
IInv == TypeOK /\ Inside /\ \A c \in Callers : CallerInv(c)

-----------------------------------------------------------------------------
(* Leaves.                                                                 *)

\* A last leaf that is short is counted, and no leaf is empty.
LEMMA LeafCountBounds ==
  ASSUME NEW n \in Nat
  PROVE  /\ LeafCount(n) \in Nat
         /\ n <= LeafCount(n) * BlockSize
         /\ \A m \in Nat : m < LeafCount(n) => m * BlockSize < n
<1> DEFINE q == n \div BlockSize
           r == n % BlockSize
<1>1. BlockSize \in Nat /\ BlockSize > 0
  BY ExecutorAssumption
<1>2. q \in Nat /\ r \in Nat /\ r < BlockSize /\ n = q * BlockSize + r
  BY <1>1
<1>3. CASE r = 0
  <2>1. LeafCount(n) = q
    BY <1>2, <1>3 DEF LeafCount
  <2>2. ASSUME NEW m \in Nat, m < q PROVE m * BlockSize < n
    BY <1>1, <1>2, <2>2
  <2> QED
    BY <1>1, <1>2, <1>3, <2>1, <2>2
<1>4. CASE r # 0
  <2>1. LeafCount(n) = q + 1
    BY <1>2, <1>4 DEF LeafCount
  <2> HIDE DEF q, r
  <2>2. n <= (q + 1) * BlockSize
    BY <1>1, <1>2
  <2>3. ASSUME NEW m \in Nat, m < q + 1 PROVE m * BlockSize < n
    <3>1. m * BlockSize <= q * BlockSize
      BY <1>1, <1>2, <2>3
    <3> QED
      BY <1>1, <1>2, <1>4, <3>1
  <2> QED
    BY <1>1, <1>2, <2>1, <2>2, <2>3
<1> QED
  BY <1>3, <1>4

\* Appending the next leaf to what the leaves before it cover.
LEMMA NextLeaf ==
  ASSUME NEW n \in Nat, NEW m \in Nat, m < LeafCount(n)
  PROVE  Prefix(Covered(n, m)) \o LeafSlice(n, m) = Prefix(Covered(n, m + 1))
<1> DEFINE a == m * BlockSize
           b == IF n - a < BlockSize THEN n - a ELSE BlockSize
<1>1. BlockSize \in Nat /\ BlockSize > 0
  BY ExecutorAssumption
<1>2. a \in Nat /\ a < n
  BY <1>1, LeafCountBounds
<1>3. Covered(n, m) = a
  BY <1>2 DEF Covered
<1>4. (m + 1) * BlockSize = a + BlockSize
  BY <1>1
<1>5. b \in Nat /\ Covered(n, m + 1) = a + b
  BY <1>1, <1>2, <1>4 DEF Covered
<1>6. LeafSlice(n, m) = [k \in 1..b |-> a + k]
  BY DEF LeafSlice
<1> HIDE DEF a, b
<1>7. [k \in 1..a |-> k] \o [k \in 1..b |-> a + k] = [k \in 1..(a + b) |-> k]
  <2> DEFINE s == [k \in 1..a |-> k]
             t == [k \in 1..b |-> a + k]
             u == [k \in 1..(a + b) |-> k]
  <2>1. s \in Seq(Nat) /\ Len(s) = a /\ t \in Seq(Nat) /\ Len(t) = b
    BY <1>2, <1>5
  <2>2. u \in Seq(Nat) /\ Len(u) = a + b
    BY <1>2, <1>5
  <2>3. s \o t \in Seq(Nat) /\ Len(s \o t) = a + b
    BY <2>1, <1>2, <1>5
  <2>4. ASSUME NEW k \in 1..(a + b) PROVE (s \o t)[k] = u[k]
    BY <2>1, <2>4, <1>2, <1>5
  <2> HIDE DEF s, t, u
  <2>5. s \o t = u
    BY <2>2, <2>3, <2>4, <1>2, <1>5, SeqEqual
  <2> QED
    BY <2>5 DEF s, t, u
<1> QED
  BY <1>3, <1>5, <1>6, <1>7 DEF Prefix

\* A leaf is a sequence of positions, whatever its index.
LEMMA LeafSliceType ==
  ASSUME NEW n \in Nat, NEW index \in Nat
  PROVE  LeafSlice(n, index) \in Seq(Nat)
<1> DEFINE a == index * BlockSize
           b == IF n - a < BlockSize THEN n - a ELSE BlockSize
<1>1. BlockSize \in Nat /\ a \in Nat /\ b \in Int
  BY ExecutorAssumption
<1>2. LeafSlice(n, index) = [k \in 1..b |-> a + k]
  BY DEF LeafSlice
<1> HIDE DEF a, b
<1>3. CASE b >= 0
  BY <1>1, <1>2, <1>3
<1>4. CASE b < 0
  <2>1. 1..b = 1..0
    BY <1>1, <1>4
  <2> QED
    BY <1>1, <1>2, <2>1
<1> QED
  BY <1>1, <1>3, <1>4

\* The slots of a batch, and where it ends.
LEMMA BatchBounds ==
  ASSUME TypeOK, NEW c \in Callers
  PROVE  /\ op[c].length \in Nat /\ op[c].base \in Nat
         /\ LeafCount(op[c].length) \in Nat
         /\ BatchCount(c) \in 0..Workers
         /\ op[c].base + BatchCount(c) <= LeafCount(op[c].length)
<1>1. /\ op[c].length \in Nat /\ op[c].base \in Nat
      /\ op[c].base <= LeafCount(op[c].length)
  BY ExecutorAssumption DEF TypeOK
<1>2. LeafCount(op[c].length) \in Nat
  BY <1>1, LeafCountBounds
<1>3. SlotCount(LeafCount(op[c].length)) \in 0..Workers
  BY <1>2, ExecutorAssumption DEF SlotCount
<1> QED
  BY <1>1, <1>2, <1>3, ExecutorAssumption DEF BatchCount

\* Nothing is covered at first.
LEMMA NothingCovered ==
  ASSUME NEW n \in Nat
  PROVE  Prefix(Covered(n, 0)) = <<>> /\ 0 <= LeafCount(n)
<1>1. Covered(n, 0) = 0
  BY ExecutorAssumption DEF Covered
<1>2. Prefix(0) = <<>>
  BY DEF Prefix
<1> QED
  BY <1>1, <1>2, LeafCountBounds

\* A call that starts.
LEMMA NewOperationFacts ==
  ASSUME NEW n \in Lengths, NEW t \in Tokens
  PROVE  /\ NewOperation(n, t).length = n /\ NewOperation(n, t).token = t
         /\ NewOperation(n, t).base = 0
         /\ NewOperation(n, t).spawned = 0 /\ NewOperation(n, t).joined = 0
         /\ NewOperation(n, t).merged = 0 /\ NewOperation(n, t).absorbed = <<>>
         /\ NewOperation(n, t).early => t \in cancelled
         /\ NewOperation(n, t).late = 0
BY DEF NewOperation

-----------------------------------------------------------------------------
(* Invariance.                                                             *)

Operations == [length : Lengths, token : Tokens, base : Nat, spawned : 0..Workers,
               joined : 0..Workers, failure : Errors \cup {"None"}, merged : Nat,
               absorbed : Seq(Nat), early : BOOLEAN, late : Nat]

\* The record of a call that starts has its type.
LEMMA NewOperationType ==
  ASSUME NEW n \in Lengths, NEW t \in Tokens
  PROVE  NewOperation(n, t) \in Operations
BY ExecutorAssumption DEF NewOperation, Operations

\* What is left of a call that ended.
LEMMA ForgottenFacts ==
  ASSUME NEW o \in Operations
  PROVE  /\ Forgotten(o) \in Operations
         /\ Forgotten(o).length = o.length /\ Forgotten(o).token = o.token
         /\ Forgotten(o).base = 0 /\ Forgotten(o).spawned = 0 /\ Forgotten(o).joined = 0
         /\ Forgotten(o).merged = 0 /\ Forgotten(o).absorbed = <<>>
         /\ Forgotten(o).early = o.early /\ Forgotten(o).late = o.late
<1>1. 0 \in 0..Workers /\ <<>> \in Seq(Nat)
  BY ExecutorAssumption
<1> QED
  BY <1>1 DEF Forgotten, Operations

\* The initial states satisfy the inductive invariant.
LEMMA InitIInv == Init => IInv
<1> SUFFICES ASSUME Init PROVE IInv
  OBVIOUS
<1>1. PICK n \in Lengths, t \in Tokens : op = [c \in Callers |-> NewOperation(n, t)]
  BY DEF Init
<1>2. \A c \in Callers : op[c] = NewOperation(n, t)
  BY <1>1
<1>3. op \in [Callers -> Operations]
  BY <1>1, NewOperationType
<1>4. n \in Nat /\ LeafCount(n) \in Nat
  BY ExecutorAssumption, LeafCountBounds
<1>5. TypeOK
  <2>1. slot \in [Callers -> [Slots -> Seq(Nat)]] /\ output \in [Callers -> Seq(Nat)]
    BY DEF Init, Erased
  <2>2. \A c \in Callers : op[c].base <= LeafCount(op[c].length)
    BY <1>2, <1>4, NewOperationFacts
  <2>3. /\ gate \in Callers \cup {"Free", "Poisoned"}
        /\ phase \in [Callers -> Phases]
        /\ worker \in [Callers -> [Slots -> {"None", "Running", "Done", "Failed", "Panicked"}]]
        /\ cancelled \subseteq Tokens
        /\ result \in [Callers -> Errors \cup {"None", "Ok", "Unwound"}]
    BY DEF Init, Phases
  <2> QED
    BY <1>3, <2>1, <2>2, <2>3 DEF TypeOK, Operations
<1>6. Inside
  BY ExecutorAssumption DEF Init, Inside
<1>7. ASSUME NEW c \in Callers PROVE CallerInv(c)
  <2>1. LoopFacts(c)
    BY <1>2, NewOperationFacts DEF Init, LoopFacts
  <2>2. ASSUME NEW i \in Slots PROVE SlotFacts(c, i)
    BY DEF Init, SlotFacts, Erased
  <2>3. CancelFacts(c)
    BY <1>2, NewOperationFacts DEF Init, CancelFacts
  <2>4. PrefixFacts(c)
    BY <1>2, <1>4, NewOperationFacts, NothingCovered DEF PrefixFacts
  <2> QED
    BY <2>1, <2>2, <2>3, <2>4 DEF CallerInv
<1> QED
  BY <1>5, <1>6, <1>7 DEF IInv

\* What is true of a caller stays true in a step that leaves it alone, and a
\* step of one caller leaves the others alone.
LEMMA Others ==
  ASSUME IInv, NEW c \in Callers, TypeOK', Inside', CallerInv(c)', UNCHANGED cancelled,
         \A d \in Callers \ {c} : /\ op'[d] = op[d] /\ phase'[d] = phase[d]
                                  /\ worker'[d] = worker[d] /\ slot'[d] = slot[d]
                                  /\ output'[d] = output[d]
  PROVE  IInv'
<1>1. ASSUME NEW d \in Callers, d # c PROVE CallerInv(d)'
  <2>1. /\ op'[d] = op[d] /\ phase'[d] = phase[d]
        /\ worker'[d] = worker[d] /\ slot'[d] = slot[d]
        /\ output'[d] = output[d] /\ cancelled' = cancelled
    BY <1>1
  <2>2. LoopFacts(d) /\ (\A i \in Slots : SlotFacts(d, i)) /\ CancelFacts(d) /\ PrefixFacts(d)
    BY DEF IInv, CallerInv
  <2>3. LoopFacts(d)'
    BY <2>1, <2>2 DEF LoopFacts, BatchCount
  <2>4. ASSUME NEW i \in Slots PROVE SlotFacts(d, i)'
    <3>1. SlotFacts(d, i)
      BY <2>2
    <3> QED
      BY <2>1, <3>1 DEF SlotFacts
  <2>5. CancelFacts(d)'
    BY <2>1, <2>2 DEF CancelFacts, Live
  <2>6. PrefixFacts(d)'
    BY <2>1, <2>2 DEF PrefixFacts
  <2> QED
    BY <2>3, <2>4, <2>5, <2>6 DEF CallerInv
<1> QED
  BY <1>1 DEF IInv

\* The callers' state has its types.
LEMMA Types ==
  ASSUME IInv, NEW c \in Callers
  PROVE  /\ op \in [Callers -> Operations] /\ op[c] \in Operations
         /\ op[c].length \in Nat /\ op[c].base \in Nat /\ op[c].merged \in Nat
         /\ op[c].spawned \in Nat /\ op[c].joined \in Nat /\ op[c].late \in Nat
         /\ op[c].spawned <= Workers /\ op[c].joined <= Workers
         /\ LeafCount(op[c].length) \in Nat
         /\ BatchCount(c) \in Nat /\ BatchCount(c) <= Workers
         /\ op[c].base + BatchCount(c) <= LeafCount(op[c].length)
         /\ phase \in [Callers -> Phases]
         /\ slot \in [Callers -> [Slots -> Seq(Nat)]]
         /\ output \in [Callers -> Seq(Nat)]
         /\ worker \in [Callers -> [Slots -> {"None", "Running", "Done", "Failed", "Panicked"}]]
         /\ result \in [Callers -> Errors \cup {"None", "Ok", "Unwound"}]
         /\ op[c].base <= LeafCount(op[c].length)
         /\ CallerInv(c)
<1>1. op \in [Callers -> Operations]
  BY DEF IInv, TypeOK, Operations
<1>2. /\ op[c].merged \in Nat /\ op[c].late \in Nat
      /\ op[c].spawned \in 0..Workers /\ op[c].joined \in 0..Workers
  BY <1>1 DEF Operations
<1>3. TypeOK
  BY DEF IInv
<1>4. /\ op[c].spawned \in Nat /\ op[c].joined \in Nat
      /\ op[c].spawned <= Workers /\ op[c].joined <= Workers
      /\ op[c] \in Operations
  BY <1>1, <1>2, ExecutorAssumption
<1>5. /\ op[c].length \in Nat /\ op[c].base \in Nat
      /\ LeafCount(op[c].length) \in Nat
      /\ BatchCount(c) \in Nat /\ BatchCount(c) <= Workers
      /\ op[c].base + BatchCount(c) <= LeafCount(op[c].length)
  BY <1>3, BatchBounds, ExecutorAssumption
<1>6. /\ phase \in [Callers -> Phases]
      /\ slot \in [Callers -> [Slots -> Seq(Nat)]]
      /\ output \in [Callers -> Seq(Nat)]
      /\ worker \in [Callers -> [Slots -> {"None", "Running", "Done", "Failed", "Panicked"}]]
      /\ result \in [Callers -> Errors \cup {"None", "Ok", "Unwound"}]
      /\ op[c].base <= LeafCount(op[c].length)
  BY <1>3 DEF TypeOK
<1>7. CallerInv(c)
  BY DEF IInv
<1> QED
  BY <1>1, <1>2, <1>4, <1>5, <1>6, <1>7

\* A call that ends, by returning or by unwinding, leaves the invariant: no
\* worker of it is left, and what it released is no early call's output.
LEMMA LeaveIInv ==
  ASSUME IInv, NEW c \in Callers, phase[c] # "Idle",
         phase' = [phase EXCEPT ![c] = "Idle"],
         op' = [op EXCEPT ![c] = Forgotten(@)],
         worker' \in [Callers -> [Slots -> {"None", "Running", "Done", "Failed", "Panicked"}]],
         \A i \in Slots : worker'[c][i] = "None",
         \A d \in Callers \ {c} : worker'[d] = worker[d],
         Wipe(c), gate' \in {"Free", "Poisoned"}, UNCHANGED cancelled,
         result' \in [Callers -> Errors \cup {"None", "Ok", "Unwound"}],
         output' \in [Callers -> Seq(Nat)],
         \A d \in Callers \ {c} : output'[d] = output[d],
         op[c].early => output'[c] = output[c]
  PROVE  IInv'
<1>1. op \in [Callers -> Operations]
  BY DEF IInv, TypeOK, Operations
<1>2. /\ op'[c] \in Operations
      /\ op'[c].length = op[c].length /\ op'[c].token = op[c].token
      /\ op'[c].base = 0 /\ op'[c].spawned = 0 /\ op'[c].joined = 0
      /\ op'[c].merged = 0 /\ op'[c].absorbed = <<>>
      /\ op'[c].early = op[c].early /\ op'[c].late = op[c].late
  BY <1>1, ForgottenFacts
<1>3. /\ op' \in [Callers -> Operations]
      /\ \A d \in Callers \ {c} : op'[d] = op[d]
  BY <1>1, <1>2
<1>4. op[c].length \in Nat /\ LeafCount(op[c].length) \in Nat
  BY BatchBounds DEF IInv
<1>5. /\ \A d \in Callers \ {c} : phase'[d] = phase[d] /\ slot'[d] = slot[d]
      /\ phase'[c] = "Idle" /\ slot'[c] = Erased
  BY DEF IInv, TypeOK, Wipe
<1>6. TypeOK'
  <2>1. slot' \in [Callers -> [Slots -> Seq(Nat)]]
    BY DEF IInv, TypeOK, Wipe, Erased
  <2>2. \A d \in Callers : op'[d].base <= LeafCount(op'[d].length)
    BY <1>2, <1>3, <1>4 DEF IInv, TypeOK
  <2> QED
    BY <1>3, <2>1, <2>2 DEF IInv, TypeOK, Operations, Phases
<1>7. Inside'
  BY <1>5, ExecutorAssumption DEF IInv, Inside
<1>8. LoopFacts(c)'
  BY <1>2, <1>5 DEF LoopFacts
<1>9. ASSUME NEW i \in Slots PROVE SlotFacts(c, i)'
  BY <1>5 DEF SlotFacts, Erased
<1>10. CancelFacts(c)'
  BY <1>2, <1>5 DEF IInv, CallerInv, CancelFacts, Live
<1>11. PrefixFacts(c)'
  BY <1>2, <1>4, NothingCovered DEF PrefixFacts
<1>12. CallerInv(c)'
  BY <1>8, <1>9, <1>10, <1>11 DEF CallerInv
<1> QED
  BY <1>3, <1>5, <1>6, <1>7, <1>12, Others

\* Outside the loop of a batch, no worker exists.
LEMMA NoWorkers ==
  ASSUME IInv, NEW c \in Callers, NEW i \in Slots,
         \/ phase[c] \notin {"Check", "Spawn", "Join", "Unwinding"}
         \/ phase[c] = "Join" /\ AllJoined(c)
  PROVE  worker[c][i] = "None"
<1>1. SlotFacts(c, i) /\ op[c].spawned \in Nat
  BY Types DEF CallerInv
<1> QED
  BY <1>1 DEF SlotFacts, AllJoined, Slots

\* An error ends the call.
LEMMA AbandonIInv ==
  ASSUME IInv, NEW c \in Callers, phase[c] # "Idle", NEW r \in Errors, Abandon(c, r),
         \A i \in Slots : worker[c][i] = "None"
  PROVE  IInv'
<1>1. /\ phase' = [phase EXCEPT ![c] = "Idle"] /\ op' = [op EXCEPT ![c] = Forgotten(@)]
      /\ Wipe(c) /\ gate' = "Free"
      /\ worker' = worker /\ cancelled' = cancelled /\ output' = output
      /\ result' = [result EXCEPT ![c] = r]
  BY DEF Abandon, Return
<1>2. /\ worker' \in [Callers -> [Slots -> {"None", "Running", "Done", "Failed", "Panicked"}]]
      /\ output' \in [Callers -> Seq(Nat)]
      /\ result' \in [Callers -> Errors \cup {"None", "Ok", "Unwound"}]
  BY <1>1, Types
<1> QED
  BY <1>1, <1>2, LeaveIInv

\* A thread brings an input and a token, or is turned away.
LEMMA EnterIInv == ASSUME IInv, NEW c \in Callers, Enter(c) PROVE IInv'
<1>1. /\ phase[c] = "Idle" /\ UNCHANGED <<worker, slot, cancelled>>
      /\ output' = [output EXCEPT ![c] = <<>>]
  BY DEF Enter
<1>2. CASE MayEnter
  <2>1. PICK n \in Lengths, t \in Tokens : op' = [op EXCEPT ![c] = NewOperation(n, t)]
    BY <1>2 DEF Enter
  <2>2. /\ gate = "Free" /\ gate' = c
        /\ phase' = [phase EXCEPT ![c] = "Admit"]
        /\ result' = [result EXCEPT ![c] = "None"]
    BY <1>2 DEF Enter, MayEnter
  <2>3. /\ op' \in [Callers -> Operations] /\ op'[c] = NewOperation(n, t)
        /\ \A d \in Callers \ {c} : op'[d] = op[d]
    BY <2>1, Types, NewOperationType
  <2>4. /\ phase'[c] = "Admit" /\ output'[c] = <<>>
        /\ \A d \in Callers \ {c} : phase'[d] = phase[d] /\ output'[d] = output[d]
    BY <1>1, <2>2, Types
  <2>5. n \in Nat /\ LeafCount(n) \in Nat
    BY ExecutorAssumption, LeafCountBounds
  <2>6. TypeOK'
    <3>1. \A d \in Callers : op'[d].base <= LeafCount(op'[d].length)
      <4>1. op'[c].base = 0 /\ op'[c].length = n
        BY <2>3, NewOperationFacts
      <4>2. ASSUME NEW d \in Callers, d # c PROVE op'[d].base <= LeafCount(op'[d].length)
        BY <2>3, <4>2, Types
      <4> QED
        BY <2>5, <4>1, <4>2
    <3>2. output' \in [Callers -> Seq(Nat)]
      BY <1>1, Types
    <3> QED
      BY <1>1, <2>2, <2>3, <3>1, <3>2 DEF IInv, TypeOK, Operations, Phases
  <2>7. Inside'
    BY <1>1, <2>2, <2>4, ExecutorAssumption DEF IInv, Inside
  <2>8. LoopFacts(c)'
    BY <2>3, <2>4, NewOperationFacts DEF LoopFacts
  <2>9. ASSUME NEW i \in Slots PROVE SlotFacts(c, i)'
    BY <1>1, <2>4, NoWorkers DEF SlotFacts
  <2>10. CancelFacts(c)'
    <3>1. /\ op'[c].late = 0 /\ op'[c].token = t /\ cancelled' = cancelled
          /\ op'[c].early => t \in cancelled
      BY <1>1, <2>3, NewOperationFacts
    <3> QED
      BY <2>4, <3>1 DEF CancelFacts, Live
  <2>11. PrefixFacts(c)'
    BY <2>3, <2>5, NewOperationFacts, NothingCovered DEF PrefixFacts
  <2>12. CallerInv(c)'
    BY <2>8, <2>9, <2>10, <2>11 DEF CallerInv
  <2> QED
    BY <1>1, <2>3, <2>4, <2>6, <2>7, <2>12, Others
<1>3. CASE ~MayEnter
  <2>1. /\ UNCHANGED <<gate, phase, op>>
        /\ result' \in [Callers -> Errors \cup {"None", "Ok", "Unwound"}]
    BY <1>3, Types DEF Enter, Errors
  <2>2. output'[c] = <<>> /\ output' \in [Callers -> Seq(Nat)]
    BY <1>1, Types
  <2>3. TypeOK'
    BY <1>1, <2>1, <2>2 DEF IInv, TypeOK
  <2>4. Inside'
    BY <2>1 DEF IInv, Inside
  <2>5. LoopFacts(c)'
    BY <2>1, Types DEF CallerInv, LoopFacts, BatchCount
  <2>6. ASSUME NEW i \in Slots PROVE SlotFacts(c, i)'
    <3>1. SlotFacts(c, i)
      BY Types DEF CallerInv
    <3> QED
      BY <1>1, <2>1, <3>1 DEF SlotFacts
  <2>7. CancelFacts(c)'
    BY <1>1, <2>1, <2>2, Types DEF CallerInv, CancelFacts, Live
  <2>8. PrefixFacts(c)'
    BY <2>1, Types DEF CallerInv, PrefixFacts
  <2>9. CallerInv(c)'
    BY <2>5, <2>6, <2>7, <2>8 DEF CallerInv
  <2> QED
    BY <1>1, <2>1, <2>3, <2>4, <2>9, Types, Others
<1> QED
  BY <1>2, <1>3

\* A step of the calling thread that only moves on, and changes counters of the
\* call, keeps types and gate.
LEMMA MoveOn ==
  ASSUME IInv, NEW c \in Callers, NEW p \in Phases \ {"Idle"}, phase[c] # "Idle",
         Goto(c, p), NEW o \in Operations, op' = [op EXCEPT ![c] = o],
         o.base <= LeafCount(o.length),
         worker' \in [Callers -> [Slots -> {"None", "Running", "Done", "Failed", "Panicked"}]],
         \A d \in Callers \ {c} : worker'[d] = worker[d],
         slot' \in [Callers -> [Slots -> Seq(Nat)]],
         \A d \in Callers \ {c} : slot'[d] = slot[d],
         CallerInv(c)'
  PROVE  IInv'
<1>1. /\ phase' = [phase EXCEPT ![c] = p]
      /\ UNCHANGED <<gate, cancelled, result, output>>
  BY DEF Goto
<1>2. /\ \A d \in Callers \ {c} : op'[d] = op[d] /\ phase'[d] = phase[d]
      /\ op' \in [Callers -> Operations] /\ op'[c] = o /\ phase'[c] = p
      /\ phase' \in [Callers -> Phases]
  BY <1>1, Types
<1>3. TypeOK'
  <2>1. ASSUME NEW d \in Callers PROVE op'[d].base <= LeafCount(op'[d].length)
    BY <1>2, Types
  <2> QED
    BY <1>1, <1>2, <2>1 DEF IInv, TypeOK, Operations
<1>4. Inside'
  BY <1>1, <1>2 DEF IInv, Inside
<1> QED
  BY <1>1, <1>2, <1>3, <1>4, Others

\* A call is planned and admitted, or fails.
LEMMA AdmitIInv == ASSUME IInv, NEW c \in Callers, Admit(c) PROVE IInv'
<1>1. phase[c] = "Admit" /\ \A i \in Slots : worker[c][i] = "None"
  BY NoWorkers DEF Admit
<1>2. CASE \E r \in Errors : Abandon(c, r)
  BY <1>1, <1>2, AbandonIInv
<1>3. CASE Live(c) /\ Goto(c, "Batch") /\ UNCHANGED <<op, worker, slot>>
  <2>1. phase' = [phase EXCEPT ![c] = "Batch"] /\ UNCHANGED <<cancelled, output>>
    BY <1>3 DEF Goto
  <2>2. phase'[c] = "Batch"
    BY <2>1, Types
  <2>3. LoopFacts(c) /\ CancelFacts(c) /\ PrefixFacts(c) /\ \A i \in Slots : SlotFacts(c, i)
    BY Types DEF CallerInv
  <2>4. LoopFacts(c)'
    BY <1>3, <2>2, <2>3 DEF LoopFacts
  <2>5. ASSUME NEW i \in Slots PROVE SlotFacts(c, i)'
    BY <1>1, <1>3, <2>2 DEF SlotFacts
  <2>6. CancelFacts(c)'
    BY <1>1, <1>3, <2>1, <2>2, <2>3 DEF CancelFacts, Live
  <2>7. PrefixFacts(c)'
    BY <1>3, <2>3 DEF PrefixFacts
  <2>8. CallerInv(c)'
    BY <2>4, <2>5, <2>6, <2>7 DEF CallerInv
  <2>9. op' = [op EXCEPT ![c] = op[c]]
    BY <1>3, Types
  <2> QED
    BY <1>1, <1>3, <2>8, <2>9, Types, MoveOn DEF Phases
<1> QED
  BY <1>2, <1>3 DEF Admit, Errors

\* The counters of a call as a batch begins.
LEMMA BatchIInv == ASSUME IInv, NEW c \in Callers, Batch(c) PROVE IInv'
<1>1. phase[c] = "Batch" /\ \A i \in Slots : worker[c][i] = "None"
  BY NoWorkers DEF Batch
<1>2. LoopFacts(c) /\ CancelFacts(c) /\ PrefixFacts(c) /\ ~op[c].early
  BY <1>1, Types DEF CallerInv, CancelFacts
<1>3. CASE op[c].base >= LeafCount(op[c].length)
  <2>1. Goto(c, "Finish") /\ Wipe(c) /\ UNCHANGED <<op, worker>>
    BY <1>1, <1>3 DEF Batch
  <2>2. /\ phase' = [phase EXCEPT ![c] = "Finish"] /\ UNCHANGED <<cancelled, output>>
        /\ slot' = [slot EXCEPT ![c] = Erased]
    BY <2>1 DEF Goto, Wipe
  <2>3. /\ phase'[c] = "Finish" /\ slot' \in [Callers -> [Slots -> Seq(Nat)]]
        /\ \A d \in Callers \ {c} : slot'[d] = slot[d]
    BY <2>2, Types DEF Erased
  <2>4. LoopFacts(c)'
    BY <1>2, <2>1, <2>3 DEF LoopFacts
  <2>5. ASSUME NEW i \in Slots PROVE SlotFacts(c, i)'
    BY <1>1, <2>1, <2>3 DEF SlotFacts
  <2>6. CancelFacts(c)'
    BY <1>1, <1>2, <2>1, <2>2, <2>3 DEF CancelFacts, Live
  <2>7. PrefixFacts(c)'
    BY <1>2, <2>1 DEF PrefixFacts
  <2>8. CallerInv(c)'
    BY <2>4, <2>5, <2>6, <2>7 DEF CallerInv
  <2>9. op' = [op EXCEPT ![c] = op[c]]
    BY <2>1, Types
  <2> QED
    BY <1>1, <2>1, <2>3, <2>8, <2>9, Types, MoveOn DEF Phases
<1>4. CASE op[c].base < LeafCount(op[c].length) /\ \E r \in Errors : Abandon(c, r)
  BY <1>1, <1>4, AbandonIInv
<1>5. CASE /\ op[c].base < LeafCount(op[c].length) /\ Live(c)
           /\ Goto(c, IF BatchCount(c) = 0 THEN "Join" ELSE "Check")
           /\ op' = [op EXCEPT ![c].spawned = 0, ![c].joined = 0]
           /\ UNCHANGED <<worker, slot>>
  <2> DEFINE o == [op[c] EXCEPT !.spawned = 0, !.joined = 0]
             p == IF BatchCount(c) = 0 THEN "Join" ELSE "Check"
  <2>1. /\ o \in Operations /\ o.length = op[c].length /\ o.base = op[c].base
        /\ o.spawned = 0 /\ o.joined = 0 /\ o.merged = op[c].merged
        /\ o.absorbed = op[c].absorbed /\ o.token = op[c].token
        /\ o.late = op[c].late /\ (o.early => op[c].early)
    <3>1. op[c] \in Operations /\ 0 \in 0..Workers
      BY Types, ExecutorAssumption
    <3> QED
      BY <3>1 DEF Operations
  <2>2. op' = [op EXCEPT ![c] = o]
    BY <1>5, Types
  <2> HIDE DEF o
  <2>3. op'[c] = o /\ phase'[c] = p /\ UNCHANGED <<cancelled, output>>
    BY <1>5, <2>2, Types DEF Goto
  <2>4. BatchCount(c)' = BatchCount(c) /\ BatchCount(c) \in Nat
    BY <2>1, <2>3, Types DEF BatchCount
  <2>5. LoopFacts(c)'
    BY <2>1, <2>3, <2>4 DEF LoopFacts
  <2>6. ASSUME NEW i \in Slots PROVE SlotFacts(c, i)'
    BY <1>1, <1>5, <2>1, <2>3 DEF SlotFacts, Slots
  <2>7. CancelFacts(c)'
    BY <1>1, <1>2, <1>5, <2>1, <2>3 DEF CancelFacts, Live
  <2>8. PrefixFacts(c)'
    BY <1>2, <2>1, <2>3 DEF PrefixFacts
  <2>9. CallerInv(c)'
    BY <2>5, <2>6, <2>7, <2>8 DEF CallerInv
  <2>10. p \in Phases \ {"Idle"} /\ o.base <= LeafCount(o.length)
    BY <2>1, Types DEF Phases
  <2> QED
    BY <1>1, <1>5, <2>1, <2>2, <2>9, <2>10, Types, MoveOn
<1>6. op[c].base \in Nat /\ LeafCount(op[c].length) \in Nat
  BY Types
<1> QED
  BY <1>3, <1>4, <1>5, <1>6 DEF Batch, Errors

\* The token is consulted before a worker.
LEMMA CheckIInv == ASSUME IInv, NEW c \in Callers, Check(c) PROVE IInv'
<1>1. phase[c] = "Check" /\ UNCHANGED <<worker, slot>>
  BY DEF Check
<1>2. /\ LoopFacts(c) /\ CancelFacts(c) /\ PrefixFacts(c) /\ ~op[c].early
      /\ \A i \in Slots : SlotFacts(c, i)
  BY <1>1, Types DEF CallerInv, CancelFacts
<1>3. CASE ~Live(c)
  <2> DEFINE o == [op[c] EXCEPT !.failure = "Cancelled"]
  <2>1. /\ o \in Operations /\ o.length = op[c].length /\ o.base = op[c].base
        /\ o.spawned = op[c].spawned /\ o.joined = op[c].joined /\ o.merged = op[c].merged
        /\ o.absorbed = op[c].absorbed /\ o.token = op[c].token
        /\ o.late = op[c].late /\ (o.early => op[c].early)
    <3>1. op[c] \in Operations
      BY Types
    <3> QED
      BY <3>1 DEF Operations, Errors
  <2>2. op' = [op EXCEPT ![c] = o] /\ Goto(c, "Join")
    BY <1>3, Types DEF Check, StopsSpawning
  <2> HIDE DEF o
  <2>3. op'[c] = o /\ phase'[c] = "Join" /\ UNCHANGED <<cancelled, output>>
    BY <2>2, Types DEF Goto
  <2>4. BatchCount(c)' = BatchCount(c) /\ BatchCount(c) \in Nat
    BY <2>1, <2>3, Types DEF BatchCount
  <2>5. LoopFacts(c)'
    BY <1>1, <1>2, <2>1, <2>3, <2>4, Types DEF LoopFacts
  <2>6. ASSUME NEW i \in Slots PROVE SlotFacts(c, i)'
    BY <1>1, <1>2, <2>1, <2>3 DEF SlotFacts, LoopFacts, Slots
  <2>7. CancelFacts(c)'
    BY <1>1, <1>2, <1>3, <2>1, <2>3 DEF CancelFacts, Live
  <2>8. PrefixFacts(c)'
    BY <1>2, <2>1, <2>3 DEF PrefixFacts
  <2>9. CallerInv(c)'
    BY <2>5, <2>6, <2>7, <2>8 DEF CallerInv
  <2>10. o.base <= LeafCount(o.length)
    BY <2>1, Types
  <2> QED
    BY <1>1, <2>1, <2>2, <2>9, <2>10, Types, MoveOn DEF Phases
<1>4. CASE Live(c)
  <2>1. Goto(c, "Spawn") /\ UNCHANGED op
    BY <1>4 DEF Check, StopsSpawning
  <2>2. phase'[c] = "Spawn" /\ UNCHANGED <<cancelled, output>>
    BY <2>1, Types DEF Goto
  <2>3. LoopFacts(c)'
    BY <1>1, <1>2, <2>1, <2>2 DEF LoopFacts, BatchCount
  <2>4. ASSUME NEW i \in Slots PROVE SlotFacts(c, i)'
    BY <1>1, <1>2, <2>1, <2>2 DEF SlotFacts
  <2>5. CancelFacts(c)'
    BY <1>1, <1>2, <1>4, <2>1, <2>2 DEF CancelFacts, Live
  <2>6. PrefixFacts(c)'
    BY <1>2, <2>1 DEF PrefixFacts
  <2>7. CallerInv(c)'
    BY <2>3, <2>4, <2>5, <2>6 DEF CallerInv
  <2>8. op' = [op EXCEPT ![c] = op[c]]
    BY <2>1, Types
  <2> QED
    BY <1>1, <2>1, <2>7, <2>8, Types, MoveOn DEF Phases
<1> QED
  BY <1>3, <1>4

\* A worker starts, spawning it fails, or spawning it unwinds.
LEMMA SpawnIInv == ASSUME IInv, NEW c \in Callers, Spawn(c) PROVE IInv'
<1>1. phase[c] = "Spawn" /\ UNCHANGED slot
  BY DEF Spawn
<1>2. /\ LoopFacts(c) /\ CancelFacts(c) /\ PrefixFacts(c) /\ ~op[c].early
      /\ \A i \in Slots : SlotFacts(c, i)
      /\ op[c].late = 0
  BY <1>1, Types DEF CallerInv, CancelFacts
<1>3. /\ op[c] \in Operations /\ op[c].spawned \in Nat /\ op[c].joined = 0
      /\ op[c].spawned < BatchCount(c) /\ BatchCount(c) \in Nat /\ BatchCount(c) <= Workers
      /\ op[c].base <= LeafCount(op[c].length)
  BY <1>1, <1>2, Types DEF LoopFacts
<1>4. CASE /\ worker' = [worker EXCEPT ![c][op[c].spawned + 1] = "Running"]
           /\ op' = [op EXCEPT ![c] = Started(@, Live(c))]
           /\ Goto(c, IF op[c].spawned + 1 = BatchCount(c) THEN "Join" ELSE "Check")
  <2> DEFINE n == op[c].spawned + 1
             l == IF Live(c) THEN 0 ELSE 1
             p == IF n = BatchCount(c) THEN "Join" ELSE "Check"
             o == Started(op[c], Live(c))
  <2>1. /\ o \in Operations /\ o.length = op[c].length /\ o.base = op[c].base
        /\ o.spawned = n /\ o.joined = 0 /\ o.merged = op[c].merged
        /\ o.absorbed = op[c].absorbed /\ o.token = op[c].token
        /\ o.late = l /\ (o.early => op[c].early)
    <3>1. n \in 0..Workers /\ l \in Nat
      BY <1>3, ExecutorAssumption
    <3>2. o = [op[c] EXCEPT !.spawned = n, !.late = l]
      BY <1>2 DEF Started
    <3> HIDE DEF n, l, o
    <3> QED
      BY <1>3, <3>1, <3>2 DEF Operations
  <2>2. op' = [op EXCEPT ![c] = o]
    BY <1>4
  <2> HIDE DEF o
  <2>3. op'[c] = o /\ phase'[c] = p /\ UNCHANGED <<cancelled, output>>
    BY <1>4, <2>2, Types DEF Goto
  <2>4. BatchCount(c)' = BatchCount(c)
    BY <2>1, <2>3 DEF BatchCount
  <2>5. n \in Slots
    BY <1>3, ExecutorAssumption DEF Slots
  <2>6. /\ worker' \in [Callers -> [Slots -> {"None", "Running", "Done", "Failed", "Panicked"}]]
        /\ \A d \in Callers \ {c} : worker'[d] = worker[d]
        /\ worker'[c][n] = "Running"
        /\ \A i \in Slots \ {n} : worker'[c][i] = worker[c][i]
    BY <1>4, <2>5, Types
  <2>7. LoopFacts(c)'
    BY <1>3, <2>1, <2>3, <2>4 DEF LoopFacts
  <2>8. ASSUME NEW i \in Slots PROVE SlotFacts(c, i)'
    <3>1. i \in Nat /\ i > 0
      BY DEF Slots
    <3>2. CASE i = n
      BY <1>3, <2>1, <2>3, <2>6, <3>1, <3>2 DEF SlotFacts
    <3>3. CASE i # n
      <4>1. worker'[c][i] = worker[c][i] /\ slot'[c][i] = slot[c][i] /\ SlotFacts(c, i)
        BY <1>1, <1>2, <2>6, <3>3
      <4> QED
        BY <1>1, <1>3, <2>1, <2>3, <3>1, <3>3, <4>1 DEF SlotFacts
    <3> QED
      BY <3>2, <3>3
  <2>9. CancelFacts(c)'
    BY <1>2, <2>1, <2>3 DEF CancelFacts, Live
  <2>10. PrefixFacts(c)'
    BY <1>2, <2>1, <2>3 DEF PrefixFacts
  <2>11. CallerInv(c)'
    BY <2>7, <2>8, <2>9, <2>10 DEF CallerInv
  <2>12. p \in Phases \ {"Idle"} /\ o.base <= LeafCount(o.length)
    BY <1>3, <2>1 DEF Phases
  <2> QED
    BY <1>1, <1>4, <2>1, <2>2, <2>6, <2>11, <2>12, Types, MoveOn
<1>5. CASE /\ op' = [op EXCEPT ![c].failure = "ResourceExhausted"]
           /\ Goto(c, "Join") /\ UNCHANGED worker
  <2> DEFINE o == [op[c] EXCEPT !.failure = "ResourceExhausted"]
  <2>1. /\ o \in Operations /\ o.length = op[c].length /\ o.base = op[c].base
        /\ o.spawned = op[c].spawned /\ o.joined = op[c].joined /\ o.merged = op[c].merged
        /\ o.absorbed = op[c].absorbed /\ o.token = op[c].token
        /\ o.late = op[c].late /\ (o.early => op[c].early)
    BY <1>3 DEF Operations, Errors
  <2>2. op' = [op EXCEPT ![c] = o]
    BY <1>5, Types
  <2> HIDE DEF o
  <2>3. op'[c] = o /\ phase'[c] = "Join" /\ UNCHANGED <<cancelled, output>>
    BY <1>5, <2>2, Types DEF Goto
  <2>4. BatchCount(c)' = BatchCount(c)
    BY <2>1, <2>3 DEF BatchCount
  <2>5. LoopFacts(c)'
    BY <1>3, <2>1, <2>3, <2>4 DEF LoopFacts
  <2>6. ASSUME NEW i \in Slots PROVE SlotFacts(c, i)'
    BY <1>1, <1>2, <1>3, <1>5, <2>1, <2>3 DEF SlotFacts, Slots
  <2>7. CancelFacts(c)'
    BY <1>2, <2>1, <2>3 DEF CancelFacts, Live
  <2>8. PrefixFacts(c)'
    BY <1>2, <2>1, <2>3 DEF PrefixFacts
  <2>9. CallerInv(c)'
    BY <2>5, <2>6, <2>7, <2>8 DEF CallerInv
  <2>10. o.base <= LeafCount(o.length)
    BY <1>3, <2>1
  <2> QED
    BY <1>1, <1>5, <2>1, <2>2, <2>9, <2>10, Types, MoveOn DEF Phases
<1>6. CASE Goto(c, "Unwinding") /\ UNCHANGED <<op, worker>>
  <2>1. phase'[c] = "Unwinding" /\ UNCHANGED <<cancelled, output>>
    BY <1>6, Types DEF Goto
  <2>2. LoopFacts(c)'
    BY <1>2, <1>6, <2>1 DEF LoopFacts
  <2>3. ASSUME NEW i \in Slots PROVE SlotFacts(c, i)'
    BY <1>1, <1>2, <1>6, <2>1 DEF SlotFacts
  <2>4. CancelFacts(c)'
    BY <1>2, <1>6, <2>1 DEF CancelFacts, Live
  <2>5. PrefixFacts(c)'
    BY <1>2, <1>6 DEF PrefixFacts
  <2>6. CallerInv(c)'
    BY <2>2, <2>3, <2>4, <2>5 DEF CallerInv
  <2>7. op' = [op EXCEPT ![c] = op[c]]
    BY <1>6, Types
  <2> QED
    BY <1>1, <1>3, <1>6, <2>6, <2>7, Types, MoveOn DEF Phases
<1> QED
  BY <1>4, <1>5, <1>6 DEF Spawn

\* A worker thread ends: what it left in its slot is the leaf of its index, or
\* the thread is marked as failed or panicked.
LEMMA WorkIInv ==
  ASSUME IInv, NEW c \in Callers, NEW i \in Slots, Work(c, i) PROVE IInv'
<1>1. worker[c][i] = "Running" /\ UNCHANGED <<gate, phase, op, cancelled, result, output>>
  BY DEF Work
<1>2. PICK what \in {"Done", "Failed", "Panicked"}, leaf \in Seq(Nat) :
        /\ worker' = [worker EXCEPT ![c][i] = what]
        /\ slot' = [slot EXCEPT ![c][i] = leaf]
        /\ what = "Done" => leaf = LeafSlice(op[c].length, op[c].base + i - 1)
  <2>1. CASE /\ worker' = [worker EXCEPT ![c][i] = "Done"]
             /\ slot' = [slot EXCEPT ![c][i] = LeafSlice(op[c].length, op[c].base + i - 1)]
    <3>1. op[c].base + i - 1 \in Nat
      BY Types DEF Slots
    <3>2. LeafSlice(op[c].length, op[c].base + i - 1) \in Seq(Nat)
      BY <3>1, Types, LeafSliceType
    <3> QED
      BY <2>1, <3>2
  <2>2. CASE worker' = [worker EXCEPT ![c][i] = "Failed"] /\ UNCHANGED slot
    <3>1. slot = [slot EXCEPT ![c][i] = slot[c][i]] /\ slot[c][i] \in Seq(Nat)
      BY Types
    <3> QED
      BY <2>2, <3>1
  <2>3. CASE /\ worker' = [worker EXCEPT ![c][i] = "Panicked"]
             /\ \E left \in {<<>>, Partial} : slot' = [slot EXCEPT ![c][i] = left]
    <3>1. <<>> \in Seq(Nat) /\ Partial \in Seq(Nat)
      BY DEF Partial
    <3> QED
      BY <2>3, <3>1
  <2> QED
    BY <2>1, <2>2, <2>3 DEF Work
<1>3. /\ worker' \in [Callers -> [Slots -> {"None", "Running", "Done", "Failed", "Panicked"}]]
      /\ slot' \in [Callers -> [Slots -> Seq(Nat)]]
      /\ \A d \in Callers \ {c} : worker'[d] = worker[d] /\ slot'[d] = slot[d]
      /\ worker'[c][i] = what /\ slot'[c][i] = leaf
      /\ \A j \in Slots \ {i} : worker'[c][j] = worker[c][j] /\ slot'[c][j] = slot[c][j]
  BY <1>2, Types
<1>4. /\ LoopFacts(c) /\ CancelFacts(c) /\ PrefixFacts(c) /\ \A j \in Slots : SlotFacts(c, j)
  BY Types DEF CallerInv
<1>5. LoopFacts(c)'
  BY <1>1, <1>4 DEF LoopFacts, BatchCount
<1>6. ASSUME NEW j \in Slots PROVE SlotFacts(c, j)'
  <2>1. SlotFacts(c, j) /\ SlotFacts(c, i)
    BY <1>4
  <2>2. CASE j = i
    BY <1>1, <1>2, <1>3, <2>1, <2>2 DEF SlotFacts
  <2>3. CASE j # i
    <3>1. worker'[c][j] = worker[c][j] /\ slot'[c][j] = slot[c][j]
      BY <1>3, <2>3
    <3> QED
      BY <1>1, <2>1, <3>1 DEF SlotFacts
  <2> QED
    BY <2>2, <2>3
<1>7. CancelFacts(c)' /\ PrefixFacts(c)'
  BY <1>1, <1>4 DEF CancelFacts, Live, PrefixFacts
<1>8. CallerInv(c)'
  BY <1>5, <1>6, <1>7 DEF CallerInv
<1>9. TypeOK' /\ Inside'
  BY <1>1, <1>3 DEF IInv, TypeOK, Inside
<1> QED
  BY <1>1, <1>3, <1>8, <1>9, Others

\* The worker that is joined next exists, and its leaf is the one the collector
\* expects.
LEMMA JoinIInv == ASSUME IInv, NEW c \in Callers, Join(c) PROVE IInv'
<1> DEFINE i == op[c].joined + 1
           index == op[c].base + i - 1
<1>1. /\ phase[c] = "Join" /\ ~AllJoined(c)
      /\ worker[c][i] # "Running" /\ worker' = [worker EXCEPT ![c][i] = "None"]
      /\ UNCHANGED <<gate, phase, cancelled, result, output>>
  BY DEF Join
<1>2. /\ LoopFacts(c) /\ CancelFacts(c) /\ PrefixFacts(c) /\ ~op[c].early
      /\ \A j \in Slots : SlotFacts(c, j)
  BY <1>1, Types DEF CallerInv, CancelFacts
<1>3. /\ op[c] \in Operations /\ op[c].joined \in Nat /\ op[c].spawned \in Nat
      /\ i \in Slots /\ i <= op[c].spawned /\ op[c].base \in Nat /\ op[c].merged \in Nat
      /\ index < LeafCount(op[c].length) /\ op[c].length \in Nat
      /\ index \in Nat /\ LeafCount(op[c].length) \in Nat
  <2>1. /\ op[c].joined \in Nat /\ op[c].spawned \in Nat /\ op[c].base \in Nat
        /\ BatchCount(c) \in Nat /\ BatchCount(c) <= Workers
        /\ op[c].base + BatchCount(c) <= LeafCount(op[c].length)
        /\ LeafCount(op[c].length) \in Nat
        /\ op[c] \in Operations /\ op[c].merged \in Nat /\ op[c].length \in Nat
    BY Types
  <2>2. op[c].joined < op[c].spawned /\ op[c].spawned <= BatchCount(c)
    BY <1>1, <1>2, <2>1 DEF LoopFacts, AllJoined
  <2>3. i \in Slots /\ i <= op[c].spawned
    BY <2>1, <2>2, ExecutorAssumption DEF Slots
  <2> QED
    BY <2>1, <2>2, <2>3
<1> HIDE DEF i, index
<1>4. SlotFacts(c, i) /\ worker[c][i] # "None"
  BY <1>1, <1>2, <1>3 DEF SlotFacts, i
<1>5. PICK o \in Operations :
        /\ op' = [op EXCEPT ![c] = o]
        /\ o.length = op[c].length /\ o.token = op[c].token /\ o.base = op[c].base
        /\ o.spawned = op[c].spawned /\ o.joined = i
        /\ o.late = op[c].late /\ o.early = op[c].early
        /\ o.merged <= LeafCount(o.length)
        /\ o.absorbed = Prefix(Covered(o.length, o.merged))
  <2>1. ASSUME NEW r \in Errors,
               op' = [op EXCEPT ![c].joined = i, ![c].failure = FirstFailure(c, r)]
        PROVE  \E o \in Operations :
                 /\ op' = [op EXCEPT ![c] = o]
                 /\ o.length = op[c].length /\ o.token = op[c].token /\ o.base = op[c].base
                 /\ o.spawned = op[c].spawned /\ o.joined = i
                 /\ o.late = op[c].late /\ o.early = op[c].early
                 /\ o.merged <= LeafCount(o.length)
                 /\ o.absorbed = Prefix(Covered(o.length, o.merged))
    <3> DEFINE f == FirstFailure(c, r)
               o == [op[c] EXCEPT !.joined = i, !.failure = f]
    <3>1. f \in Errors \cup {"None"} /\ i \in 0..Workers
      BY <1>3 DEF FirstFailure, Operations, Slots
    <3> HIDE DEF f
    <3>2. op' = [op EXCEPT ![c] = o]
      BY <2>1, Types DEF f
    <3>3. /\ o \in Operations
          /\ o.length = op[c].length /\ o.token = op[c].token /\ o.base = op[c].base
          /\ o.spawned = op[c].spawned /\ o.joined = i
          /\ o.late = op[c].late /\ o.early = op[c].early
          /\ o.merged = op[c].merged /\ o.absorbed = op[c].absorbed
      BY <1>3, <3>1 DEF Operations
    <3> QED
      BY <1>2, <3>2, <3>3 DEF PrefixFacts
  <2>2. ASSUME worker[c][i] = "Done", index = op[c].merged,
               op' = [op EXCEPT ![c] = Merged(@, slot[c][i])]
        PROVE  \E o \in Operations :
                 /\ op' = [op EXCEPT ![c] = o]
                 /\ o.length = op[c].length /\ o.token = op[c].token /\ o.base = op[c].base
                 /\ o.spawned = op[c].spawned /\ o.joined = i
                 /\ o.late = op[c].late /\ o.early = op[c].early
                 /\ o.merged <= LeafCount(o.length)
                 /\ o.absorbed = Prefix(Covered(o.length, o.merged))
    <3> DEFINE n == op[c].length
               a == op[c].absorbed \o slot[c][i]
               o == Merged(op[c], slot[c][i])
    <3>1. slot[c][i] = LeafSlice(n, index) /\ slot[c][i] \in Seq(Nat)
      BY <1>3, <1>4, <2>2, Types DEF SlotFacts, index
    <3>2. a = Prefix(Covered(n, index + 1)) /\ a \in Seq(Nat)
      <4>1. op[c].absorbed = Prefix(Covered(n, index)) /\ op[c].absorbed \in Seq(Nat)
        BY <1>2, <1>3, <2>2 DEF PrefixFacts, Operations
      <4>2. a = Prefix(Covered(n, index + 1))
        BY <1>3, <3>1, <4>1, NextLeaf
      <4>3. op[c].absorbed \o slot[c][i] \in Seq(Nat)
        BY <3>1, <4>1
      <4> QED
        BY <4>2, <4>3
    <3>3. o = [op[c] EXCEPT !.joined = i, !.merged = index + 1, !.absorbed = a]
      BY <2>2 DEF Merged, i
    <3>4. /\ i \in 0..Workers /\ index + 1 \in Nat
          /\ index + 1 <= LeafCount(op[c].length)
      BY <1>3 DEF Slots
    <3> HIDE DEF o, a
    <3>5. /\ o \in Operations
          /\ o.length = op[c].length /\ o.token = op[c].token /\ o.base = op[c].base
          /\ o.spawned = op[c].spawned /\ o.joined = i
          /\ o.late = op[c].late /\ o.early = op[c].early
          /\ o.merged = index + 1 /\ o.absorbed = a
      BY <1>3, <3>2, <3>3, <3>4 DEF Operations
    <3>6. op' = [op EXCEPT ![c] = o]
      BY <2>2 DEF o
    <3> QED
      BY <3>2, <3>4, <3>5, <3>6
  <2>3. worker[c][i] \in {"Done", "Failed", "Panicked"}
    BY <1>1, <1>3, <1>4, Types
  <2>4. \/ \E r \in Errors :
             op' = [op EXCEPT ![c].joined = i, ![c].failure = FirstFailure(c, r)]
        \/ /\ worker[c][i] = "Done" /\ index = op[c].merged
           /\ op' = [op EXCEPT ![c] = Merged(@, slot[c][i])]
    BY <1>1, <2>3 DEF Join, Errors, i, index
  <2> QED
    BY <2>1, <2>2, <2>4
<1>6. slot' = slot \/ slot' = [slot EXCEPT ![c][i] = <<>>]
  BY DEF Join, i
<1>7. /\ worker' \in [Callers -> [Slots -> {"None", "Running", "Done", "Failed", "Panicked"}]]
      /\ \A d \in Callers \ {c} : worker'[d] = worker[d]
      /\ worker'[c][i] = "None"
      /\ \A j \in Slots \ {i} : worker'[c][j] = worker[c][j]
  BY <1>1, <1>3, Types
<1>8. /\ slot' \in [Callers -> [Slots -> Seq(Nat)]]
      /\ \A d \in Callers \ {c} : slot'[d] = slot[d]
      /\ \A j \in Slots \ {i} : slot'[c][j] = slot[c][j]
  <2>1. slot \in [Callers -> [Slots -> Seq(Nat)]] /\ <<>> \in Seq(Nat)
    BY Types
  <2>2. CASE slot' = slot
    BY <2>1, <2>2
  <2>3. CASE slot' = [slot EXCEPT ![c][i] = <<>>]
    BY <1>3, <2>1, <2>3
  <2> QED
    BY <1>6, <2>2, <2>3
<1>9. op'[c] = o /\ BatchCount(c)' = BatchCount(c)
  BY <1>5, Types DEF BatchCount
<1>10. LoopFacts(c)'
  BY <1>1, <1>2, <1>3, <1>5, <1>9 DEF LoopFacts
<1>11. ASSUME NEW j \in Slots PROVE SlotFacts(c, j)'
  <2>1. j \in Nat /\ i \in Nat /\ SlotFacts(c, j) /\ i = op[c].joined + 1
    BY <1>2, <1>3 DEF Slots, i
  <2>2. CASE j = i
    BY <1>1, <1>5, <1>7, <1>9, <2>1, <2>2 DEF SlotFacts
  <2>3. CASE j # i
    <3>1. worker'[c][j] = worker[c][j] /\ slot'[c][j] = slot[c][j]
      BY <1>7, <1>8, <2>3
    <3> QED
      BY <1>1, <1>3, <1>5, <1>9, <2>1, <2>3, <3>1 DEF SlotFacts
  <2> QED
    BY <2>2, <2>3
<1>12. CancelFacts(c)'
  BY <1>1, <1>2, <1>5, <1>9 DEF CancelFacts, Live
<1>13. PrefixFacts(c)'
  BY <1>5, <1>9 DEF PrefixFacts
<1>14. CallerInv(c)'
  BY <1>10, <1>11, <1>12, <1>13 DEF CallerInv
<1>15. Goto(c, "Join") /\ o.base <= LeafCount(o.length)
  BY <1>1, <1>5, Types DEF Goto
<1> QED
  BY <1>1, <1>5, <1>7, <1>8, <1>14, <1>15, MoveOn DEF Phases

\* The batch is over, and so are its workers.
LEMMA EndBatchIInv == ASSUME IInv, NEW c \in Callers, EndBatch(c) PROVE IInv'
<1>1. phase[c] = "Join" /\ AllJoined(c) /\ \A i \in Slots : worker[c][i] = "None"
  BY NoWorkers DEF EndBatch
<1>2. LoopFacts(c) /\ CancelFacts(c) /\ PrefixFacts(c) /\ ~op[c].early
  BY <1>1, Types DEF CallerInv, CancelFacts
<1>3. CASE op[c].failure # "None"
  <2>1. op[c].failure \in Errors
    BY <1>3, Types DEF Operations
  <2> QED
    BY <1>1, <1>3, <2>1, AbandonIInv DEF EndBatch
<1>4. CASE op[c].failure = "None"
  <2> DEFINE b == op[c].base + BatchCount(c)
             o == [op[c] EXCEPT !.base = b]
  <2>1. /\ op' = [op EXCEPT ![c] = o]
        /\ Goto(c, "Batch") /\ UNCHANGED <<worker, slot>>
    BY <1>4, Types DEF EndBatch
  <2>2. b \in Nat /\ b <= LeafCount(op[c].length) /\ op[c] \in Operations
    BY Types
  <2> HIDE DEF b
  <2>3. /\ o \in Operations /\ o.length = op[c].length /\ o.base = b
        /\ o.spawned = op[c].spawned /\ o.joined = op[c].joined /\ o.merged = op[c].merged
        /\ o.absorbed = op[c].absorbed /\ o.token = op[c].token
        /\ o.late = op[c].late /\ o.early = op[c].early
    BY <2>2 DEF Operations
  <2> HIDE DEF o
  <2>4. op'[c] = o /\ phase'[c] = "Batch" /\ UNCHANGED <<cancelled, output>>
    BY <2>1, Types DEF Goto
  <2>5. LoopFacts(c)'
    BY <1>2, <2>3, <2>4 DEF LoopFacts
  <2>6. ASSUME NEW i \in Slots PROVE SlotFacts(c, i)'
    BY <1>1, <2>1, <2>4 DEF SlotFacts
  <2>7. CancelFacts(c)'
    BY <1>1, <1>2, <2>3, <2>4 DEF CancelFacts, Live
  <2>8. PrefixFacts(c)'
    BY <1>2, <2>3, <2>4 DEF PrefixFacts
  <2>9. CallerInv(c)'
    BY <2>5, <2>6, <2>7, <2>8 DEF CallerInv
  <2> QED
    BY <1>1, <2>1, <2>2, <2>3, <2>9, Types, MoveOn DEF Phases
<1> QED
  BY <1>3, <1>4

\* The unwinding thread leaves once none of its workers runs.
LEMMA UnwindIInv == ASSUME IInv, NEW c \in Callers, Unwind(c) PROVE IInv'
<1>1. /\ phase[c] = "Unwinding" /\ phase' = [phase EXCEPT ![c] = "Idle"]
      /\ op' = [op EXCEPT ![c] = Forgotten(@)]
      /\ worker' = [worker EXCEPT ![c] = [i \in Slots |-> "None"]]
      /\ result' = [result EXCEPT ![c] = "Unwound"]
      /\ gate' = "Poisoned" /\ Wipe(c) /\ UNCHANGED <<cancelled, output>>
  BY DEF Unwind
<1>2. /\ worker' \in [Callers -> [Slots -> {"None", "Running", "Done", "Failed", "Panicked"}]]
      /\ \A i \in Slots : worker'[c][i] = "None"
      /\ \A d \in Callers \ {c} : worker'[d] = worker[d]
      /\ result' \in [Callers -> Errors \cup {"None", "Ok", "Unwound"}]
  BY <1>1, Types
<1> QED
  BY <1>1, <1>2, Types, LeaveIInv

\* The last look at the token.
LEMMA FinishIInv == ASSUME IInv, NEW c \in Callers, Finish(c) PROVE IInv'
<1>1. phase[c] = "Finish" /\ \A i \in Slots : worker[c][i] = "None"
  BY NoWorkers DEF Finish
<1>2. LoopFacts(c) /\ CancelFacts(c) /\ PrefixFacts(c)
  BY Types DEF CallerInv
<1>3. CASE Abandon(c, "Cancelled")
  BY <1>1, <1>3, AbandonIInv DEF Errors
<1>4. CASE Live(c) /\ Goto(c, "Release") /\ UNCHANGED <<op, worker, slot>>
  <2>1. phase'[c] = "Release" /\ UNCHANGED <<cancelled, output>>
    BY <1>4, Types DEF Goto
  <2>2. LoopFacts(c)'
    BY <1>2, <1>4, <2>1 DEF LoopFacts
  <2>3. ASSUME NEW i \in Slots PROVE SlotFacts(c, i)'
    BY <1>1, <1>4, <2>1 DEF SlotFacts
  <2>4. CancelFacts(c)'
    BY <1>1, <1>2, <1>4, <2>1 DEF CancelFacts, Live
  <2>5. PrefixFacts(c)'
    BY <1>2, <1>4 DEF PrefixFacts
  <2>6. CallerInv(c)'
    BY <2>2, <2>3, <2>4, <2>5 DEF CallerInv
  <2>7. op' = [op EXCEPT ![c] = op[c]]
    BY <1>4, Types
  <2> QED
    BY <1>1, <1>4, <2>6, <2>7, Types, MoveOn DEF Phases
<1> QED
  BY <1>3, <1>4 DEF Finish

\* The digest is released, or finalizing fails.
LEMMA ReleaseIInv == ASSUME IInv, NEW c \in Callers, Release(c) PROVE IInv'
<1>1. phase[c] = "Release" /\ \A i \in Slots : worker[c][i] = "None"
  BY NoWorkers DEF Release
<1>2. CASE Abandon(c, "Construction")
  BY <1>1, <1>2, AbandonIInv DEF Errors
<1>3. CASE Return(c, "Ok") /\ output' = [output EXCEPT ![c] = op[c].absorbed]
  <2>1. /\ phase' = [phase EXCEPT ![c] = "Idle"] /\ op' = [op EXCEPT ![c] = Forgotten(@)]
        /\ Wipe(c) /\ gate' = "Free"
        /\ worker' = worker /\ cancelled' = cancelled
        /\ result' = [result EXCEPT ![c] = "Ok"]
    BY <1>3 DEF Return
  <2>2. op[c].absorbed \in Seq(Nat) /\ ~op[c].early
    BY <1>1, Types DEF Operations, CallerInv, CancelFacts
  <2>3. /\ worker' \in [Callers -> [Slots -> {"None", "Running", "Done", "Failed", "Panicked"}]]
        /\ output' \in [Callers -> Seq(Nat)]
        /\ \A d \in Callers \ {c} : output'[d] = output[d]
        /\ result' \in [Callers -> Errors \cup {"None", "Ok", "Unwound"}]
    BY <1>3, <2>1, <2>2, Types
  <2> QED
    BY <1>1, <2>1, <2>2, <2>3, LeaveIInv
<1> QED
  BY <1>2, <1>3 DEF Release

\* A token is cancelled at any moment, and renewed when no call uses it.
LEMMA TokenIInv ==
  ASSUME IInv, NEW t \in Tokens, Cancel(t) \/ Renew(t) PROVE IInv'
<1>1. /\ UNCHANGED <<gate, phase, op, worker, slot, result, output>>
      /\ cancelled' \subseteq Tokens
  BY DEF IInv, TypeOK, Cancel, Renew
<1>2. ASSUME NEW c \in Callers PROVE CallerInv(c)'
  <2>1. LoopFacts(c) /\ (\A i \in Slots : SlotFacts(c, i)) /\ CancelFacts(c) /\ PrefixFacts(c)
    BY Types DEF CallerInv
  <2>2. LoopFacts(c)'
    BY <1>1, <2>1 DEF LoopFacts, BatchCount
  <2>3. ASSUME NEW i \in Slots PROVE SlotFacts(c, i)'
    <3>1. SlotFacts(c, i)
      BY <2>1
    <3> QED
      BY <1>1, <3>1 DEF SlotFacts
  <2>4. PrefixFacts(c)'
    BY <1>1, <2>1 DEF PrefixFacts
  <2>5. ASSUME Cancel(t) PROVE CancelFacts(c)'
    <3>1. cancelled' = cancelled \cup {t}
      BY <2>5 DEF Cancel
    <3>2. Live(c)' => Live(c)
      BY <1>1, <3>1 DEF Live
    <3> QED
      BY <1>1, <2>1, <3>2 DEF CancelFacts
  <2>6. ASSUME Renew(t) PROVE CancelFacts(c)'
    <3>1. cancelled' = cancelled \ {t} /\ (phase[c] # "Idle" => op[c].token # t)
      BY <2>6 DEF Renew
    <3>2. phase[c] # "Idle" => (Live(c)' <=> Live(c))
      BY <1>1, <3>1 DEF Live
    <3> QED
      BY <1>1, <2>1, <3>2 DEF CancelFacts
  <2>7. CancelFacts(c)'
    BY <2>5, <2>6
  <2> QED
    BY <2>2, <2>3, <2>4, <2>7 DEF CallerInv
<1>3. TypeOK' /\ Inside'
  BY <1>1 DEF IInv, TypeOK, Inside
<1> QED
  BY <1>2, <1>3 DEF IInv

\* Every step preserves the inductive invariant.
LEMMA NextIInv == ASSUME IInv, [Next]_vars PROVE IInv'
<1>1. ASSUME NEW c \in Callers, Enter(c) PROVE IInv'
  BY <1>1, EnterIInv
<1>2. ASSUME NEW c \in Callers, Step(c) PROVE IInv'
  BY <1>2, AdmitIInv, BatchIInv, CheckIInv, SpawnIInv, JoinIInv, EndBatchIInv, UnwindIInv,
     FinishIInv, ReleaseIInv DEF Step
<1>3. ASSUME NEW c \in Callers, NEW i \in Slots, Work(c, i) PROVE IInv'
  BY <1>3, WorkIInv
<1>4. ASSUME NEW t \in Tokens, Cancel(t) \/ Renew(t) PROVE IInv'
  BY <1>4, TokenIInv
<1>5. CASE UNCHANGED vars
  <2>1. TypeOK' /\ Inside'
    BY <1>5 DEF IInv, TypeOK, Inside, vars
  <2>2. ASSUME NEW c \in Callers PROVE CallerInv(c)'
    <3>1. LoopFacts(c) /\ (\A i \in Slots : SlotFacts(c, i)) /\ CancelFacts(c) /\ PrefixFacts(c)
      BY Types DEF CallerInv
    <3>2. LoopFacts(c)' /\ PrefixFacts(c)'
      BY <1>5, <3>1 DEF LoopFacts, BatchCount, PrefixFacts, vars
    <3>3. ASSUME NEW i \in Slots PROVE SlotFacts(c, i)'
      <4>1. SlotFacts(c, i)
        BY <3>1
      <4> QED
        BY <1>5, <4>1 DEF SlotFacts, vars
    <3>4. CancelFacts(c)'
      BY <1>5, <3>1 DEF CancelFacts, Live, vars
    <3> QED
      BY <3>2, <3>3, <3>4 DEF CallerInv
  <2> QED
    BY <2>1, <2>2 DEF IInv
<1> QED
  BY <1>1, <1>2, <1>3, <1>4, <1>5 DEF Next

\* The inductive invariant of the executor: the gate is held by the caller
\* inside, workers live within their batch, absorbed leaves are a prefix.
THEOREM Invariance == Spec => []IInv
<1>1. Init => IInv
  BY InitIInv
<1>2. IInv /\ [Next]_vars => IInv'
  BY NextIInv
<1> QED
  BY <1>1, <1>2, PTL DEF Spec

\* Every variable keeps its type, and no batch begins beyond the leaves.
THEOREM TypeCorrect == Spec => []TypeOK
<1>1. IInv => TypeOK
  BY DEF IInv
<1> QED
  BY <1>1, Invariance, PTL

\* When a call has returned, no worker of it runs and its storage is erased.
THEOREM NothingOutlives == Spec => []NothingOutlivesTheCall
<1>1. IInv => NothingOutlivesTheCall
  BY DEF IInv, CallerInv, SlotFacts, NothingOutlivesTheCall
<1> QED
  BY <1>1, Invariance, PTL

\* At most one worker starts after the cancellation, and none of a call that
\* was cancelled before it began.
THEOREM Prompt == Spec => []CancellationIsPrompt
<1>1. IInv => CancellationIsPrompt
  BY DEF IInv, CallerInv, CancelFacts, CancellationIsPrompt
<1> QED
  BY <1>1, Invariance, PTL

\* The callers together run no more workers than the executor's bound.
THEOREM Bounded == Spec => []WorkersBounded
<1>1. ASSUME IInv PROVE WorkersBounded
  <2> DEFINE running == { w \in Callers \X Slots : worker[w[1]][w[2]] = "Running" }
  <2>1. running \subseteq {gate} \X Slots
    <3> SUFFICES ASSUME NEW c \in Callers, NEW i \in Slots, worker[c][i] = "Running"
                 PROVE  gate = c
      OBVIOUS
    <3>1. phase[c] # "Idle"
      BY <1>1 DEF IInv, CallerInv, SlotFacts
    <3> QED
      BY <1>1, <3>1 DEF IInv, Inside
  <2>2. IsFiniteSet(Slots) /\ Cardinality(Slots) = Workers
    BY ExecutorAssumption, FS_Interval DEF Slots
  <2>3. IsFiniteSet({gate}) /\ Cardinality({gate}) = 1
    BY FS_Singleton
  <2>4. IsFiniteSet({gate} \X Slots) /\ Cardinality({gate} \X Slots) = Workers
    BY <2>2, <2>3, FS_Product, ExecutorAssumption
  <2>5. Cardinality(running) <= Cardinality({gate} \X Slots)
    BY <2>1, <2>4, FS_Subset
  <2> QED
    BY <2>4, <2>5 DEF WorkersBounded
<1> QED
  BY <1>1, Invariance, PTL

-----------------------------------------------------------------------------
(* Refinement.                                                             *)

\* A step that leaves gate, results, outputs and inputs alone is not seen.
LEMMA Silent ==
  ASSUME UNCHANGED <<gate, result, output>>,
         \A d \in Callers : op'[d].length = op[d].length
  PROVE  UNCHANGED Abstract!vars
BY DEF Abstract!vars

\* A call that returns an error is a failed call.
LEMMA AbandonFails ==
  ASSUME IInv, NEW c \in Callers, phase[c] # "Idle", NEW r \in Errors, Abandon(c, r)
  PROVE  Abstract!Fail(c)
<1>1. /\ op' = [op EXCEPT ![c] = Forgotten(@)] /\ gate' = "Free"
      /\ result' = [result EXCEPT ![c] = r] /\ output' = output
  BY DEF Abandon, Return
<1>2. gate = c
  BY DEF IInv, Inside
<1>3. \A d \in Callers : op'[d].length = op[d].length
  BY <1>1, Types, ForgottenFacts
<1>4. r \in Abstract!Refusals
  BY DEF Errors, Abstract!Refusals
<1> QED
  BY <1>1, <1>2, <1>3, <1>4 DEF Abstract!Fail

\* Entering is entering, or being turned away.
LEMMA EnterAbstract ==
  ASSUME IInv, NEW c \in Callers, Enter(c)
  PROVE  Abstract!Enter(c) \/ Abstract!TurnAway(c)
<1>1. phase[c] = "Idle" /\ output' = [output EXCEPT ![c] = <<>>]
  BY DEF Enter
<1>2. CASE MayEnter
  <2>1. PICK n \in Lengths, t \in Tokens : op' = [op EXCEPT ![c] = NewOperation(n, t)]
    BY <1>2 DEF Enter
  <2>2. gate = "Free" /\ gate' = c /\ result' = [result EXCEPT ![c] = "None"]
    BY <1>2 DEF Enter, MayEnter
  <2>3. op'[c].length = n /\ \A d \in Callers \ {c} : op'[d] = op[d]
    BY <2>1, Types, NewOperationFacts
  <2>4. [d \in Callers |-> op'[d].length] = [[d \in Callers |-> op[d].length] EXCEPT ![c] = n]
    BY <2>3
  <2>5. Abstract!Enter(c)
    BY <1>1, <2>2, <2>4 DEF Abstract!Enter
  <2> QED
    BY <2>5
<1>3. CASE ~MayEnter
  <2>1. gate # "Free" /\ gate # c
    BY <1>1, <1>3, ExecutorAssumption DEF MayEnter, IInv, Inside
  <2>2. /\ UNCHANGED <<gate, op>>
        /\ result' = [result EXCEPT ![c] = IF gate = "Poisoned" THEN "WorkerPanicked"
                                           ELSE "ResourceExhausted"]
    BY <1>3 DEF Enter
  <2>3. Abstract!TurnAway(c)
    BY <1>1, <2>1, <2>2 DEF Abstract!TurnAway
  <2> QED
    BY <2>3
<1> QED
  BY <1>2, <1>3

\* Every leaf was merged, so what is released is everything.
LEMMA ReleaseAbstract ==
  ASSUME IInv, NEW c \in Callers, Release(c)
  PROVE  Abstract!Fail(c) \/ Abstract!Succeed(c)
<1>1. phase[c] = "Release"
  BY DEF Release
<1>2. CASE Abandon(c, "Construction")
  BY <1>1, <1>2, AbandonFails DEF Errors
<1>3. CASE /\ op[c].merged = LeafCount(op[c].length) /\ Return(c, "Ok")
           /\ output' = [output EXCEPT ![c] = op[c].absorbed]
  <2>1. /\ op' = [op EXCEPT ![c] = Forgotten(@)] /\ gate' = "Free"
        /\ result' = [result EXCEPT ![c] = "Ok"]
    BY <1>3 DEF Return
  <2>2. gate = c
    BY <1>1 DEF IInv, Inside
  <2>3. \A d \in Callers : op'[d].length = op[d].length
    BY <2>1, Types, ForgottenFacts
  <2>4. op[c].absorbed = Prefix(op[c].length)
    <3>1. op[c].length \in Nat /\ op[c].absorbed = Prefix(Covered(op[c].length, op[c].merged))
      BY Types DEF CallerInv, PrefixFacts
    <3>2. Covered(op[c].length, op[c].merged) = op[c].length
      <4>1. /\ LeafCount(op[c].length) * BlockSize \in Nat
            /\ op[c].length <= LeafCount(op[c].length) * BlockSize
        BY <3>1, LeafCountBounds, ExecutorAssumption
      <4> QED
        BY <1>3, <3>1, <4>1 DEF Covered
    <3> QED
      BY <3>1, <3>2
  <2>5. op[c].absorbed = Abstract!Whole([d \in Callers |-> op[d].length][c])
    BY <2>4 DEF Prefix, Abstract!Whole
  <2>6. Abstract!Succeed(c)
    BY <1>3, <2>1, <2>2, <2>3, <2>5 DEF Abstract!Succeed
  <2> QED
    BY <2>6
<1> QED
  BY <1>2, <1>3 DEF Release

\* A call that unwinds leaves the abstract executor unusable, too.
LEMMA UnwindAbstract ==
  ASSUME IInv, NEW c \in Callers, Unwind(c) PROVE Abstract!Unwind(c)
<1>1. /\ phase[c] = "Unwinding" /\ op' = [op EXCEPT ![c] = Forgotten(@)]
      /\ result' = [result EXCEPT ![c] = "Unwound"]
      /\ gate' = "Poisoned" /\ output' = output
  BY DEF Unwind
<1>2. gate = c
  BY <1>1 DEF IInv, Inside
<1>3. \A d \in Callers : op'[d].length = op[d].length
  BY <1>1, Types, ForgottenFacts
<1> QED
  BY <1>1, <1>2, <1>3 DEF Abstract!Unwind

\* The other steps of the calling thread are not seen, or end in an error.
LEMMA WorkingAbstract ==
  ASSUME IInv, NEW c \in Callers,
         Admit(c) \/ Batch(c) \/ Check(c) \/ Spawn(c) \/ Join(c) \/ EndBatch(c) \/ Finish(c)
  PROVE  Abstract!Fail(c) \/ UNCHANGED Abstract!vars
<1>1. op \in [Callers -> Operations] /\ op[c] \in Operations
  BY Types
<1>2. phase[c] # "Idle"
  BY DEF Admit, Batch, Check, Spawn, Join, EndBatch, Finish
<1>3. CASE \E r \in Errors : Abandon(c, r)
  BY <1>2, <1>3, AbandonFails
<1>4. CASE op' = op /\ UNCHANGED <<gate, result, output>>
  BY <1>4, Silent
<1>5. CASE Admit(c)
  BY <1>3, <1>4, <1>5 DEF Admit, Errors, Goto
<1>6. CASE Finish(c)
  BY <1>3, <1>4, <1>6 DEF Finish, Errors, Goto
<1>7. CASE Batch(c)
  <2>1. CASE /\ op' = [op EXCEPT ![c].spawned = 0, ![c].joined = 0]
             /\ UNCHANGED <<gate, result, output>>
    <3>1. \A d \in Callers : op'[d].length = op[d].length
      BY <1>1, <2>1 DEF Operations
    <3> QED
      BY <2>1, <3>1, Silent
  <2> QED
    BY <1>3, <1>4, <1>7, <2>1 DEF Batch, Errors, Goto
<1>8. ASSUME NEW r \in Errors, op' = [op EXCEPT ![c].failure = r],
             UNCHANGED <<gate, result, output>>
      PROVE  UNCHANGED Abstract!vars
  <2>1. \A d \in Callers : op'[d].length = op[d].length
    BY <1>1, <1>8 DEF Operations
  <2> QED
    BY <1>8, <2>1, Silent
<1>9. CASE Check(c)
  BY <1>4, <1>8, <1>9 DEF Check, Errors, Goto
<1>10. CASE Spawn(c)
  <2>1. CASE op' = [op EXCEPT ![c] = Started(@, Live(c))] /\ UNCHANGED <<gate, result, output>>
    <3>1. Started(op[c], Live(c)).length = op[c].length
      BY <1>1 DEF Started, Operations
    <3>2. \A d \in Callers : op'[d].length = op[d].length
      BY <1>1, <2>1, <3>1
    <3> QED
      BY <2>1, <3>2, Silent
  <2> QED
    BY <1>4, <1>8, <1>10, <2>1 DEF Spawn, Errors, Goto
<1>11. CASE Join(c)
  <2> DEFINE i == op[c].joined + 1
  <2>1. UNCHANGED <<gate, result, output>>
    BY <1>11 DEF Join
  <2>2. ASSUME NEW f, op' = [op EXCEPT ![c].joined = i, ![c].failure = f]
        PROVE  \A d \in Callers : op'[d].length = op[d].length
    BY <1>1, <2>2 DEF Operations
  <2>3. ASSUME op' = [op EXCEPT ![c] = Merged(@, slot[c][i])]
        PROVE  \A d \in Callers : op'[d].length = op[d].length
    <3>1. Merged(op[c], slot[c][i]).length = op[c].length
      BY <1>1 DEF Merged, Operations
    <3> QED
      BY <1>1, <2>3, <3>1
  <2>4. \/ \E r \in Errors : op' = [op EXCEPT ![c].joined = i, ![c].failure = FirstFailure(c, r)]
        \/ op' = [op EXCEPT ![c] = Merged(@, slot[c][i])]
    BY <1>11 DEF Join, Errors
  <2>5. \A d \in Callers : op'[d].length = op[d].length
    BY <2>2, <2>3, <2>4
  <2> QED
    BY <2>1, <2>5, Silent
<1>12. CASE EndBatch(c)
  <2>1. CASE op[c].failure # "None"
    <3>1. op[c].failure \in Errors
      BY <1>1, <2>1 DEF Operations
    <3> QED
      BY <1>3, <1>12, <2>1, <3>1 DEF EndBatch
  <2>2. CASE op[c].failure = "None"
    <3>1. /\ op' = [op EXCEPT ![c].base = @ + BatchCount(c)]
          /\ UNCHANGED <<gate, result, output>>
      BY <1>12, <2>2 DEF EndBatch, Goto
    <3>2. \A d \in Callers : op'[d].length = op[d].length
      BY <1>1, <3>1 DEF Operations
    <3> QED
      BY <3>1, <3>2, Silent
  <2> QED
    BY <2>1, <2>2
<1> QED
  BY <1>5, <1>6, <1>7, <1>9, <1>10, <1>11, <1>12

\* Every step of the executor is a step of the abstract one, or is not seen.
LEMMA NextAbstract ==
  ASSUME IInv, [Next]_vars PROVE [Abstract!Next]_(Abstract!vars)
<1>1. ASSUME NEW c \in Callers, Enter(c) PROVE [Abstract!Next]_(Abstract!vars)
  BY <1>1, EnterAbstract DEF Abstract!Next
<1>2. ASSUME NEW c \in Callers, Step(c) PROVE [Abstract!Next]_(Abstract!vars)
  <2>1. CASE Release(c)
    BY <2>1, ReleaseAbstract DEF Abstract!Next
  <2>2. CASE Unwind(c)
    BY <2>2, UnwindAbstract DEF Abstract!Next
  <2>3. CASE Admit(c) \/ Batch(c) \/ Check(c) \/ Spawn(c) \/ Join(c) \/ EndBatch(c) \/ Finish(c)
    BY <2>3, WorkingAbstract DEF Abstract!Next
  <2> QED
    BY <1>2, <2>1, <2>2, <2>3 DEF Step
<1>3. ASSUME NEW c \in Callers, NEW i \in Slots, Work(c, i)
      PROVE  [Abstract!Next]_(Abstract!vars)
  BY <1>3, Silent DEF Work
<1>4. ASSUME NEW t \in Tokens, Cancel(t) \/ Renew(t)
      PROVE  [Abstract!Next]_(Abstract!vars)
  BY <1>4, Silent DEF Cancel, Renew
<1>5. CASE UNCHANGED vars
  BY <1>5, Silent DEF vars
<1> QED
  BY <1>1, <1>2, <1>3, <1>4, <1>5 DEF Next

\* The executor implements ParallelHashSpec: one call at a time, the whole
\* digest or nothing, and no call gets in after one of them unwound.
THEOREM Implements == Spec => ImplementsSpec
<1>1. Init => Abstract!Init
  <2> SUFFICES ASSUME Init PROVE Abstract!Init
    OBVIOUS
  <2>1. PICK n \in Lengths, t \in Tokens : op = [c \in Callers |-> NewOperation(n, t)]
    BY DEF Init
  <2>2. [c \in Callers |-> op[c].length] \in [Callers -> Lengths]
    BY <2>1, NewOperationFacts
  <2> QED
    BY <2>2 DEF Init, Abstract!Init
<1>2. IInv /\ [Next]_vars => [Abstract!Next]_(Abstract!vars)
  BY NextAbstract
<1> QED
  BY <1>1, <1>2, Invariance, PTL DEF Spec, ImplementsSpec, Abstract!Spec

-----------------------------------------------------------------------------
(* Calls are finite.                                                       *)

Running(c) == { i \in Slots : worker[c][i] = "Running" }

\* The leaves beyond the batch that the call is in.
Later(c) == LeafCount(op[c].length) - op[c].base - BatchCount(c)

\* The most steps that a call's own thread can still take: four for a leaf
\* (check, spawn, work, join), two for a batch, three to finish.
Ahead(c) ==
  CASE phase[c] = "Admit" -> 6 * LeafCount(op[c].length) + 4
    [] phase[c] = "Batch" -> 6 * (LeafCount(op[c].length) - op[c].base) + 3
    [] phase[c] = "Check" -> 6 * Later(c) + 4 * (BatchCount(c) - op[c].spawned) + op[c].spawned + 4
    [] phase[c] = "Spawn" -> 6 * Later(c) + 4 * (BatchCount(c) - op[c].spawned) + op[c].spawned + 3
    [] phase[c] = "Join"  -> 6 * Later(c) + op[c].spawned - op[c].joined + 4
    [] phase[c] = "Finish" -> 2
    [] phase[c] \in {"Release", "Unwinding"} -> 1
    [] OTHER -> 0

\* The same of the call with its workers.
StepsLeft(c) == Ahead(c) + Cardinality(Running(c))

Unmoved(c) ==
  /\ phase'[c] = phase[c] /\ op'[c] = op[c] /\ worker'[c] = worker[c] /\ slot'[c] = slot[c]

\* Every step of the system, whoever takes it, leaves a call as it is or brings
\* it nearer to its end; a call begins with six steps for each leaf and four more.
CallsAreFinite ==
  [][\A c \in Callers :
       \/ Unmoved(c)
       \/ phase[c] # "Idle" /\ StepsLeft(c)' < StepsLeft(c)
       \/ phase[c] = "Idle" /\ StepsLeft(c)' = 6 * LeafCount(op'[c].length) + 4]_vars

\* How many workers run: no more than before, or one more.
LEMMA FewerRun ==
  ASSUME NEW S, NEW T, IsFiniteSet(S), T \subseteq S
  PROVE  IsFiniteSet(T) /\ Cardinality(T) <= Cardinality(S)
         /\ Cardinality(T) \in Nat /\ Cardinality(S) \in Nat
BY FS_Subset, FS_CardinalityType

LEMMA RunningIsFinite ==
  ASSUME NEW c PROVE IsFiniteSet(Running(c)) /\ Cardinality(Running(c)) \in Nat
<1>1. IsFiniteSet(Slots)
  BY ExecutorAssumption, FS_Interval DEF Slots
<1> QED
  BY <1>1, FewerRun DEF Running

\* A call is ahead of its end by a number.
LEMMA AheadIsNatural ==
  ASSUME IInv, NEW c \in Callers
  PROVE  Ahead(c) \in Nat /\ StepsLeft(c) \in Nat
<1>1. /\ op[c].spawned \in Nat /\ op[c].joined \in Nat /\ op[c].joined <= op[c].spawned
      /\ phase[c] \in {"Check", "Spawn"} => op[c].spawned < BatchCount(c)
      /\ op[c].base \in Nat /\ BatchCount(c) \in Nat /\ LeafCount(op[c].length) \in Nat
      /\ op[c].base + BatchCount(c) <= LeafCount(op[c].length)
      /\ op[c].base <= LeafCount(op[c].length)
  BY Types DEF CallerInv, LoopFacts
<1>2. Later(c) \in Nat
  BY <1>1 DEF Later
<1>3. Ahead(c) \in Nat
  BY <1>1, <1>2 DEF Ahead
<1> QED
  BY <1>3, RunningIsFinite DEF StepsLeft

\* The thread comes nearer to its end, and no worker starts.
LEMMA Nearer ==
  ASSUME IInv, NEW c \in Callers, Ahead(c)' \in Int, Ahead(c)' < Ahead(c),
         Running(c)' \subseteq Running(c)
  PROVE  StepsLeft(c)' < StepsLeft(c)
<1>1. /\ Cardinality(Running(c)') <= Cardinality(Running(c))
      /\ Cardinality(Running(c)') \in Nat /\ Cardinality(Running(c)) \in Nat
  BY RunningIsFinite, FewerRun
<1> QED
  BY <1>1, AheadIsNatural DEF StepsLeft

\* A call that ends is nearer to its end.
LEMMA EndIsNearer ==
  ASSUME IInv, NEW c \in Callers, phase[c] # "Idle", phase' = [phase EXCEPT ![c] = "Idle"],
         Running(c)' \subseteq Running(c)
  PROVE  StepsLeft(c)' < StepsLeft(c)
<1>1. /\ op[c].spawned \in Nat /\ op[c].joined \in Nat /\ op[c].joined <= op[c].spawned
      /\ phase[c] \in {"Check", "Spawn"} => op[c].spawned < BatchCount(c)
      /\ op[c].base \in Nat /\ BatchCount(c) \in Nat /\ LeafCount(op[c].length) \in Nat
      /\ op[c].base + BatchCount(c) <= LeafCount(op[c].length)
      /\ op[c].base <= LeafCount(op[c].length) /\ phase \in [Callers -> Phases]
  BY Types DEF CallerInv, LoopFacts
<1>2. Later(c) \in Nat
  BY <1>1 DEF Later
<1>3. Ahead(c) > 0
  BY <1>1, <1>2 DEF Ahead, Phases
<1>4. Ahead(c)' = 0
  BY <1>1 DEF Ahead
<1> QED
  BY <1>3, <1>4, Nearer, AheadIsNatural

LEMMA StepNearer ==
  ASSUME IInv, NEW c \in Callers, Step(c)
  PROVE  phase[c] # "Idle" /\ StepsLeft(c)' < StepsLeft(c)
<1> DEFINE leaves == LeafCount(op[c].length)
           n == BatchCount(c)
           s == op[c].spawned
           j == op[c].joined
<1>1. /\ s \in Nat /\ j \in Nat /\ j <= s /\ op[c].base \in Nat /\ n \in Nat /\ leaves \in Nat
      /\ phase[c] \in {"Check", "Spawn"} => j = 0 /\ s < n
      /\ op[c].base + n <= leaves /\ op[c].base <= leaves
      /\ phase \in [Callers -> Phases] /\ op \in [Callers -> Operations] /\ op[c] \in Operations
  BY Types DEF CallerInv, LoopFacts
<1>2. Later(c) \in Nat /\ Later(c) = leaves - op[c].base - n
  BY <1>1 DEF Later
<1>3. phase[c] # "Idle"
  BY DEF Step, Admit, Batch, Check, Spawn, Join, EndBatch, Unwind, Finish, Release
<1> SUFFICES StepsLeft(c)' < StepsLeft(c)
  BY <1>3
<1>4. ASSUME phase' = [phase EXCEPT ![c] = "Idle"], worker' = worker
      PROVE  StepsLeft(c)' < StepsLeft(c)
  BY <1>3, <1>4, EndIsNearer DEF Running
<1>5. ASSUME NEW r, Abandon(c, r) PROVE StepsLeft(c)' < StepsLeft(c)
  BY <1>4, <1>5 DEF Abandon, Return
<1>6. CASE Admit(c)
  <2>1. CASE Goto(c, "Batch") /\ UNCHANGED <<op, worker, slot>>
    <3>1. phase'[c] = "Batch" /\ op'[c] = op[c] /\ Running(c)' = Running(c)
      BY <1>1, <2>1 DEF Goto, Running
    <3>2. Ahead(c)' = 6 * (leaves - op[c].base) + 3 /\ Ahead(c) = 6 * leaves + 4
      BY <3>1, <1>6 DEF Ahead, Admit
    <3> QED
      BY <1>1, <3>1, <3>2, Nearer
  <2> QED
    BY <1>5, <1>6, <2>1 DEF Admit
<1>7. CASE Batch(c)
  <2>0. Ahead(c) = 6 * (leaves - op[c].base) + 3
    BY <1>7 DEF Ahead, Batch
  <2>1. CASE Goto(c, "Finish") /\ UNCHANGED <<op, worker>>
    <3>1. phase'[c] = "Finish" /\ op'[c] = op[c] /\ Running(c)' = Running(c)
      BY <1>1, <2>1 DEF Goto, Running
    <3>2. Ahead(c)' = 2
      BY <3>1 DEF Ahead
    <3> QED
      BY <1>1, <2>0, <3>1, <3>2, Nearer
  <2>2. CASE /\ op[c].base < leaves
             /\ Goto(c, IF BatchCount(c) = 0 THEN "Join" ELSE "Check")
             /\ op' = [op EXCEPT ![c].spawned = 0, ![c].joined = 0]
             /\ UNCHANGED <<worker, slot>>
    <3>1. n > 0
      BY <1>1, <2>2, ExecutorAssumption DEF BatchCount, SlotCount
    <3>2. /\ phase'[c] = "Check" /\ Running(c)' = Running(c)
          /\ op'[c].spawned = 0 /\ op'[c].base = op[c].base /\ op'[c].length = op[c].length
      BY <1>1, <2>2, <3>1 DEF Goto, Running, Operations
    <3>3. Later(c)' = Later(c) /\ BatchCount(c)' = n
      BY <3>2 DEF Later, BatchCount
    <3>4. Ahead(c)' = 6 * Later(c) + 4 * n + 4
      BY <1>1, <1>2, <3>2, <3>3 DEF Ahead
    <3> HIDE DEF n, leaves
    <3> QED
      BY <1>1, <1>2, <2>0, <3>1, <3>2, <3>4, Nearer
  <2> QED
    BY <1>1, <1>5, <1>7, <2>1, <2>2 DEF Batch
<1>8. CASE Check(c)
  <2>0. Ahead(c) = 6 * Later(c) + 4 * (n - s) + s + 4
    BY <1>8 DEF Ahead, Check
  <2>1. CASE Goto(c, "Spawn") /\ UNCHANGED <<op, worker>>
    <3>1. phase'[c] = "Spawn" /\ op'[c] = op[c] /\ Running(c)' = Running(c)
      BY <1>1, <2>1 DEF Goto, Running
    <3>2. Ahead(c)' = 6 * Later(c) + 4 * (n - s) + s + 3
      BY <3>1 DEF Ahead, Later, BatchCount
    <3> QED
      BY <1>1, <1>2, <1>8, <2>0, <3>1, <3>2, Nearer DEF Check
  <2>2. CASE op' = [op EXCEPT ![c].failure = "Cancelled"] /\ Goto(c, "Join") /\ UNCHANGED worker
    <3>1. /\ phase'[c] = "Join" /\ Running(c)' = Running(c)
          /\ op'[c].spawned = s /\ op'[c].joined = j
          /\ op'[c].base = op[c].base /\ op'[c].length = op[c].length
      BY <1>1, <2>2 DEF Goto, Running, Operations
    <3>2. Ahead(c)' = 6 * Later(c) + s - j + 4
      BY <3>1 DEF Ahead, Later, BatchCount
    <3> QED
      BY <1>1, <1>2, <1>8, <2>0, <3>1, <3>2, Nearer DEF Check
  <2> QED
    BY <1>8, <2>1, <2>2 DEF Check
<1>9. CASE Spawn(c)
  <2>0. Ahead(c) = 6 * Later(c) + 4 * (n - s) + s + 3 /\ j = 0 /\ s < n
    BY <1>1, <1>9 DEF Ahead, Spawn
  <2>1. CASE /\ worker' = [worker EXCEPT ![c][op[c].spawned + 1] = "Running"]
             /\ op' = [op EXCEPT ![c] = Started(@, Live(c))]
             /\ Goto(c, IF op[c].spawned + 1 = BatchCount(c) THEN "Join" ELSE "Check")
    <3>1. /\ phase'[c] = (IF s + 1 = n THEN "Join" ELSE "Check")
          /\ op'[c].spawned = s + 1 /\ op'[c].joined = 0
          /\ op'[c].base = op[c].base /\ op'[c].length = op[c].length
      BY <1>1, <2>0, <2>1 DEF Goto, Started, Operations
    <3>2. Later(c)' = Later(c) /\ BatchCount(c)' = n
      BY <3>1 DEF Later, BatchCount
    <3>3. Ahead(c)' \in Int /\ Ahead(c)' + 1 < Ahead(c)
      BY <1>1, <1>2, <2>0, <3>1, <3>2 DEF Ahead
    <3>4. Running(c)' \subseteq Running(c) \cup {s + 1}
      BY <2>1, Types DEF Running
    <3>5. /\ IsFiniteSet(Running(c) \cup {s + 1})
          /\ Cardinality(Running(c) \cup {s + 1}) <= Cardinality(Running(c)) + 1
      <4> HIDE DEF s
      <4>1. Cardinality(Running(c)) \in Nat /\ IsFiniteSet(Running(c))
        BY RunningIsFinite
      <4> QED
        BY <4>1, FS_AddElement
    <3>6. /\ Cardinality(Running(c)') <= Cardinality(Running(c) \cup {s + 1})
          /\ Cardinality(Running(c)') \in Nat /\ Cardinality(Running(c) \cup {s + 1}) \in Nat
      BY <3>4, <3>5, FewerRun
    <3> QED
      BY <1>3, <3>3, <3>5, <3>6, AheadIsNatural, RunningIsFinite DEF StepsLeft
  <2>2. CASE op' = [op EXCEPT ![c].failure = "ResourceExhausted"] /\ Goto(c, "Join")
             /\ UNCHANGED worker
    <3>1. /\ phase'[c] = "Join" /\ Running(c)' = Running(c)
          /\ op'[c].spawned = s /\ op'[c].joined = j
          /\ op'[c].base = op[c].base /\ op'[c].length = op[c].length
      BY <1>1, <2>2 DEF Goto, Running, Operations
    <3>2. Ahead(c)' = 6 * Later(c) + s - j + 4
      BY <3>1 DEF Ahead, Later, BatchCount
    <3> QED
      BY <1>1, <1>2, <2>0, <3>1, <3>2, Nearer
  <2>3. CASE Goto(c, "Unwinding") /\ UNCHANGED <<op, worker>>
    <3>1. phase'[c] = "Unwinding" /\ Running(c)' = Running(c)
      BY <1>1, <2>3 DEF Goto, Running
    <3>2. Ahead(c)' = 1
      BY <3>1 DEF Ahead
    <3> QED
      BY <1>1, <1>2, <2>0, <3>1, <3>2, Nearer
  <2> QED
    BY <1>9, <2>1, <2>2, <2>3 DEF Spawn
<1>10. CASE Join(c)
  <2>0. Ahead(c) = 6 * Later(c) + s - j + 4
    BY <1>10 DEF Ahead, Join
  <2>1. /\ op'[c].joined = j + 1 /\ op'[c].spawned = s
        /\ op'[c].base = op[c].base /\ op'[c].length = op[c].length
    <3>1. CASE \E r : op' = [op EXCEPT ![c].joined = j + 1, ![c].failure = FirstFailure(c, r)]
      BY <1>1, <3>1 DEF Operations
    <3>2. CASE \E leaf : op' = [op EXCEPT ![c] = Merged(@, leaf)]
      BY <1>1, <3>2 DEF Merged, Operations
    <3> QED
      BY <1>10, <3>1, <3>2 DEF Join
  <2>2. phase' = phase /\ worker' = [worker EXCEPT ![c][op[c].joined + 1] = "None"]
    BY <1>10 DEF Join
  <2>3. Running(c)' \subseteq Running(c)
    BY <2>2, Types DEF Running
  <2>4. Ahead(c)' = 6 * Later(c) + s - (j + 1) + 4
    BY <1>10, <2>1, <2>2 DEF Ahead, Later, BatchCount, Join
  <2> QED
    BY <1>1, <1>2, <1>3, <2>0, <2>3, <2>4, Nearer
<1>11. CASE EndBatch(c)
  <2>0. Ahead(c) = 6 * Later(c) + s - j + 4
    BY <1>11 DEF Ahead, EndBatch
  <2>1. CASE /\ op' = [op EXCEPT ![c].base = @ + BatchCount(c)]
             /\ Goto(c, "Batch") /\ UNCHANGED <<worker, slot>>
    <3>1. /\ phase'[c] = "Batch" /\ Running(c)' = Running(c)
          /\ op'[c].base = op[c].base + n /\ op'[c].length = op[c].length
      BY <1>1, <2>1 DEF Goto, Running, Operations
    <3>2. Ahead(c)' = 6 * (leaves - (op[c].base + n)) + 3
      BY <3>1 DEF Ahead
    <3> HIDE DEF n, leaves, s, j
    <3> QED
      BY <1>1, <1>2, <2>0, <3>1, <3>2, Nearer
  <2> QED
    BY <1>5, <1>11, <2>1 DEF EndBatch
<1>12. CASE Unwind(c)
  <2>1. phase' = [phase EXCEPT ![c] = "Idle"] /\ worker' = [worker EXCEPT ![c] = [i \in Slots |-> "None"]]
    BY <1>12 DEF Unwind
  <2>2. Running(c)' \subseteq Running(c)
    BY <2>1, Types DEF Running
  <2> QED
    BY <1>3, <2>1, <2>2, EndIsNearer
<1>13. CASE Finish(c)
  <2>1. CASE Goto(c, "Release") /\ UNCHANGED <<op, worker, slot>>
    <3>1. phase'[c] = "Release" /\ Running(c)' = Running(c)
      BY <1>1, <2>1 DEF Goto, Running
    <3>2. Ahead(c)' = 1 /\ Ahead(c) = 2
      BY <3>1, <1>13 DEF Ahead, Finish
    <3> QED
      BY <3>1, <3>2, Nearer
  <2> QED
    BY <1>5, <1>13, <2>1 DEF Finish
<1>14. CASE Release(c)
  BY <1>4, <1>5, <1>14 DEF Release, Return
<1> QED
  BY <1>3, <1>6, <1>7, <1>8, <1>9, <1>10, <1>11, <1>12, <1>13, <1>14 DEF Step

\* A worker that ends is one step fewer; its call is not idle.
LEMMA WorkNearer ==
  ASSUME IInv, NEW c \in Callers, NEW i \in Slots, Work(c, i)
  PROVE  phase[c] # "Idle" /\ StepsLeft(c)' < StepsLeft(c)
<1>1. worker[c][i] = "Running" /\ UNCHANGED <<phase, op>>
  BY DEF Work
<1>2. phase[c] # "Idle"
  BY <1>1, Types DEF CallerInv, SlotFacts
<1>3. \E w \in {"Done", "Failed", "Panicked"} : worker' = [worker EXCEPT ![c][i] = w]
  BY DEF Work
<1>4. Running(c)' = Running(c) \ {i} /\ i \in Running(c)
  BY <1>1, <1>3, Types DEF Running
<1>5. /\ Cardinality(Running(c)') = Cardinality(Running(c)) - 1
      /\ Cardinality(Running(c)) \in Nat
  BY <1>4, RunningIsFinite, FS_RemoveElement
<1>6. Ahead(c)' = Ahead(c)
  BY <1>1 DEF Ahead, Later, BatchCount
<1> QED
  BY <1>2, <1>5, <1>6, AheadIsNatural DEF StepsLeft

\* A step of one caller or of its workers does not move another call.
LEMMA StepsApart ==
  ASSUME IInv, NEW c \in Callers, NEW d \in Callers, d # c,
         Enter(c) \/ Step(c) \/ \E i \in Slots : Work(c, i)
  PROVE  Unmoved(d)
<1>1. /\ phase \in [Callers -> Phases] /\ op \in [Callers -> Operations]
      /\ slot \in [Callers -> [Slots -> Seq(Nat)]]
      /\ worker \in [Callers -> [Slots -> {"None", "Running", "Done", "Failed", "Panicked"}]]
  BY Types
<1>2. ASSUME NEW r, Return(c, r) PROVE Unmoved(d)
  BY <1>1, <1>2 DEF Return, Wipe, Unmoved
<1>3. ASSUME NEW r, Abandon(c, r) PROVE Unmoved(d)
  BY <1>2, <1>3 DEF Abandon
<1>4. CASE Enter(c)
  BY <1>1, <1>4 DEF Enter, Unmoved
<1>5. CASE Admit(c) \/ Finish(c) \/ Release(c)
  BY <1>1, <1>2, <1>3, <1>5 DEF Admit, Finish, Release, Goto, Unmoved
<1>6. CASE Batch(c)
  BY <1>1, <1>3, <1>6 DEF Batch, Goto, Wipe, Unmoved
<1>7. CASE Check(c) \/ Spawn(c)
  BY <1>1, <1>7 DEF Check, Spawn, Goto, Unmoved
<1>8. CASE Join(c)
  <2>1. phase' = phase /\ op'[d] = op[d]
    BY <1>1, <1>8 DEF Join
  <2>2. worker'[d] = worker[d] /\ slot'[d] = slot[d]
    BY <1>1, <1>8 DEF Join
  <2> QED
    BY <2>1, <2>2 DEF Unmoved
<1>9. CASE EndBatch(c)
  BY <1>1, <1>3, <1>9 DEF EndBatch, Goto, Unmoved
<1>10. CASE Unwind(c)
  BY <1>1, <1>10 DEF Unwind, Wipe, Unmoved
<1>11. CASE \E i \in Slots : Work(c, i)
  BY <1>1, <1>11 DEF Work, Unmoved
<1> QED
  BY <1>4, <1>5, <1>6, <1>7, <1>8, <1>9, <1>10, <1>11 DEF Step

\* A call begins with its whole input ahead of it.
LEMMA EnterBegins ==
  ASSUME IInv, NEW c \in Callers, Enter(c)
  PROVE  /\ phase[c] = "Idle"
         /\ Unmoved(c) \/ StepsLeft(c)' = 6 * LeafCount(op'[c].length) + 4
<1>1. phase[c] = "Idle" /\ UNCHANGED <<worker, slot>>
  BY DEF Enter
<1>2. CASE ~MayEnter
  BY <1>1, <1>2 DEF Enter, Unmoved
<1>3. CASE MayEnter
  <2>1. PICK n \in Lengths, t \in Tokens : op' = [op EXCEPT ![c] = NewOperation(n, t)]
    BY <1>3 DEF Enter
  <2>2. phase' = [phase EXCEPT ![c] = "Admit"]
    BY <1>3 DEF Enter
  <2>3. phase'[c] = "Admit" /\ op'[c].length = n
    BY <2>1, <2>2, Types DEF NewOperation
  <2>4. Running(c)' = {}
    BY <1>1, NoWorkers DEF Running
  <2>5. LeafCount(n) \in Nat
    BY LeafCountBounds, ExecutorAssumption
  <2>6. Ahead(c)' = 6 * LeafCount(n) + 4
    BY <2>3 DEF Ahead
  <2> QED
    BY <1>1, <2>3, <2>4, <2>5, <2>6, FS_EmptySet DEF StepsLeft
<1> QED
  BY <1>1, <1>2, <1>3

\* Calls are finite, for any numbers of callers, workers and leaves: what
\* EveryCallReturns needs of the code beside the fairness of its threads.
THEOREM Finite == Spec => [](\A c \in Callers : StepsLeft(c) \in Nat) /\ CallsAreFinite
<1> DEFINE Nears(c) ==
      \/ Unmoved(c)
      \/ phase[c] # "Idle" /\ StepsLeft(c)' < StepsLeft(c)
      \/ phase[c] = "Idle" /\ StepsLeft(c)' = 6 * LeafCount(op'[c].length) + 4
<1>1. IInv => \A c \in Callers : StepsLeft(c) \in Nat
  BY AheadIsNatural
<1>2. IInv /\ [Next]_vars => [\A c \in Callers : Nears(c)]_vars
  <2> SUFFICES ASSUME IInv, Next, NEW d \in Callers PROVE Nears(d)
    OBVIOUS
  <2>1. ASSUME NEW c \in Callers, Enter(c) \/ Step(c) \/ \E i \in Slots : Work(c, i)
        PROVE  Nears(d)
    <3>1. CASE d = c
      BY <2>1, <3>1, EnterBegins, StepNearer, WorkNearer
    <3>2. CASE d # c
      BY <2>1, <3>2, StepsApart
    <3> QED
      BY <3>1, <3>2
  <2>2. ASSUME NEW t \in Tokens, Cancel(t) \/ Renew(t) PROVE Nears(d)
    BY <2>2 DEF Cancel, Renew, Unmoved
  <2> HIDE DEF Nears
  <2> QED
    BY <2>1, <2>2 DEF Next
<1> QED
  BY <1>1, <1>2, Invariance, PTL DEF Spec, CallsAreFinite

=============================================================================

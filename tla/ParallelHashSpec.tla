--------------------------- MODULE ParallelHashSpec ---------------------------
(***************************************************************************)
(* What ParallelHashExecutor promises the threads that share it: one call  *)
(* at a time, and each call releases the whole digest or nothing of it.    *)
(* The digest is the sequence of input positions that were absorbed.       *)
(***************************************************************************)
EXTENDS Naturals

CONSTANTS
  Callers,   \* the threads that share one executor
  Lengths    \* the lengths of the inputs they bring

VARIABLES
  gate,     \* "Free", the caller inside, or "Poisoned"
  length,   \* the input a caller brought to its last admitted call
  result,   \* the result of a caller's last call; "None" while it runs
  output    \* what that call released; empty if nothing

vars == <<gate, length, result, output>>

Refusals == {"Construction", "Cancelled", "WorkLimitExceeded", "ResourceExhausted",
             "WorkerPanicked"}

\* Everything there is to absorb, in order.
Whole(n) == [k \in 1..n |-> k]

Init ==
  /\ gate = "Free"
  /\ length \in [Callers -> Lengths]
  /\ result = [c \in Callers |-> "None"]
  /\ output = [c \in Callers |-> <<>>]

Enter(c) ==
  /\ gate = "Free" /\ gate' = c
  /\ \E n \in Lengths : length' = [length EXCEPT ![c] = n]
  /\ result' = [result EXCEPT ![c] = "None"]
  /\ output' = [output EXCEPT ![c] = <<>>]

\* A call while another is inside, or after one of them unwound, does nothing.
TurnAway(c) ==
  /\ gate # "Free" /\ gate # c
  /\ result' = [result EXCEPT ![c] = IF gate = "Poisoned" THEN "WorkerPanicked"
                                     ELSE "ResourceExhausted"]
  /\ output' = [output EXCEPT ![c] = <<>>]
  /\ UNCHANGED <<gate, length>>

Succeed(c) ==
  /\ gate = c /\ gate' = "Free"
  /\ result' = [result EXCEPT ![c] = "Ok"]
  /\ output' = [output EXCEPT ![c] = Whole(length[c])]
  /\ UNCHANGED length

Fail(c) ==
  /\ gate = c /\ gate' = "Free"
  /\ \E r \in Refusals : result' = [result EXCEPT ![c] = r]
  /\ UNCHANGED <<length, output>>

\* The calling thread unwinds out of the call: the executor is unusable.
Unwind(c) ==
  /\ gate = c /\ gate' = "Poisoned"
  /\ result' = [result EXCEPT ![c] = "Unwound"]
  /\ UNCHANGED <<length, output>>

Next == \E c \in Callers : Enter(c) \/ TurnAway(c) \/ Succeed(c) \/ Fail(c) \/ Unwind(c)

Spec == Init /\ [][Next]_vars

=============================================================================

--------------------------- MODULE PendingOperation ---------------------------
(***************************************************************************)
(* Ownership of one pending provider operation                             *)
(* (brynja-core/src/pending/lifecycle.rs, request.rs, provider_request.rs).*)
(*                                                                         *)
(* A caller owns either an admitted PendingRequest or a live               *)
(* PendingOperation.  begin, resume and cancel consume what the caller     *)
(* owns, call out to the provider's effect, and hand ownership back or     *)
(* destroy the provider state.  Every call into the effect may return any  *)
(* of its results or unwind; between two such calls nothing else runs, so  *)
(* a step of this module ends where the next call into the effect begins.  *)
(*                                                                         *)
(* Left out: the payloads (frame, operation, resource name, failure detail)*)
(* and the destruction cause, none of which any branch of the code reads;  *)
(* mem::forget of an operation, which the language always permits.         *)
(***************************************************************************)
EXTENDS Naturals

CONSTANTS
  EffectAttempts,          \* PendingLimits::effect_attempts
  BackpressureResponses,   \* PendingLimits::backpressure_responses
  WorkLimit,               \* provider.work().limit()
  MaxUnits                 \* the largest charge a cost callback proposes

ASSUME LimitsAssumption ==
  /\ EffectAttempts \in Nat \ {0}
  /\ BackpressureResponses \in Nat \ {0}
  /\ WorkLimit \in Nat
  /\ MaxUnits \in Nat \ {0}

VARIABLES
  pc,            \* where control is: in the caller, or at a call to the effect
  call,          \* the caller's call in progress, or the last one
  held,          \* what the caller owns between calls
  request,       \* the request: kind, declared targets, its own counters, meter
  attempts,      \* PendingOperation::attempts
  backpressure,  \* PendingOperation::backpressure
  resource,      \* the provider state made for this request, as it really is
  outcome,       \* what the call in progress will return; at "Idle", returned
  report,        \* the failure handler's record for this request
  effects,       \* history: begin, resume and cancel effects run
  pushed         \* history: backpressure results handed to the caller

vars == <<pc, call, held, request, attempts, backpressure, resource, outcome,
          report, effects, pushed>>

-----------------------------------------------------------------------------
(* Requests and their admission.                                           *)

Kinds == {"Certificate", "Signature", "Accelerator"}
Targets == {"ExternalStore", "Accelerator"}
Capabilities == {"PendingPoll", "PendingCancel"}

RequiredTargets(kind) ==
  CASE kind = "Certificate" -> {}
    [] kind = "Signature"   -> {"ExternalStore"}
    [] kind = "Accelerator" -> {"Accelerator"}

Admissible(kind, capabilities, targets) ==
  /\ Capabilities \subseteq capabilities
  /\ RequiredTargets(kind) \subseteq targets

Admitted == { a \in Kinds \X SUBSET Targets :
                \E capabilities \in SUBSET Capabilities :
                   Admissible(a[1], capabilities, a[2]) }

NewRequest(kind, targets) ==
  [kind |-> kind, targets |-> targets, attempts |-> 0, backpressure |-> 0,
   remaining |-> WorkLimit]

Init ==
  /\ pc = "Idle" /\ call = "None" /\ held = "Request" /\ outcome = "None"
  /\ \E a \in Admitted : request = NewRequest(a[1], a[2])
  /\ attempts = 0 /\ backpressure = 0
  /\ resource = "None" /\ report = "None"
  /\ effects = 0 /\ pushed = 0

\* The caller admits a fresh request once it owns nothing of the last one.
Admit ==
  /\ pc = "Idle" /\ held = "Nothing"
  /\ \E a \in Admitted : request' = NewRequest(a[1], a[2])
  /\ held' = "Request" /\ call' = "None" /\ outcome' = "None"
  /\ attempts' = 0 /\ backpressure' = 0
  /\ resource' = "None" /\ report' = "None"
  /\ effects' = 0 /\ pushed' = 0
  /\ UNCHANGED pc

-----------------------------------------------------------------------------
(* Charging before an effect.                                              *)

\* The checks a call makes before it may run an effect, in the code's order:
\* the identity, the attempt bound, the cost callback, a nonzero charge, the
\* identity again, the meter.  Every callback among them may unwind.
Refusals(used) ==
  {"ProviderMismatch", "Unwound"} \cup
  IF used + 1 > EffectAttempts
  THEN {"EffectAttemptsExhausted"}
  ELSE {"Provider", "InvalidWorkCharge"} \cup
       IF request.remaining < MaxUnits THEN {"WorkExhausted"} ELSE {}

\* Fault: a zero charge is accepted.
ChargesWithZero(used) == { u \in 0..MaxUnits : u <= request.remaining /\ used + 1 <= EffectAttempts }

\* The charges that pass every check of a call that has used `used' attempts.
Charges(used) == { u \in 1..MaxUnits : u <= request.remaining /\ used + 1 <= EffectAttempts }

\* An effect runs: history only, counted up to one more than the limit allows.
RunEffect == effects' = IF effects > EffectAttempts THEN effects ELSE effects + 1

-----------------------------------------------------------------------------
(* PendingOperation::begin                                                 *)

\* Fault: the operation starts its own backpressure count afresh.
AdoptCountersAfresh == attempts' = request'.attempts /\ backpressure' = 0

\* The operation takes the request's counters over.
AdoptCounters == attempts' = request'.attempts /\ backpressure' = request.backpressure

\* Up to and including prepare_state, which may also fail or unwind.  No
\* provider state exists yet, so a refusal just drops the request.
Begin ==
  /\ pc = "Idle" /\ held = "Request"
  /\ call' = "Begin" /\ held' = "Nothing"
  /\ \/ /\ outcome' \in Refusals(request.attempts)
        /\ UNCHANGED <<pc, request, attempts, backpressure, resource>>
     \/ \E units \in Charges(request.attempts) :
          LET charged == [request EXCEPT !.attempts = @ + 1, !.remaining = @ - units]
          IN \/ /\ outcome' = "None" /\ pc' = "Activate" /\ resource' = "Inert"
                /\ request' = charged /\ AdoptCounters
             \/ /\ outcome' \in {"Provider", "Unwound"} /\ request' = charged
                /\ UNCHANGED <<pc, attempts, backpressure, resource>>
  /\ UNCHANGED <<report, effects, pushed>>

\* From the recheck of the identity, with prepared state owned by the operation.
Activate ==
  /\ pc = "Activate"
  /\ \/ /\ outcome' = "ProviderMismatch" /\ pc' = "Destroy"
        /\ UNCHANGED <<held, resource, effects>>
     \/ /\ outcome' = "Unwound" /\ pc' = "Drop"
        /\ UNCHANGED <<held, resource, effects>>
     \/ /\ outcome' = "Active" /\ held' = "Operation" /\ pc' = "Idle"
        /\ resource' = "Active" /\ RunEffect
     \/ /\ outcome' \in {"Retry", "Backpressure"} /\ pc' = "Destroy"
        /\ RunEffect /\ UNCHANGED <<held, resource>>
     \/ /\ outcome' = "Provider" /\ pc' = "Destroy"
        /\ resource' \in {"Inert", "Active"} /\ RunEffect /\ UNCHANGED held
     \/ /\ outcome' = "Unwound" /\ pc' = "Drop"
        /\ resource' \in {"Inert", "Active"} /\ RunEffect /\ UNCHANGED held
  /\ UNCHANGED <<call, request, attempts, backpressure, report, pushed>>

-----------------------------------------------------------------------------
(* PendingOperation::resume and PendingOperation::cancel                   *)

\* Both calls up to the effect: a refusal destroys the provider state.
Precharge(name) ==
  /\ pc = "Idle" /\ held = "Operation"
  /\ call' = name /\ held' = "Nothing"
  /\ \/ /\ outcome' \in Refusals(attempts)
        /\ pc' = IF outcome' = "Unwound" THEN "Drop" ELSE "Destroy"
        /\ UNCHANGED <<request, attempts>>
     \/ \E units \in Charges(attempts) :
          /\ request' = [request EXCEPT !.remaining = @ - units]
          /\ attempts' = attempts + 1
          /\ outcome' = "None" /\ pc' = "Effect"
  /\ UNCHANGED <<backpressure, resource, report, effects, pushed>>

\* One more backpressure response stays within the limit.
RoomForBackpressure(recorded) == recorded + 1 <= BackpressureResponses

\* record_backpressure of an operation: hand it back, or give it up.
StepBackpressure ==
  IF RoomForBackpressure(backpressure)
  THEN /\ backpressure' = backpressure + 1 /\ pushed' = pushed + 1
       /\ outcome' = "Backpressure" /\ held' = "Operation" /\ pc' = "Idle"
  ELSE /\ outcome' = "BackpressureExhausted" /\ pc' = "Destroy"
       /\ UNCHANGED <<backpressure, pushed, held>>

\* The effect's failure, or its unwinding: the state is still owned.
StepFailed ==
  \/ outcome' = "Provider" /\ pc' = "Destroy"
  \/ outcome' = "Unwound" /\ pc' = "Drop"

\* Fault: completion is reported without destroying the provider state.
FinishUndestroyed(result) == outcome' = result /\ pc' = "Idle"

\* finish_complete, finish_canceled: the result waits for destruction.
Finish(result) == outcome' = result /\ pc' = "Destroy"

ResumeEffect ==
  /\ pc = "Effect" /\ call = "Resume" /\ RunEffect
  /\ \/ /\ outcome' \in {"Active", "Retry"} /\ held' = "Operation" /\ pc' = "Idle"
        /\ UNCHANGED <<backpressure, pushed>>
     \/ StepBackpressure
     \/ (Finish("Complete") \/ StepFailed) /\ UNCHANGED <<held, backpressure, pushed>>
  /\ UNCHANGED <<call, request, attempts, resource, report>>

CancelEffect ==
  /\ pc = "Effect" /\ call = "Cancel" /\ RunEffect
  /\ \/ /\ outcome' = "Retry" /\ held' = "Operation" /\ pc' = "Idle"
        /\ UNCHANGED <<backpressure, pushed>>
     \/ StepBackpressure
     \/ (Finish("Canceled") \/ StepFailed) /\ UNCHANGED <<held, backpressure, pushed>>
  /\ UNCHANGED <<call, request, attempts, resource, report>>

-----------------------------------------------------------------------------
(* Destruction and Drop.                                                   *)

\* Fault: a recovered request forgets what its attempt cost.
RecoveredAfresh(pushedBack) ==
  [request EXCEPT !.attempts = 0, !.remaining = WorkLimit,
                  !.backpressure = IF pushedBack THEN @ + 1 ELSE @]

\* The request recover_request gives back: attempts and work stay charged.
Recovered(pushedBack) == [request EXCEPT !.backpressure = IF pushedBack THEN @ + 1 ELSE @]

\* The state is gone: return the outcome, and the request if begin recovered it.
ReturnDestroyed ==
  IF call = "Begin" /\ outcome \in {"Retry", "Backpressure"}
  THEN LET back == outcome = "Backpressure"
       IN IF back /\ ~RoomForBackpressure(request.backpressure)
          THEN /\ outcome' = "BackpressureExhausted"
               /\ UNCHANGED <<held, request, pushed>>
          ELSE /\ held' = "Request" /\ request' = Recovered(back)
               /\ pushed' = IF back THEN pushed + 1 ELSE pushed
               /\ UNCHANGED outcome
  ELSE UNCHANGED <<held, outcome, request, pushed>>

\* A failed destruction leaves the state to the operation's own Drop.
AfterFailedDestroy == pc' = "Drop"

\* Fault: the state is not taken out of the operation after it was destroyed.
AfterDestroyUntaken == pc' = "Drop"

\* A completed destruction empties the operation; its Drop then does nothing.
AfterDestroy == pc' = "Idle"

\* effect.destroy for every cause but Drop.
Destroy ==
  /\ pc = "Destroy"
  /\ \/ resource' = "None" /\ AfterDestroy /\ ReturnDestroyed
     \/ /\ outcome' = "Destruction" /\ AfterFailedDestroy
        /\ UNCHANGED <<held, request, resource, pushed>>
     \/ /\ outcome' = "Unwound" /\ pc' = "Drop"
        /\ UNCHANGED <<held, request, resource, pushed>>
  /\ UNCHANGED <<call, attempts, backpressure, report, effects>>

\* The caller drops what it owns; an operation still holds provider state.
Discard ==
  /\ pc = "Idle" /\ held # "Nothing"
  /\ call' = "Drop" /\ held' = "Nothing" /\ outcome' = "Dropped"
  /\ pc' = IF held = "Operation" THEN "Drop" ELSE "Idle"
  /\ UNCHANGED <<request, attempts, backpressure, resource, report, effects, pushed>>

\* Fault: Drop ignores the failure of its destruction.
AfterFailedDropSilent == pc' = "Idle"

\* Fault: Drop tries to destroy again until it succeeds.
AfterFailedDropRetry == pc' = "Destroy"

\* A failure inside Drop goes to handle_drop_failure.
AfterFailedDrop == pc' = "Handle"

\* Drop of the operation: one more effect.destroy.  If it unwinds while the
\* thread is unwinding already, the process aborts; otherwise the state is
\* lost with the frame and the handler is not reached.
DropDestroy ==
  /\ pc = "Drop"
  /\ \/ resource' = "None" /\ pc' = "Idle" /\ UNCHANGED outcome
     \/ AfterFailedDrop /\ UNCHANGED <<resource, outcome>>
     \/ /\ pc' = IF outcome = "Unwound" THEN "Aborted" ELSE "Idle"
        /\ outcome' = "Unwound" /\ UNCHANGED resource
  /\ UNCHANGED <<call, held, request, attempts, backpressure, report, effects, pushed>>

\* handle_drop_failure makes the failure durable and returns, or stops the process.
HandleDropFailure ==
  /\ pc = "Handle" /\ report' = "DropFailure" /\ pc' \in {"Idle", "Aborted"}
  /\ UNCHANGED <<call, held, request, attempts, backpressure, resource, outcome,
                 effects, pushed>>

\* An aborted process takes no further step.
Halted == pc = "Aborted" /\ UNCHANGED vars

-----------------------------------------------------------------------------
Resume == Precharge("Resume")
Cancel == Precharge("Cancel")

\* Steps of the thread that is inside a call.
Inside == Activate \/ ResumeEffect \/ CancelEffect \/ Destroy \/ DropDestroy \/ HandleDropFailure

Next == Admit \/ Begin \/ Resume \/ Cancel \/ Discard \/ Inside \/ Halted

Spec == Init /\ [][Next]_vars

\* A call that was entered keeps running: the effect's calls are bounded by
\* contract (effect.rs) and nothing else can hold the calling thread.
FairSpec == Spec /\ WF_vars(Inside)

\* A caller that also keeps driving what it owns instead of keeping it idle.
DrivenSpec == FairSpec /\ WF_vars(Begin) /\ WF_vars(Resume)

-----------------------------------------------------------------------------
(* Properties.                                                             *)

Refused == {"ProviderMismatch", "Provider", "WorkExhausted", "InvalidWorkCharge",
            "EffectAttemptsExhausted", "BackpressureExhausted"}
Outcomes == Refused \cup {"None", "Active", "Retry", "Backpressure", "Complete",
                          "Canceled", "Destruction", "Dropped", "Unwound"}
Requests == [kind : Kinds, targets : SUBSET Targets, attempts : 0..EffectAttempts,
             backpressure : 0..BackpressureResponses, remaining : 0..WorkLimit]

\* Every variable keeps its type; the counters of the request and of the
\* operation stay within the caller's PendingLimits.
TypeOK ==
  /\ pc \in {"Idle", "Activate", "Effect", "Destroy", "Drop", "Handle", "Aborted"}
  /\ call \in {"None", "Begin", "Resume", "Cancel", "Drop"}
  /\ held \in {"Nothing", "Request", "Operation"}
  /\ request \in Requests
  /\ attempts \in 0..EffectAttempts
  /\ backpressure \in 0..BackpressureResponses
  /\ resource \in {"None", "Inert", "Active"}
  /\ outcome \in Outcomes
  /\ report \in {"None", "DropFailure"}
  /\ effects \in Nat /\ pushed \in Nat

\* A result that promises the provider state is gone is only returned when it
\* is: completion, cancellation, every failure but a destruction failure, and a
\* request handed back for another begin.
SettledMeansReleased ==
  pc = "Idle" /\ (held = "Request" \/ outcome \in Refused \cup {"Complete", "Canceled"})
     => resource = "None"

\* Provider state the lifecycle lets go of without destroying it never goes
\* unnoticed: the failure handler was told, or the caller saw an unwind.
NoSilentLeak ==
  pc = "Idle" /\ held # "Operation" /\ resource # "None"
     => report = "DropFailure" \/ outcome = "Unwound"

\* Every effect run was paid for beforehand, with work and with an attempt,
\* over the whole life of a request: retried begins, resumes and cancellations.
EffectsPrecharged ==
  /\ effects + request.remaining <= WorkLimit
  /\ effects <= EffectAttempts

\* The caller never sees more backpressure results for one request than its
\* limit, those of retried begins and those of the live operation together.
PushbackBounded == pushed <= BackpressureResponses

\* destroy is only called on state that is still there, so never twice after a
\* success, and its token names the target the resource needs.
DestroysOwnedState ==
  pc \in {"Destroy", "Drop"} =>
    /\ resource # "None"
    /\ RequiredTargets(request.kind) \subseteq request.targets

\* What begin's PendingStart::Failed says: "No state was created and the request
\* failed" (outcome.rs), so no activated provider state outlives a failed begin.
FailedStartLeavesNoState ==
  pc = "Idle" /\ call = "Begin" /\ outcome \in Refused \cup {"Destruction"}
     => resource # "Active"

\* What the operation's documentation says: "Drop destroys provider state;
\* failures use handle_drop_failure" (lifecycle.rs).
DropDestroysOrReports ==
  pc = "Idle" /\ held # "Operation" /\ resource # "None" => report = "DropFailure"

\* Every call into the lifecycle comes back to the caller, or the process ends.
EveryCallReturns == (pc # "Idle") ~> (pc \in {"Idle", "Aborted"})

\* A caller that keeps driving a request reaches its end: attempts and work run
\* out, so retries, backpressure and progress cannot go on for ever.
DrivenRequestEnds == (held # "Nothing") ~> (held = "Nothing" /\ pc \in {"Idle", "Aborted"})

=============================================================================

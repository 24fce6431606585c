---------------------------- MODULE BackendDispatch ----------------------------
(***************************************************************************)
(* Selection of a backend under a policy, and entry into an accelerated    *)
(* kernel (brynja-core/src/backend_dispatch.rs, backend_execution.rs), over*)
(* two backend sessions: the preferred one, which is BackendSession's, and *)
(* a scalar one beside it.                                                 *)
(*                                                                         *)
(* Both sessions keep moving between selection and use, and also inside    *)
(* execute_kernel while the platform's acquire_guard callback runs.  Not   *)
(* while the kernel itself runs: kernels are sealed, get no session and    *)
(* cannot leave the thread.                                                *)
(***************************************************************************)
EXTENDS BackendSession

CONSTANTS
  ScalarMax,                 \* the last health generation of the scalar session
  Operations,                \* provider operations
  PreferredOps, ScalarOps    \* the operations each backend supports

ASSUME DispatchAssumption ==
  /\ ScalarMax \in Nat \ {0} /\ "Scalar" \notin Classes
  /\ PreferredOps \subseteq Operations /\ ScalarOps \subseteq Operations

VARIABLES
  sHealth, sGuards, sKats, sTokens, sEpoch,   \* the scalar BackendSession
  dispatch,                                   \* the BackendDispatch the caller holds
  entry                                       \* execute_kernel in progress on it

scalarVars == <<sHealth, sGuards, sKats, sTokens, sEpoch>>
dispatchVars == <<health, guards, kats, tokens, epoch,
                  sHealth, sGuards, sKats, sTokens, sEpoch, dispatch, entry>>

Scalar == INSTANCE BackendSession WITH
  MaxGeneration <- ScalarMax, Classes <- {"Scalar"},
  health <- sHealth, guards <- sGuards, kats <- sKats, tokens <- sTokens, epoch <- sEpoch

Sides == {"Preferred", "Scalar"}
Policies == {"ScalarOnly", "Opportunistic", "RequiredAccelerated", "ValidatedModuleOnly"}
ClassOf(side) == IF side = "Preferred" THEN health.class ELSE "Scalar"
ApprovalOf(side) == IF side = "Preferred" THEN health.approval ELSE sHealth.approval

\* The ActiveBackend tokens a caller may hold, with the session each borrows.
Actives == { [side |-> "Preferred", token |-> t] : t \in tokens } \cup
           { [side |-> "Scalar", token |-> t] : t \in sTokens }

NoActive == [side |-> "None"]
NoDispatch == [side |-> "None"]
Idle == [phase |-> "None", runtime |-> 0]

\* validate_authority on the session that an authority borrows.
RefusalOf(side, authority, runtime, operation) ==
  IF side = "Preferred"
  THEN Refusal(authority, runtime, operation \in PreferredOps)
  ELSE Scalar!Refusal(authority, runtime, operation \in ScalarOps)

\* What a selection returns: an error, or the token used and why.
Refused(error) == [error |-> error, active |-> NoActive, reason |-> "None"]
Selected(active, reason) == [error |-> "None", active |-> active, reason |-> reason]

\* authorize_with_policy.
AuthorizeOn(active, operation, runtime, reason) ==
  LET error == RefusalOf(active.side, active.token, runtime, operation)
  IN IF error = "None" THEN Selected(active, reason) ELSE Refused(error)

\* authorize_scalar: every refusal of the scalar authority reads the same.
AuthorizeScalar(scalar, operation, runtime, reason) ==
  IF /\ ClassOf(scalar.side) = "Scalar"
     /\ RefusalOf(scalar.side, scalar.token, runtime, operation) = "None"
  THEN Selected(scalar, reason) ELSE Refused("ScalarUnavailable")

\* fallback_reason, over the errors validate_authority can give.
FallbackReason(error) ==
  CASE error = "Unhealthy"            -> "CandidateUnhealthy"
    [] error = "Quarantined"          -> "CandidateQuarantined"
    [] error = "StaleGeneration"      -> "CandidateStale"
    [] error = "RuntimeChanged"       -> "CandidateStale"
    [] error = "UnsupportedOperation" -> "OperationUnsupported"

\* Opportunistic selection with a candidate or none (NoActive).
SelectOpportunistic(operation, runtime, candidate, scalar) ==
  IF candidate = NoActive
  THEN AuthorizeScalar(scalar, operation, runtime, "CandidateUnavailable")
  ELSE IF ClassOf(candidate.side) # "Accelerated" THEN Refused("BackendClassMismatch")
  ELSE LET tried == AuthorizeOn(candidate, operation, runtime, "Accelerated")
       IN IF tried.error = "None" THEN tried
          ELSE AuthorizeScalar(scalar, operation, runtime, FallbackReason(tried.error))

\* Fault: a required accelerator that is refused falls back to scalar.
SelectRequiredLenient(operation, runtime, candidate, scalar) ==
  SelectOpportunistic(operation, runtime, candidate, scalar)

\* Required acceleration: no fallback.
SelectRequired(operation, runtime, candidate, scalar) ==
  IF candidate = NoActive THEN Refused("Unavailable")
  ELSE IF ClassOf(candidate.side) # "Accelerated" THEN Refused("BackendClassMismatch")
  ELSE AuthorizeOn(candidate, operation, runtime, "Accelerated")

\* A validated module only, and only while its session shows the approval.
SelectValidated(operation, runtime, candidate) ==
  IF candidate = NoActive THEN Refused("Unavailable")
  ELSE IF ClassOf(candidate.side) # "ValidatedModule" THEN Refused("BackendClassMismatch")
  ELSE IF ApprovalOf(candidate.side) # "Approved" THEN Refused("ApprovalUnavailable")
  ELSE AuthorizeOn(candidate, operation, runtime, "ValidatedModule")

\* select_backend.
Selection(policy, operation, runtime, candidate, scalar) ==
  CASE policy = "ScalarOnly" -> AuthorizeScalar(scalar, operation, runtime, "ScalarRequired")
    [] policy = "Opportunistic" -> SelectOpportunistic(operation, runtime, candidate, scalar)
    [] policy = "RequiredAccelerated" -> SelectRequired(operation, runtime, candidate, scalar)
    [] policy = "ValidatedModuleOnly" -> SelectValidated(operation, runtime, candidate)

-----------------------------------------------------------------------------
DispatchInit ==
  /\ Init /\ Scalar!Init /\ sHealth.runtime = health.runtime
  /\ dispatch = NoDispatch /\ entry = Idle

\* Either session moves, unless a kernel is running.
SessionStep ==
  /\ entry.phase # "Running"
  /\ \/ Next /\ UNCHANGED scalarVars
     \/ Scalar!Next /\ UNCHANGED vars
  /\ UNCHANGED <<dispatch, entry>>

\* The caller holds the dispatch a successful selection made.
Hold(policy, operation, chosen) ==
  dispatch' = [side |-> chosen.active.side, policy |-> policy, reason |-> chosen.reason,
               operation |-> operation, generation |-> chosen.active.token.generation,
               runtime |-> chosen.active.token.runtime, epoch |-> chosen.active.token.epoch]

\* A refused selection changes nothing, so only the granted ones are steps.
Select ==
  /\ entry = Idle
  /\ \E policy \in Policies, operation \in Operations, runtime \in Runtimes,
        candidate \in Actives \cup {NoActive}, scalar \in Actives :
       LET chosen == Selection(policy, operation, runtime, candidate, scalar)
       IN chosen.error = "None" /\ Hold(policy, operation, chosen)
  /\ UNCHANGED <<vars, scalarVars, entry>>

\* The policy and reason authorize_backend gives for a class.
DirectPolicy(class) ==
  CASE class = "Scalar"          -> "ScalarOnly"
    [] class = "Accelerated"     -> "RequiredAccelerated"
    [] class = "ValidatedModule" -> "ValidatedModuleOnly"
DirectReason(class) == IF class = "Scalar" THEN "ScalarRequired" ELSE class

\* ActiveBackend::authorize_backend.
Authorize ==
  /\ entry = Idle
  /\ \E active \in Actives, operation \in Operations, runtime \in Runtimes :
       LET class == ClassOf(active.side)
           chosen == AuthorizeOn(active, operation, runtime, DirectReason(class))
       IN chosen.error = "None" /\ Hold(DirectPolicy(class), operation, chosen)
  /\ UNCHANGED <<vars, scalarVars, entry>>

\* execute_kernel up to acquire_guard: an accelerated dispatch, a lease of this
\* session and runtime, the leased context's identity.
Enter ==
  /\ entry = Idle /\ dispatch # NoDispatch
  /\ ClassOf(dispatch.side) = "Accelerated"
  /\ \E runtime \in Runtimes : entry' = [phase |-> "Acquiring", runtime |-> runtime]
  /\ UNCHANGED <<vars, scalarVars, dispatch>>

\* acquire_guard fails, or the context is another one afterwards.
GuardRefused ==
  /\ entry.phase = "Acquiring" /\ entry' = Idle
  /\ UNCHANGED <<vars, scalarVars, dispatch>>

\* Fault: authority is not revalidated after the callback.
MayRunUnchecked(runtime) == TRUE

\* The dispatch still validates.
MayRun(runtime) == RefusalOf(dispatch.side, dispatch, runtime, dispatch.operation) = "None"

\* The guard is held: revalidate, then run the kernel or give up.
GuardAcquired ==
  /\ entry.phase = "Acquiring"
  /\ entry' = IF MayRun(entry.runtime) THEN [entry EXCEPT !.phase = "Running"] ELSE Idle
  /\ UNCHANGED <<vars, scalarVars, dispatch>>

\* The kernel returns or unwinds; the guard is dropped.
KernelDone ==
  /\ entry.phase = "Running" /\ entry' = Idle
  /\ UNCHANGED <<vars, scalarVars, dispatch>>

DispatchNext ==
  SessionStep \/ Select \/ Authorize \/ Enter \/ GuardRefused \/ GuardAcquired \/ KernelDone

DispatchSpec == DispatchInit /\ [][DispatchNext]_dispatchVars

-----------------------------------------------------------------------------
(* Properties.                                                             *)

\* A kernel only runs on a session that is healthy and has seen no runtime
\* change and no quarantine since the token behind the dispatch was issued,
\* whatever happened inside the platform callback; the test that admitted it
\* passed under the runtime the caller names.
KernelRunsOnCurrentAuthority ==
  entry.phase = "Running" =>
    /\ health.class = "Accelerated" /\ dispatch.side = "Preferred"
    /\ health.state = "Healthy" /\ dispatch.epoch = epoch
    /\ dispatch.operation \in PreferredOps
    /\ \E k \in kats : k.passed /\ k.runtime = entry.runtime

\* Only the opportunistic policy falls back, and only to scalar code: a dispatch
\* under any other policy is on a backend of the class that policy asks for.
OnlyOpportunisticFallsBack ==
  dispatch # NoDispatch =>
    LET class == ClassOf(dispatch.side)
    IN CASE dispatch.policy = "ScalarOnly"          -> class = "Scalar"
         [] dispatch.policy = "RequiredAccelerated" -> class = "Accelerated"
         [] dispatch.policy = "ValidatedModuleOnly" -> class = "ValidatedModule"
         [] dispatch.policy = "Opportunistic"       ->
              \/ class = "Accelerated" /\ dispatch.reason = "Accelerated"
              \/ class = "Scalar" /\ dispatch.reason \notin {"Accelerated", "ScalarRequired"}

\* A dispatch of a validated module that still validates rests on approval a
\* passed test carried and the session still shows, not on approval it had once.
ValidatedModuleStaysApproved ==
  dispatch # NoDispatch /\ ClassOf(dispatch.side) = "ValidatedModule" =>
    \A r \in Runtimes :
      RefusalOf(dispatch.side, dispatch, r, dispatch.operation) = "None" =>
        /\ health.approval = "Approved" /\ dispatch.epoch = epoch
        /\ \E k \in kats : k.passed /\ k.runtime = r /\ k.approval = "Approved"

=============================================================================

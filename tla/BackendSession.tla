---------------------------- MODULE BackendSession ----------------------------
(***************************************************************************)
(* Health of one cryptographic backend (brynja-core/src/backend_session.rs,*)
(* backend_kat.rs, backend_dispatch.rs): known-answer test, quarantine and *)
(* runtime changes.                                                        *)
(*                                                                         *)
(* The session is a Cell that every outstanding guard and token borrows,   *)
(* so any of them may be used at any time, between any two steps of any    *)
(* other, and long after the session moved on.  What a guard or token      *)
(* carries is the generation it was made at; the session's own counter is  *)
(* what makes a stale one harmless.  MaxGeneration stands for u64::MAX, so *)
(* the counter's exhaustion is part of every run.                          *)
(***************************************************************************)
EXTENDS Naturals

CONSTANTS
  MaxGeneration,   \* the last value of the generation counter
  Runtimes,        \* BackendRuntimeGeneration values the caller reports
  Classes          \* the classes of the backend: Scalar, Accelerated, ValidatedModule

ASSUME SessionAssumption ==
  /\ MaxGeneration \in Nat \ {0}
  /\ Classes \subseteq {"Scalar", "Accelerated", "ValidatedModule"}

VARIABLES
  health,   \* the HealthRecord in the session's Cell, with the backend's class
  guards,   \* testing generations of the armed BackendInitialization guards
  kats,     \* evidence of the known-answer tests run against this session
  tokens,   \* the ActiveBackend tokens handed out
  epoch     \* history: runtime changes and quarantines so far

vars == <<health, guards, kats, tokens, epoch>>

States == {"NeverTested", "Testing", "Healthy", "Quarantined"}
Faults == {"KnownAnswerFailed", "InitializationInterrupted", "ReentrantInitialization",
           "EvidenceMismatch", "ApprovalMismatch", "GenerationExhausted", "ImpossibleState"}
ServiceApprovals == {"NotApplicable", "Unavailable", "Approved"}
Generations == 1..MaxGeneration

\* The approval of a session of this class that has not been tested.
UntestedApproval(class) == IF class = "ValidatedModule" THEN "Unavailable" ELSE "NotApplicable"

\* The approval that evidence of a passed test must carry.
RequiredApproval == IF health.class = "ValidatedModule" THEN "Approved" ELSE "NotApplicable"

Init ==
  /\ \E r \in Runtimes, class \in Classes :
       health = [state |-> "NeverTested", generation |-> 1, runtime |-> r, fault |-> "None",
                 approval |-> UntestedApproval(class), class |-> class]
  /\ guards = {} /\ kats = {} /\ tokens = {} /\ epoch = 0

\* Fault: the counter wraps where it should stop.
ExhaustedNever == FALSE

\* checked_add on the generation counter.
Exhausted == health.generation = MaxGeneration

\* Fault: a quarantine replaces the fault of an earlier one.
QuarantineAgain(fault) ==
  /\ health' = [health EXCEPT !.state = "Quarantined", !.fault = fault,
                              !.generation = IF Exhausted THEN @ ELSE @ + 1,
                              !.approval = "Unavailable"]
  /\ epoch' = epoch + 1

\* BackendSession::quarantine: the first fault stays; a counter that cannot
\* advance is itself the fault that is kept.
Quarantine(fault) ==
  IF health.state = "Quarantined" THEN UNCHANGED <<health, epoch>>
  ELSE /\ health' = [health EXCEPT !.state = "Quarantined",
                                   !.generation = IF Exhausted THEN @ ELSE @ + 1,
                                   !.fault = IF Exhausted THEN "GenerationExhausted" ELSE fault,
                                   !.approval = "Unavailable"]
       /\ epoch' = epoch + 1

\* BackendSession::begin_initialization.
BeginInitialization ==
  /\ CASE health.state = "NeverTested" /\ ~Exhausted ->
            /\ health' = [health EXCEPT !.state = "Testing", !.generation = @ + 1, !.fault = "None"]
            /\ guards' = guards \cup {health.generation + 1}
            /\ UNCHANGED epoch
       [] health.state = "NeverTested" /\ Exhausted ->
            Quarantine("GenerationExhausted") /\ UNCHANGED guards
       [] health.state = "Testing" ->
            Quarantine("ReentrantInitialization") /\ UNCHANGED guards
       [] OTHER -> UNCHANGED <<health, guards, epoch>>
  /\ UNCHANGED <<kats, tokens>>

\* The trusted provider runs the known-answer test once per tested generation
\* and issues evidence bound to the session as it is now.
RunKnownAnswerTest ==
  /\ health.state = "Testing"
  /\ \A k \in kats : k.generation # health.generation
  /\ \E passed \in BOOLEAN, approval \in ServiceApprovals :
       /\ ~passed => approval = "Unavailable"
       /\ kats' = kats \cup {[runtime |-> health.runtime, generation |-> health.generation,
                              passed |-> passed, approval |-> approval]}
  /\ UNCHANGED <<health, guards, tokens, epoch>>

\* Evidence of another session or instance: no generation of this one is its.
Foreign(passed) == [runtime |-> health.runtime, generation |-> 0, passed |-> passed,
                    approval |-> RequiredApproval]

\* The evidence a guard's complete or fail may be called with.
Evidence(passed) == { k \in kats : k.passed = passed } \cup {Foreign(passed)}

\* Fault: a guard only checks that some test is in progress.
OwnsTestLoosely(g) == health.state = "Testing"

\* The test in progress is the one the guard was made for.
OwnsTest(g) == health.state = "Testing" /\ health.generation = g

\* Fault: evidence of an earlier generation is accepted.
BindsLoosely(k) == k.runtime = health.runtime

\* Evidence made for this session as it is now.
Binds(k) == k.runtime = health.runtime /\ k.generation = health.generation

\* A guard is consumed: complete, fail and drop all disarm it.
Consume(g) == g \in guards /\ guards' = guards \ {g} /\ UNCHANGED kats

\* BackendInitialization::complete.
Complete(g) ==
  /\ Consume(g)
  /\ \E k \in Evidence(TRUE) :
       \/ ~OwnsTest(g) /\ Quarantine("ImpossibleState") /\ UNCHANGED tokens
       \/ /\ OwnsTest(g) /\ ~Binds(k)
          /\ Quarantine("EvidenceMismatch") /\ UNCHANGED tokens
       \/ /\ OwnsTest(g) /\ Binds(k) /\ k.approval # RequiredApproval
          /\ Quarantine("ApprovalMismatch") /\ UNCHANGED tokens
       \/ /\ OwnsTest(g) /\ Binds(k) /\ k.approval = RequiredApproval /\ Exhausted
          /\ Quarantine("GenerationExhausted") /\ UNCHANGED tokens
       \/ /\ OwnsTest(g) /\ Binds(k) /\ k.approval = RequiredApproval /\ ~Exhausted
          /\ health' = [health EXCEPT !.state = "Healthy", !.generation = @ + 1,
                                      !.fault = "None", !.approval = k.approval]
          /\ tokens' = tokens \cup {[generation |-> health.generation + 1,
                                     runtime |-> health.runtime, epoch |-> epoch]}
          /\ UNCHANGED epoch

\* BackendInitialization::fail.
Fail(g) ==
  /\ Consume(g) /\ UNCHANGED tokens
  /\ \E k \in Evidence(FALSE) :
       \/ ~OwnsTest(g) /\ Quarantine("ImpossibleState")
       \/ OwnsTest(g) /\ ~Binds(k) /\ Quarantine("EvidenceMismatch")
       \/ OwnsTest(g) /\ Binds(k) /\ Quarantine("KnownAnswerFailed")

\* Drop of an armed guard, on an early return, a cancellation or an unwind.
DropGuard(g) == Consume(g) /\ Quarantine("InitializationInterrupted") /\ UNCHANGED tokens

\* What makes runtime_changed return at once.
KeepsHealth(r) == health.runtime = r \/ health.state = "Quarantined"

\* BackendSession::runtime_changed, after a fork or clone.
RuntimeChanged(r) ==
  /\ \/ KeepsHealth(r) /\ UNCHANGED <<health, epoch>>
     \/ ~KeepsHealth(r) /\ Exhausted /\ Quarantine("GenerationExhausted")
     \/ /\ ~KeepsHealth(r) /\ ~Exhausted
        /\ health' = [health EXCEPT !.state = "NeverTested", !.generation = @ + 1,
                                    !.runtime = r, !.fault = "None",
                                    !.approval = UntestedApproval(health.class)]
        /\ epoch' = epoch + 1
  /\ UNCHANGED <<guards, kats, tokens>>

\* Fault: validation leaves the health generation out.
RefusalWithoutGeneration(authority, runtime, supported) ==
  IF authority.runtime # runtime \/ health.runtime # runtime THEN "RuntimeChanged"
  ELSE IF health.state \in {"NeverTested", "Testing"} THEN "Unhealthy"
  ELSE IF health.state = "Quarantined" THEN "Quarantined"
  ELSE IF ~supported THEN "UnsupportedOperation"
  ELSE "None"

\* validate_authority: why a token or a dispatch of this session is refused for
\* an operation the backend supports or not, or "None".
Refusal(authority, runtime, supported) ==
  IF authority.runtime # runtime \/ health.runtime # runtime THEN "RuntimeChanged"
  ELSE IF health.state \in {"NeverTested", "Testing"} THEN "Unhealthy"
  ELSE IF health.state = "Quarantined" THEN "Quarantined"
  ELSE IF health.generation # authority.generation THEN "StaleGeneration"
  ELSE IF ~supported THEN "UnsupportedOperation"
  ELSE "None"

Next ==
  \/ BeginInitialization
  \/ RunKnownAnswerTest
  \/ \E g \in guards : Complete(g) \/ Fail(g) \/ DropGuard(g)
  \/ \E r \in Runtimes : RuntimeChanged(r)

Spec == Init /\ [][Next]_vars

-----------------------------------------------------------------------------
(* Properties.                                                             *)

Tests == [runtime : Runtimes, generation : Generations, passed : BOOLEAN,
          approval : ServiceApprovals]

\* Every variable keeps its type; the generation never leaves its width.
TypeOK ==
  /\ health \in [state : States, generation : Generations, runtime : Runtimes,
                 fault : Faults \cup {"None"}, approval : ServiceApprovals, class : Classes]
  /\ guards \subseteq Generations
  /\ kats \subseteq Tests
  /\ tokens \subseteq [generation : Generations, runtime : Runtimes, epoch : Nat]
  /\ epoch \in Nat

\* A session is only ever healthy on the strength of a known-answer test that
\* passed, with the approval its class needs, at the generation just before and
\* under the runtime the session is still in.
HealthyMeansTested ==
  health.state = "Healthy" =>
    \E k \in kats : /\ k.passed /\ k.runtime = health.runtime
                    /\ k.generation = health.generation - 1
                    /\ k.approval = RequiredApproval

\* A token that validates was issued after the last runtime change and the last
\* quarantine, and no other token validates with it: returning to an earlier
\* runtime and testing again does not revive the tokens of that earlier time.
UsableTokenIsCurrent ==
  \A t \in tokens, r \in Runtimes :
    Refusal(t, r, TRUE) = "None" =>
      /\ t.epoch = epoch /\ health.state = "Healthy"
      /\ \A u \in tokens : Refusal(u, r, TRUE) = "None" => u = t

\* Quarantine is for ever: no later call changes the record in any field, the
\* fault that was recorded first included.
QuarantineIsPermanent == [][health.state = "Quarantined" => health' = health]_vars

\* Whatever is done with a guard whose test is no longer the one in progress
\* leaves the session quarantined, never healthy.
StaleGuardFailsClosed ==
  [][\A g \in guards \ guards' :
       health.state # "Testing" \/ health.generation # g => health'.state = "Quarantined"]_vars

=============================================================================

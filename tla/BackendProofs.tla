----------------------------- MODULE BackendProofs -----------------------------
(***************************************************************************)
(* The safety of BackendSession and, on top of it, of BackendDispatch, for *)
(* every width of the generation counters, every set of runtimes and       *)
(* operations, and every class of backend.                                 *)
(*                                                                         *)
(* What makes a stale token harmless is that a generation is never used    *)
(* twice: TokenOrder says that no token is ahead of the session, that two  *)
(* tokens never share a generation, and that a token at the session's own  *)
(* generation, if the session is healthy, is the one its test produced.    *)
(*                                                                         *)
(* A dispatch carries the generation of a token that was issued (Issued).  *)
(* Whenever it validates, the token order of the session makes it the      *)
(* token of the last test; while a kernel runs, no session moves.          *)
(***************************************************************************)
EXTENDS BackendDispatch, TLAPS

-----------------------------------------------------------------------------
(* One session.                                                            *)

\* Tokens are ordered by the generation the session handed them out at.
TokenOrder ==
  /\ \A t \in tokens : t.generation <= health.generation /\ t.epoch <= epoch
  /\ \A t, u \in tokens : t.generation = u.generation => t = u
  /\ health.state = "Healthy" =>
       \A t \in tokens : t.generation = health.generation =>
                           t.epoch = epoch /\ t.runtime = health.runtime

\* The inductive invariant.
IInv == TypeOK /\ HealthyMeansTested /\ TokenOrder

Records == [state : States, generation : Generations, runtime : Runtimes,
            fault : Faults \cup {"None"}, approval : ServiceApprovals, class : Classes]

\* The counter that is not exhausted has a next value.
LEMMA NextGeneration ==
  ASSUME TypeOK, ~Exhausted
  PROVE  health.generation + 1 \in Generations
BY SessionAssumption DEF TypeOK, Exhausted, Generations

\* What a quarantine leaves behind.
LEMMA QuarantineEffect ==
  ASSUME TypeOK, NEW fault \in Faults, Quarantine(fault)
  PROVE  /\ health' \in Records /\ epoch' \in Nat /\ epoch' >= epoch
         /\ health'.state = "Quarantined"
         /\ health'.generation >= health.generation
<1>t. health \in Records /\ health.generation \in Nat /\ epoch \in Nat
  BY SessionAssumption DEF TypeOK, Records, Generations
<1>1. CASE health.state = "Quarantined"
  BY <1>1, <1>t DEF Quarantine
<1>2. CASE health.state # "Quarantined"
  <2>1. epoch' = epoch + 1
    BY <1>2 DEF Quarantine
  <2>2. PICK n \in Generations, f \in Faults :
          /\ n >= health.generation
          /\ health' = [health EXCEPT !.state = "Quarantined", !.generation = n, !.fault = f,
                                      !.approval = "Unavailable"]
    <3>1. (IF Exhausted THEN health.generation ELSE health.generation + 1) \in Generations
      BY <1>t, NextGeneration DEF TypeOK
    <3>2. (IF Exhausted THEN "GenerationExhausted" ELSE fault) \in Faults
      BY DEF Faults
    <3>3. (IF Exhausted THEN health.generation ELSE health.generation + 1) >= health.generation
      BY <1>t
    <3> QED
      BY <1>2, <3>1, <3>2, <3>3 DEF Quarantine
  <2>3. health' \in Records
    BY <2>2, <1>t DEF Records, States, ServiceApprovals
  <2>4. health'.state = "Quarantined" /\ health'.generation = n
    BY <2>2, <1>t DEF Records
  <2> QED
    BY <2>1, <2>2, <2>3, <2>4, <1>t
<1> QED
  BY <1>1, <1>2

\* A quarantine that hands out no token keeps the invariant, whatever becomes
\* of the guards.
LEMMA QuarantineIInv ==
  ASSUME IInv, NEW fault \in Faults, Quarantine(fault),
         guards' \subseteq guards, UNCHANGED <<kats, tokens>>
  PROVE  IInv'
<1>1. /\ health' \in Records /\ epoch' \in Nat /\ epoch' >= epoch
      /\ health'.state = "Quarantined"
      /\ health'.generation >= health.generation
  BY QuarantineEffect DEF IInv
<1>2. TypeOK'
  BY <1>1 DEF IInv, TypeOK, Records
<1>3. HealthyMeansTested'
  BY <1>1 DEF HealthyMeansTested
<1>4. TokenOrder'
  <2>1. health.generation \in Nat /\ epoch \in Nat /\ health'.generation \in Nat
    BY <1>1, SessionAssumption DEF IInv, TypeOK, Records, Generations
  <2>2. \A t \in tokens : t.generation \in Nat /\ t.epoch \in Nat
    BY SessionAssumption DEF IInv, TypeOK, Generations
  <2> QED
    BY <1>1, <2>1, <2>2 DEF IInv, TokenOrder
<1> QED
  BY <1>2, <1>3, <1>4 DEF IInv

\* The initial states satisfy the inductive invariant.
LEMMA InitIInv == Init => IInv
BY SessionAssumption
DEF Init, IInv, TypeOK, HealthyMeansTested, TokenOrder, States, Generations, Faults,
    ServiceApprovals, UntestedApproval

\* A step that moves the session on without making it healthy and without a new
\* token keeps the order of the tokens.
LEMMA MovedOn ==
  ASSUME IInv, NEW e \in Nat, e >= epoch, epoch' = e, UNCHANGED tokens,
         health'.generation \in Nat, health'.generation >= health.generation,
         health'.state # "Healthy"
  PROVE  TokenOrder' /\ HealthyMeansTested'
<1>1. health.generation \in Nat /\ epoch \in Nat
  BY SessionAssumption DEF IInv, TypeOK, Generations
<1>2. \A t \in tokens : t.generation \in Nat /\ t.epoch \in Nat
  BY SessionAssumption DEF IInv, TypeOK, Generations
<1> QED
  BY <1>1, <1>2 DEF IInv, TokenOrder, HealthyMeansTested

\* begin_initialization: a fresh test, a quarantine, or nothing.
LEMMA BeginIInv == IInv /\ BeginInitialization => IInv'
<1> SUFFICES ASSUME IInv, BeginInitialization PROVE IInv'
  OBVIOUS
<1>t. health \in Records /\ health.generation \in Nat /\ epoch \in Nat
  BY SessionAssumption DEF IInv, TypeOK, Records, Generations
<1>0. UNCHANGED <<kats, tokens>>
  BY DEF BeginInitialization
<1>1. CASE health.state = "NeverTested" /\ ~Exhausted
  <2>1. /\ health' = [health EXCEPT !.state = "Testing", !.generation = @ + 1, !.fault = "None"]
        /\ guards' = guards \cup {health.generation + 1} /\ epoch' = epoch
    BY <1>1 DEF BeginInitialization
  <2>2. health.generation + 1 \in Generations
    BY <1>1, NextGeneration DEF IInv
  <2>3. /\ health' \in Records /\ health'.state = "Testing"
        /\ health'.generation = health.generation + 1
    BY <2>1, <2>2, <1>t DEF Records, States, Faults
  <2>4. TypeOK'
    BY <1>0, <2>1, <2>2, <2>3 DEF IInv, TypeOK, Records
  <2>5. TokenOrder' /\ HealthyMeansTested'
    BY <1>0, <1>t, <2>1, <2>3, MovedOn
  <2> QED
    BY <2>4, <2>5 DEF IInv
<1>2. CASE health.state = "NeverTested" /\ Exhausted
  BY <1>0, <1>2, QuarantineIInv DEF BeginInitialization, Faults
<1>3. CASE health.state = "Testing"
  BY <1>0, <1>3, QuarantineIInv DEF BeginInitialization, Faults
<1>4. CASE health.state \notin {"NeverTested", "Testing"}
  <2>1. UNCHANGED <<health, guards, epoch>>
    BY <1>4 DEF BeginInitialization
  <2> QED
    BY <1>0, <2>1 DEF IInv, TypeOK, HealthyMeansTested, RequiredApproval, TokenOrder
<1> QED
  BY <1>1, <1>2, <1>3, <1>4

\* A known-answer test only adds evidence.
LEMMA TestIInv == IInv /\ RunKnownAnswerTest => IInv'
<1> SUFFICES ASSUME IInv, RunKnownAnswerTest PROVE IInv'
  OBVIOUS
<1>1. UNCHANGED <<health, guards, tokens, epoch>> /\ kats \subseteq kats' /\ kats' \subseteq Tests
  BY DEF IInv, TypeOK, RunKnownAnswerTest, Tests, ServiceApprovals
<1> QED
  BY <1>1 DEF IInv, TypeOK, HealthyMeansTested, RequiredApproval, TokenOrder

\* complete: the one step that makes a session healthy.
LEMMA CompleteIInv == ASSUME NEW g PROVE IInv /\ Complete(g) => IInv'
<1> SUFFICES ASSUME IInv, Complete(g) PROVE IInv'
  OBVIOUS
<1>t. health \in Records /\ health.generation \in Nat /\ health.generation >= 1 /\ epoch \in Nat
  BY SessionAssumption DEF IInv, TypeOK, Records, Generations
<1>0. guards' \subseteq guards /\ UNCHANGED kats
  BY DEF Complete, Consume
<1>1. ASSUME NEW fault \in Faults, Quarantine(fault), UNCHANGED tokens PROVE IInv'
  BY <1>0, <1>1, QuarantineIInv
<1>2. ASSUME NEW k \in Evidence(TRUE), OwnsTest(g), Binds(k),
             k.approval = RequiredApproval, ~Exhausted,
             health' = [health EXCEPT !.state = "Healthy", !.generation = @ + 1,
                                      !.fault = "None", !.approval = k.approval],
             tokens' = tokens \cup {[generation |-> health.generation + 1,
                                     runtime |-> health.runtime, epoch |-> epoch]},
             UNCHANGED epoch
      PROVE IInv'
  <2>1. k \in kats /\ k.passed
    BY <1>2, <1>t DEF Evidence, Foreign, Binds
  <2>2. health.generation + 1 \in Generations
    BY <1>2, NextGeneration DEF IInv
  <2>3. /\ health' \in Records /\ health'.state = "Healthy"
        /\ health'.generation = health.generation + 1
        /\ health'.runtime = health.runtime /\ health'.class = health.class
    <3>1. k.approval \in ServiceApprovals
      BY <1>2 DEF RequiredApproval, ServiceApprovals
    <3> QED
      BY <1>2, <1>t, <2>2, <3>1 DEF Records, States, Faults
  <2>4. TypeOK'
    BY <1>0, <1>2, <1>t, <2>2, <2>3 DEF IInv, TypeOK, Records
  <2>5. HealthyMeansTested'
    BY <1>0, <1>2, <1>t, <2>1, <2>3 DEF HealthyMeansTested, Binds, RequiredApproval
  <2>6. TokenOrder'
    <3> DEFINE new == [generation |-> health.generation + 1, runtime |-> health.runtime,
                       epoch |-> epoch]
    <3>1. new.generation = health'.generation /\ new.runtime = health'.runtime
          /\ new.epoch = epoch'
      BY <1>2, <2>3
    <3>2. tokens' = tokens \cup {new}
      BY <1>2
    <3>3. \A t \in tokens : /\ t.generation \in Nat /\ t.epoch \in Nat
                            /\ t.generation <= health.generation /\ t.epoch <= epoch
      BY SessionAssumption DEF IInv, TypeOK, Generations, TokenOrder
    <3>4. \A t \in tokens : t.generation # new.generation
      BY <3>3, <1>t
    <3>5. \A t, u \in tokens : t.generation = u.generation => t = u
      BY DEF IInv, TokenOrder
    <3> HIDE DEF new
    <3>6. \A t, u \in tokens' : t.generation = u.generation => t = u
      BY <3>2, <3>4, <3>5
    <3>7. \A t \in tokens' : t.generation <= health'.generation /\ t.epoch <= epoch'
      BY <1>2, <1>t, <2>3, <3>1, <3>2, <3>3
    <3>8. \A t \in tokens' : t.generation = health'.generation =>
                               t.epoch = epoch' /\ t.runtime = health'.runtime
      BY <3>1, <3>2, <3>4
    <3> QED
      BY <3>6, <3>7, <3>8 DEF TokenOrder
  <2> QED
    BY <2>4, <2>5, <2>6 DEF IInv
<1> QED
  BY <1>1, <1>2 DEF Complete, Faults

\* fail and drop of a guard: quarantine.
LEMMA FailIInv == ASSUME NEW g PROVE IInv /\ (Fail(g) \/ DropGuard(g)) => IInv'
BY QuarantineIInv DEF Fail, DropGuard, Consume, Faults

\* runtime_changed: nothing, a quarantine, or a session to be tested again.
LEMMA RuntimeIInv == ASSUME NEW r \in Runtimes PROVE IInv /\ RuntimeChanged(r) => IInv'
<1> SUFFICES ASSUME IInv, RuntimeChanged(r) PROVE IInv'
  OBVIOUS
<1>0. UNCHANGED <<guards, kats, tokens>>
  BY DEF RuntimeChanged
<1>1. CASE KeepsHealth(r) /\ UNCHANGED <<health, epoch>>
  BY <1>0, <1>1 DEF IInv, TypeOK, HealthyMeansTested, RequiredApproval, TokenOrder
<1>2. CASE ~KeepsHealth(r) /\ Exhausted /\ Quarantine("GenerationExhausted")
  BY <1>0, <1>2, QuarantineIInv DEF Faults
<1>3. CASE /\ ~KeepsHealth(r) /\ ~Exhausted
           /\ health' = [health EXCEPT !.state = "NeverTested", !.generation = @ + 1,
                                       !.runtime = r, !.fault = "None",
                                       !.approval = UntestedApproval(health.class)]
           /\ epoch' = epoch + 1
  <2>1. health.generation \in Nat /\ epoch \in Nat
    BY SessionAssumption DEF IInv, TypeOK, Generations
  <2>2. health.generation + 1 \in Generations
    BY <1>3, NextGeneration DEF IInv
  <2>3. UntestedApproval(health.class) \in ServiceApprovals
    BY DEF UntestedApproval, ServiceApprovals
  <2>4. /\ health' \in Records /\ health'.state = "NeverTested"
        /\ health'.generation = health.generation + 1
    BY <1>3, <2>2, <2>3 DEF IInv, TypeOK, Records, States, Faults
  <2>5. TypeOK'
    BY <1>0, <1>3, <2>1, <2>4 DEF IInv, TypeOK, Records
  <2>6. TokenOrder' /\ HealthyMeansTested'
    BY <1>0, <1>3, <2>1, <2>4, MovedOn
  <2> QED
    BY <2>5, <2>6 DEF IInv
<1> QED
  BY <1>1, <1>2, <1>3 DEF RuntimeChanged

\* Every step of a session keeps the inductive invariant.
LEMMA StepIInv == IInv /\ [Next]_vars => IInv'
<1> SUFFICES ASSUME IInv, [Next]_vars PROVE IInv'
  OBVIOUS
<1>1. CASE BeginInitialization
  BY <1>1, BeginIInv
<1>2. CASE RunKnownAnswerTest
  BY <1>2, TestIInv
<1>3. ASSUME NEW g \in guards, Complete(g) PROVE IInv'
  BY <1>3, CompleteIInv
<1>4. ASSUME NEW g \in guards, Fail(g) \/ DropGuard(g) PROVE IInv'
  BY <1>4, FailIInv
<1>5. ASSUME NEW r \in Runtimes, RuntimeChanged(r) PROVE IInv'
  BY <1>5, RuntimeIInv
<1>6. CASE UNCHANGED vars
  BY <1>6 DEF vars, IInv, TypeOK, HealthyMeansTested, RequiredApproval, TokenOrder
<1> QED
  BY <1>1, <1>2, <1>3, <1>4, <1>5, <1>6 DEF Next

\* IInv holds in every state a session can reach.
THEOREM Invariance == Spec => []IInv
BY InitIInv, StepIInv, PTL DEF Spec

\* The variables keep their types: the generation never leaves its width.
THEOREM TypeCorrect == Spec => []TypeOK
BY Invariance, PTL DEF IInv

\* A session is only healthy on the strength of a test that passed.
THEOREM Tested == Spec => []HealthyMeansTested
BY Invariance, PTL DEF IInv

\* A token that validates was issued after the last runtime change and the last
\* quarantine, and it is the only one that validates.
THEOREM UsableIsCurrent == Spec => []UsableTokenIsCurrent
<1>1. IInv => UsableTokenIsCurrent
  <2> SUFFICES ASSUME IInv, NEW t \in tokens, NEW r \in Runtimes,
                      Refusal(t, r, TRUE) = "None"
               PROVE  /\ t.epoch = epoch /\ health.state = "Healthy"
                      /\ \A u \in tokens : Refusal(u, r, TRUE) = "None" => u = t
    BY DEF UsableTokenIsCurrent
  <2>1. \A u \in tokens : Refusal(u, r, TRUE) = "None" =>
          /\ health.state = "Healthy" /\ health.generation = u.generation
    BY DEF IInv, TypeOK, States, Refusal
  <2> QED
    BY <2>1 DEF IInv, TokenOrder
<1> QED
  BY <1>1, Invariance, PTL

\* Quarantine is for ever, and the record of its cause with it.
THEOREM Permanent == Spec => QuarantineIsPermanent
<1>1. IInv /\ [Next]_vars => [health.state = "Quarantined" => health' = health]_vars
  <2> SUFFICES ASSUME IInv, Next, health.state = "Quarantined" PROVE health' = health
    BY DEF vars
  <2>1. \A fault : Quarantine(fault) => health' = health
    BY DEF Quarantine
  <2>2. CASE BeginInitialization \/ RunKnownAnswerTest
    BY <2>2 DEF BeginInitialization, RunKnownAnswerTest
  <2>3. ASSUME NEW g \in guards, Complete(g) \/ Fail(g) \/ DropGuard(g) PROVE health' = health
    BY <2>1, <2>3 DEF Complete, Fail, DropGuard, OwnsTest
  <2>4. ASSUME NEW r \in Runtimes, RuntimeChanged(r) PROVE health' = health
    BY <2>4 DEF RuntimeChanged, KeepsHealth
  <2> QED
    BY <2>2, <2>3, <2>4 DEF Next
<1> QED
  BY <1>1, Invariance, PTL DEF Spec, QuarantineIsPermanent

\* Whatever is done with a stale guard leaves the session quarantined.
THEOREM StaleGuard == Spec => StaleGuardFailsClosed
<1> DEFINE Closed ==
      \A g \in guards \ guards' :
        health.state # "Testing" \/ health.generation # g => health'.state = "Quarantined"
<1>1. IInv /\ [Next]_vars => [Closed]_vars
  <2> SUFFICES ASSUME IInv, Next, NEW g \in guards \ guards',
                      health.state # "Testing" \/ health.generation # g
               PROVE  health'.state = "Quarantined"
    BY DEF vars
  <2>1. \A fault \in Faults : Quarantine(fault) => health'.state = "Quarantined"
    BY QuarantineEffect DEF IInv
  <2>2. ~BeginInitialization /\ ~RunKnownAnswerTest
    BY DEF BeginInitialization, RunKnownAnswerTest, Quarantine
  <2>3. \A r \in Runtimes : ~RuntimeChanged(r)
    BY DEF RuntimeChanged
  <2>4. ASSUME NEW h \in guards, Complete(h) \/ Fail(h) \/ DropGuard(h)
        PROVE  health'.state = "Quarantined"
    <3>1. h = g
      BY <2>4 DEF Complete, Fail, DropGuard, Consume
    <3> QED
      BY <2>1, <2>4, <3>1 DEF Complete, Fail, DropGuard, OwnsTest, Faults
  <2> QED
    BY <2>2, <2>3, <2>4 DEF Next
<1> QED
  BY <1>1, Invariance, PTL DEF Spec, StaleGuardFailsClosed

-----------------------------------------------------------------------------
(* Selection and kernel entry.                                             *)

\* A healthy session shows the approval its class requires.
HealthyIsApproved == health.state = "Healthy" => health.approval = RequiredApproval

\* The dispatch that is held was made from a token of the session it names.
Issued ==
  dispatch # NoDispatch =>
    /\ dispatch.side \in Sides
    /\ dispatch.side = "Preferred" =>
         \E t \in tokens : /\ t.generation = dispatch.generation
                           /\ t.runtime = dispatch.runtime /\ t.epoch = dispatch.epoch

\* Only a dispatch of the accelerated backend is ever entered.
Entered ==
  entry.phase # "None" =>
    dispatch # NoDispatch /\ dispatch.side = "Preferred" /\ health.class = "Accelerated"

\* The inductive invariant.
DispatchInv ==
  /\ IInv /\ HealthyIsApproved /\ health.class \in Classes
  /\ Issued /\ Entered
  /\ entry = [phase |-> entry.phase, runtime |-> entry.runtime]
  /\ OnlyOpportunisticFallsBack /\ KernelRunsOnCurrentAuthority

-----------------------------------------------------------------------------
(* The preferred session.                                                  *)

\* A step of the session neither changes the class of its backend nor takes a
\* token back.
LEMMA SessionKeeps ==
  ASSUME IInv, [Next]_vars
  PROVE  health'.class = health.class /\ tokens \subseteq tokens'
<1>t. health \in Records
  BY DEF IInv, TypeOK, Records
<1>1. ASSUME NEW fault, Quarantine(fault) PROVE health'.class = health.class
  BY <1>1, <1>t DEF Quarantine, Records
<1>2. CASE BeginInitialization
  BY <1>1, <1>2, <1>t DEF BeginInitialization, Records
<1>3. CASE RunKnownAnswerTest
  BY <1>3 DEF RunKnownAnswerTest
<1>4. ASSUME NEW g \in guards, Complete(g)
      PROVE  health'.class = health.class /\ tokens \subseteq tokens'
  BY <1>1, <1>4, <1>t DEF Complete, Records
<1>5. ASSUME NEW g \in guards, Fail(g) \/ DropGuard(g)
      PROVE  health'.class = health.class /\ tokens \subseteq tokens'
  BY <1>1, <1>5 DEF Fail, DropGuard
<1>6. ASSUME NEW r \in Runtimes, RuntimeChanged(r)
      PROVE  health'.class = health.class /\ tokens \subseteq tokens'
  BY <1>1, <1>6, <1>t DEF RuntimeChanged, Records
<1>7. CASE UNCHANGED vars
  BY <1>7 DEF vars
<1> QED
  BY <1>2, <1>3, <1>4, <1>5, <1>6, <1>7 DEF Next

\* Only the completion of a test makes a session healthy, with its approval.
LEMMA SessionApproves ==
  ASSUME IInv, HealthyIsApproved, [Next]_vars
  PROVE  HealthyIsApproved'
<1>t. health \in Records
  BY DEF IInv, TypeOK, Records
<1>c. health'.class = health.class
  BY SessionKeeps
<1>0. CASE UNCHANGED health
  BY <1>0 DEF HealthyIsApproved, RequiredApproval
<1>1. ASSUME NEW fault \in Faults, Quarantine(fault) PROVE HealthyIsApproved'
  <2>1. health'.state = "Quarantined"
    BY <1>1, QuarantineEffect DEF IInv
  <2> QED
    BY <2>1 DEF HealthyIsApproved
<1>2. CASE BeginInitialization
  <2>1. CASE health.state = "NeverTested" /\ ~Exhausted
    BY <1>2, <2>1, <1>t DEF BeginInitialization, Records, HealthyIsApproved
  <2> QED
    BY <1>0, <1>1, <1>2, <2>1 DEF BeginInitialization, Faults
<1>3. CASE RunKnownAnswerTest
  BY <1>0, <1>3 DEF RunKnownAnswerTest
<1>4. ASSUME NEW g \in guards, Complete(g) PROVE HealthyIsApproved'
  <2>1. ASSUME NEW k, k.approval = RequiredApproval,
               health' = [health EXCEPT !.state = "Healthy", !.generation = @ + 1,
                                        !.fault = "None", !.approval = k.approval]
        PROVE  HealthyIsApproved'
    BY <2>1, <1>t, <1>c DEF HealthyIsApproved, RequiredApproval, Records
  <2> QED
    BY <1>1, <1>4, <2>1 DEF Complete, Faults
<1>5. ASSUME NEW g \in guards, Fail(g) \/ DropGuard(g) PROVE HealthyIsApproved'
  BY <1>1, <1>5 DEF Fail, DropGuard, Faults
<1>6. ASSUME NEW r \in Runtimes, RuntimeChanged(r) PROVE HealthyIsApproved'
  <2>1. CASE ~KeepsHealth(r) /\ ~Exhausted
    BY <1>6, <2>1, <1>t DEF RuntimeChanged, Records, HealthyIsApproved, Quarantine
  <2> QED
    BY <1>0, <1>1, <1>6, <2>1 DEF RuntimeChanged, Faults
<1> QED
  BY <1>0, <1>2, <1>3, <1>4, <1>5, <1>6 DEF Next, vars

-----------------------------------------------------------------------------
(* Authority.                                                              *)

\* A dispatch of the preferred backend that validates is on the session as the
\* last test left it.
LEMMA ValidIsCurrent ==
  ASSUME IInv, Issued, dispatch # NoDispatch, dispatch.side = "Preferred",
         NEW runtime, NEW operation,
         RefusalOf("Preferred", dispatch, runtime, operation) = "None"
  PROVE  /\ health.state = "Healthy" /\ dispatch.epoch = epoch
         /\ operation \in PreferredOps
         /\ \E k \in kats : /\ k.passed /\ k.runtime = runtime
                            /\ k.approval = RequiredApproval
<1>1. Refusal(dispatch, runtime, operation \in PreferredOps) = "None"
  BY DEF RefusalOf
<1>2. /\ dispatch.runtime = runtime /\ health.runtime = runtime
      /\ health.state = "Healthy" /\ health.generation = dispatch.generation
      /\ operation \in PreferredOps
  <2>1. health.state \in States
    BY DEF IInv, TypeOK
  <2> QED
    BY <1>1, <2>1 DEF Refusal, States
<1>3. PICK t \in tokens : t.generation = dispatch.generation /\ t.epoch = dispatch.epoch
  BY DEF Issued
<1>4. t.epoch = epoch
  BY <1>2, <1>3 DEF IInv, TokenOrder
<1>5. PICK k \in kats : k.passed /\ k.runtime = health.runtime /\ k.approval = RequiredApproval
  BY <1>2 DEF IInv, HealthyMeansTested
<1> QED
  BY <1>2, <1>3, <1>4, <1>5

\* Why an authority may be refused.
LEMMA RefusalRange ==
  ASSUME NEW authority, NEW runtime, NEW supported, Refusal(authority, runtime, supported) # "None"
  PROVE  Refusal(authority, runtime, supported) \in
           {"RuntimeChanged", "Unhealthy", "Quarantined", "StaleGeneration", "UnsupportedOperation"}
BY DEF Refusal

-----------------------------------------------------------------------------
(* Selection.                                                              *)

\* What a policy promises of the class and the reason of what it selects.
Keeps(policy, class, reason) ==
  CASE policy = "ScalarOnly"          -> class = "Scalar"
    [] policy = "RequiredAccelerated" -> class = "Accelerated"
    [] policy = "ValidatedModuleOnly" -> class = "ValidatedModule"
    [] policy = "Opportunistic"       ->
         \/ class = "Accelerated" /\ reason = "Accelerated"
         \/ class = "Scalar" /\ reason \notin {"Accelerated", "ScalarRequired"}

\* Authorization names the authority it was given and the reason it was given.
LEMMA AuthorizedIsGiven ==
  ASSUME NEW active, NEW operation, NEW runtime, NEW reason,
         AuthorizeOn(active, operation, runtime, reason).error = "None"
  PROVE  /\ AuthorizeOn(active, operation, runtime, reason).active = active
         /\ AuthorizeOn(active, operation, runtime, reason).reason = reason
BY DEF AuthorizeOn, Selected, Refused

\* So does the authorization of scalar code, which is scalar.
LEMMA AuthorizedScalarIsScalar ==
  ASSUME NEW scalar, NEW operation, NEW runtime, NEW reason,
         AuthorizeScalar(scalar, operation, runtime, reason).error = "None"
  PROVE  /\ AuthorizeScalar(scalar, operation, runtime, reason).active = scalar
         /\ AuthorizeScalar(scalar, operation, runtime, reason).reason = reason
         /\ ClassOf(scalar.side) = "Scalar"
BY DEF AuthorizeScalar, Selected, Refused

\* The opportunistic selection is accelerated code or a fallback that is reported.
LEMMA OpportunisticKeeps ==
  ASSUME health.class \in Classes,
         NEW operation, NEW runtime, NEW candidate \in Actives \cup {NoActive},
         NEW scalar \in Actives,
         SelectOpportunistic(operation, runtime, candidate, scalar).error = "None"
  PROVE  LET chosen == SelectOpportunistic(operation, runtime, candidate, scalar)
         IN chosen.active \in Actives
            /\ Keeps("Opportunistic", ClassOf(chosen.active.side), chosen.reason)
<1> DEFINE chosen == SelectOpportunistic(operation, runtime, candidate, scalar)
           tried == AuthorizeOn(candidate, operation, runtime, "Accelerated")
<1>1. CASE candidate = NoActive
  <2>1. chosen = AuthorizeScalar(scalar, operation, runtime, "CandidateUnavailable")
    BY <1>1 DEF SelectOpportunistic
  <2> QED
    BY <2>1, AuthorizedScalarIsScalar DEF Keeps
<1>2. CASE candidate # NoActive /\ ClassOf(candidate.side) # "Accelerated"
  BY <1>2 DEF SelectOpportunistic, Refused
<1>3. CASE /\ candidate # NoActive /\ ClassOf(candidate.side) = "Accelerated"
           /\ tried.error = "None"
  <2>1. chosen = tried
    BY <1>3 DEF SelectOpportunistic
  <2> QED
    BY <1>3, <2>1, AuthorizedIsGiven DEF Keeps
<1>4. CASE /\ candidate # NoActive /\ ClassOf(candidate.side) = "Accelerated"
           /\ tried.error # "None"
  <2>1. chosen = AuthorizeScalar(scalar, operation, runtime, FallbackReason(tried.error))
    BY <1>4 DEF SelectOpportunistic
  <2>2. candidate.side = "Preferred"
    BY <1>4 DEF ClassOf
  <2>3. tried.error = Refusal(candidate.token, runtime, operation \in PreferredOps)
    BY <1>4, <2>2 DEF AuthorizeOn, RefusalOf, Selected, Refused
  <2>4. tried.error \in {"RuntimeChanged", "Unhealthy", "Quarantined", "StaleGeneration",
                         "UnsupportedOperation"}
    BY <1>4, <2>3, RefusalRange
  <2>5. FallbackReason(tried.error) \notin {"Accelerated", "ScalarRequired"}
    BY <2>4 DEF FallbackReason
  <2> QED
    BY <2>1, <2>5, AuthorizedScalarIsScalar DEF Keeps
<1> QED
  BY <1>1, <1>2, <1>3, <1>4

\* A selection returns an authority it was given, of a class its policy allows.
LEMMA SelectionKeeps ==
  ASSUME health.class \in Classes,
         NEW policy \in Policies, NEW operation, NEW runtime,
         NEW candidate \in Actives \cup {NoActive}, NEW scalar \in Actives,
         Selection(policy, operation, runtime, candidate, scalar).error = "None"
  PROVE  LET chosen == Selection(policy, operation, runtime, candidate, scalar)
         IN chosen.active \in Actives
            /\ Keeps(policy, ClassOf(chosen.active.side), chosen.reason)
<1> DEFINE chosen == Selection(policy, operation, runtime, candidate, scalar)
<1>1. CASE policy = "ScalarOnly"
  <2>1. chosen = AuthorizeScalar(scalar, operation, runtime, "ScalarRequired")
    BY <1>1 DEF Selection
  <2> QED
    BY <1>1, <2>1, AuthorizedScalarIsScalar DEF Keeps
<1>2. CASE policy = "Opportunistic"
  <2>1. chosen = SelectOpportunistic(operation, runtime, candidate, scalar)
    BY <1>2 DEF Selection
  <2> QED
    BY <1>2, <2>1, OpportunisticKeeps
<1>3. CASE policy = "RequiredAccelerated"
  <2>1. chosen = SelectRequired(operation, runtime, candidate, scalar)
    BY <1>3 DEF Selection
  <2>2. /\ candidate # NoActive /\ ClassOf(candidate.side) = "Accelerated"
        /\ chosen = AuthorizeOn(candidate, operation, runtime, "Accelerated")
    BY <2>1 DEF SelectRequired, Refused
  <2> QED
    BY <1>3, <2>2, AuthorizedIsGiven DEF Keeps
<1>4. CASE policy = "ValidatedModuleOnly"
  <2>1. chosen = SelectValidated(operation, runtime, candidate)
    BY <1>4 DEF Selection
  <2>2. /\ candidate # NoActive /\ ClassOf(candidate.side) = "ValidatedModule"
        /\ chosen = AuthorizeOn(candidate, operation, runtime, "ValidatedModule")
    BY <2>1 DEF SelectValidated, Refused
  <2> QED
    BY <1>4, <2>2, AuthorizedIsGiven DEF Keeps
<1> QED
  BY <1>1, <1>2, <1>3, <1>4 DEF Policies

\* The policy that stands for a direct authorization allows the class it is for.
LEMMA DirectKeeps ==
  ASSUME NEW class \in {"Scalar", "Accelerated", "ValidatedModule"}
  PROVE  Keeps(DirectPolicy(class), class, DirectReason(class))
BY DEF Keeps, DirectPolicy, DirectReason

-----------------------------------------------------------------------------
(* The steps.                                                              *)

\* What the caller comes to hold, from an authority that was given.
LEMMA HoldInv ==
  ASSUME DispatchInv, entry = Idle, UNCHANGED <<vars, entry>>,
         NEW policy, NEW operation, NEW chosen, chosen.active \in Actives,
         Keeps(policy, ClassOf(chosen.active.side), chosen.reason),
         Hold(policy, operation, chosen)
  PROVE  DispatchInv'
<1>0. IInv' /\ HealthyIsApproved' /\ (health.class \in Classes)'
  <2>1. UNCHANGED <<health, guards, kats, tokens, epoch>>
    BY DEF vars
  <2>2. HealthyIsApproved' /\ (health.class \in Classes)'
    BY <2>1 DEF DispatchInv, HealthyIsApproved, RequiredApproval
  <2>3. IInv'
    BY StepIInv DEF DispatchInv
  <2> QED
    BY <2>2, <2>3
<1>1. /\ dispatch'.side = chosen.active.side /\ dispatch'.policy = policy
      /\ dispatch'.reason = chosen.reason
      /\ dispatch'.generation = chosen.active.token.generation
      /\ dispatch'.runtime = chosen.active.token.runtime
      /\ dispatch'.epoch = chosen.active.token.epoch
  BY DEF Hold
<1>2. /\ chosen.active.side \in Sides
      /\ chosen.active.side = "Preferred" => chosen.active.token \in tokens
  BY DEF Actives, Sides
<1>3. Issued'
  BY <1>1, <1>2 DEF Issued, vars
<1>4. entry' = Idle /\ entry'.phase = "None"
  BY DEF Idle
<1>5. Entered' /\ KernelRunsOnCurrentAuthority' /\ (entry = Idle)'
  BY <1>4 DEF Entered, KernelRunsOnCurrentAuthority, Idle
<1>6. OnlyOpportunisticFallsBack'
  <2>1. ClassOf(dispatch.side)' = ClassOf(chosen.active.side)
    BY <1>1 DEF ClassOf, vars
  <2> QED
    BY <1>1, <2>1 DEF Keeps, OnlyOpportunisticFallsBack
<1> QED
  BY <1>0, <1>3, <1>5, <1>6 DEF DispatchInv

\* Either session moves, while no kernel runs.
LEMMA SessionStepInv == DispatchInv /\ SessionStep => DispatchInv'
<1> SUFFICES ASSUME DispatchInv, SessionStep PROVE DispatchInv'
  OBVIOUS
<1>0. [Next]_vars /\ UNCHANGED <<dispatch, entry>> /\ entry.phase # "Running"
  BY DEF SessionStep
<1>1. IInv' /\ HealthyIsApproved'
  BY <1>0, StepIInv, SessionApproves DEF DispatchInv
<1>2. health'.class = health.class /\ tokens \subseteq tokens'
  BY <1>0, SessionKeeps DEF DispatchInv
<1>3. Issued' /\ Entered'
  BY <1>0, <1>2 DEF DispatchInv, Issued, Entered
<1>4. OnlyOpportunisticFallsBack' /\ KernelRunsOnCurrentAuthority'
  <2>1. \A side : ClassOf(side)' = ClassOf(side)
    BY <1>2 DEF ClassOf
  <2>2. OnlyOpportunisticFallsBack'
    BY <1>0, <2>1 DEF DispatchInv, OnlyOpportunisticFallsBack
  <2> QED
    BY <1>0, <2>2 DEF KernelRunsOnCurrentAuthority
<1> QED
  BY <1>0, <1>1, <1>2, <1>3, <1>4 DEF DispatchInv

\* select_backend and authorize_backend.
LEMMA SelectInv == DispatchInv /\ (Select \/ Authorize) => DispatchInv'
<1> SUFFICES ASSUME DispatchInv, Select \/ Authorize PROVE DispatchInv'
  OBVIOUS
<1>1. CASE Select
  <2>1. PICK policy \in Policies, operation \in Operations, runtime \in Runtimes,
             candidate \in Actives \cup {NoActive}, scalar \in Actives :
          /\ Selection(policy, operation, runtime, candidate, scalar).error = "None"
          /\ Hold(policy, operation, Selection(policy, operation, runtime, candidate, scalar))
    BY <1>1 DEF Select
  <2>2. entry = Idle /\ UNCHANGED <<vars, entry>>
    BY <1>1 DEF Select
  <2> QED
    BY <2>1, <2>2, SelectionKeeps, HoldInv DEF DispatchInv
<1>2. CASE Authorize
  <2>1. PICK active \in Actives, operation \in Operations, runtime \in Runtimes :
          LET class == ClassOf(active.side)
              chosen == AuthorizeOn(active, operation, runtime, DirectReason(class))
          IN chosen.error = "None" /\ Hold(DirectPolicy(class), operation, chosen)
    BY <1>2 DEF Authorize
  <2>2. entry = Idle /\ UNCHANGED <<vars, entry>>
    BY <1>2 DEF Authorize
  <2>3. ClassOf(active.side) \in {"Scalar", "Accelerated", "ValidatedModule"}
    BY SessionAssumption DEF DispatchInv, ClassOf
  <2>4. Keeps(DirectPolicy(ClassOf(active.side)), ClassOf(active.side),
              DirectReason(ClassOf(active.side)))
    BY <2>3, DirectKeeps
  <2> QED
    BY <2>1, <2>2, <2>4, AuthorizedIsGiven, HoldInv
<1> QED
  BY <1>1, <1>2

\* execute_kernel, from the lease to the end of the kernel.
LEMMA EntryInv ==
  DispatchInv /\ (Enter \/ GuardRefused \/ GuardAcquired \/ KernelDone) => DispatchInv'
<1> SUFFICES ASSUME DispatchInv, Enter \/ GuardRefused \/ GuardAcquired \/ KernelDone
             PROVE  DispatchInv'
  OBVIOUS
<1>0. UNCHANGED <<vars, dispatch>>
  BY DEF Enter, GuardRefused, GuardAcquired, KernelDone
<1>1. UNCHANGED <<health, guards, kats, tokens, epoch>>
  BY <1>0 DEF vars
<1>2. IInv' /\ HealthyIsApproved' /\ (health.class \in Classes)'
  BY <1>0, <1>1, StepIInv DEF DispatchInv, HealthyIsApproved, RequiredApproval
<1>3. Issued' /\ OnlyOpportunisticFallsBack'
  BY <1>0, <1>1 DEF DispatchInv, Issued, OnlyOpportunisticFallsBack, ClassOf
<1>4. ASSUME entry' = Idle PROVE DispatchInv'
  BY <1>2, <1>3, <1>4 DEF DispatchInv, Entered, KernelRunsOnCurrentAuthority, Idle
<1>5. CASE Enter
  <2>1. dispatch # NoDispatch /\ ClassOf(dispatch.side) = "Accelerated"
    BY <1>5 DEF Enter
  <2>2. dispatch.side = "Preferred" /\ health.class = "Accelerated"
    BY <2>1 DEF ClassOf
  <2>3. PICK runtime \in Runtimes : entry' = [phase |-> "Acquiring", runtime |-> runtime]
    BY <1>5 DEF Enter
  <2>4. Entered' /\ KernelRunsOnCurrentAuthority'
    BY <1>0, <1>1, <2>1, <2>2, <2>3 DEF Entered, KernelRunsOnCurrentAuthority
  <2> QED
    BY <1>2, <1>3, <2>3, <2>4 DEF DispatchInv
<1>6. CASE GuardAcquired /\ MayRun(entry.runtime)
  <2>1. entry.phase = "Acquiring" /\ entry' = [entry EXCEPT !.phase = "Running"]
    BY <1>6 DEF GuardAcquired
  <2>2. dispatch # NoDispatch /\ dispatch.side = "Preferred" /\ health.class = "Accelerated"
    BY <2>1 DEF DispatchInv, Entered
  <2>3. RefusalOf("Preferred", dispatch, entry.runtime, dispatch.operation) = "None"
    BY <1>6, <2>2 DEF MayRun
  <2>4. /\ health.state = "Healthy" /\ dispatch.epoch = epoch
        /\ dispatch.operation \in PreferredOps
        /\ \E k \in kats : k.passed /\ k.runtime = entry.runtime
    BY <2>2, <2>3, ValidIsCurrent DEF DispatchInv
  <2>5. entry' = [phase |-> "Running", runtime |-> entry.runtime]
    BY <2>1 DEF DispatchInv
  <2>6. Entered' /\ KernelRunsOnCurrentAuthority'
    BY <1>0, <1>1, <2>2, <2>4, <2>5 DEF Entered, KernelRunsOnCurrentAuthority
  <2> QED
    BY <1>2, <1>3, <2>5, <2>6 DEF DispatchInv
<1> QED
  BY <1>4, <1>5, <1>6 DEF GuardRefused, GuardAcquired, KernelDone

-----------------------------------------------------------------------------
(* The theorems.                                                           *)

\* The inductive invariant holds in every state of the two sessions.
THEOREM DispatchInvariance == DispatchSpec => []DispatchInv
<1>1. DispatchInit => DispatchInv
  <2> SUFFICES ASSUME DispatchInit PROVE DispatchInv
    OBVIOUS
  <2>1. IInv
    BY InitIInv DEF DispatchInit
  <2>2. health.state = "NeverTested" /\ health.class \in Classes
    BY DEF DispatchInit, Init
  <2>3. dispatch = NoDispatch /\ entry = Idle /\ entry.phase = "None"
    BY DEF DispatchInit, Idle
  <2>4. entry = [phase |-> entry.phase, runtime |-> entry.runtime]
    BY <2>3 DEF Idle
  <2> QED
    BY <2>1, <2>2, <2>3, <2>4
    DEF DispatchInv, HealthyIsApproved, Issued, Entered, OnlyOpportunisticFallsBack,
        KernelRunsOnCurrentAuthority
<1>2. DispatchInv /\ [DispatchNext]_dispatchVars => DispatchInv'
  <2> SUFFICES ASSUME DispatchInv, [DispatchNext]_dispatchVars PROVE DispatchInv'
    OBVIOUS
  <2>1. CASE UNCHANGED dispatchVars
    BY <2>1, StepIInv
    DEF dispatchVars, vars, DispatchInv, HealthyIsApproved, RequiredApproval, Issued, Entered,
        OnlyOpportunisticFallsBack, KernelRunsOnCurrentAuthority, ClassOf
  <2> QED
    BY <2>1, SessionStepInv, SelectInv, EntryInv DEF DispatchNext
<1> QED
  BY <1>1, <1>2, PTL DEF DispatchSpec

\* A kernel only runs on a healthy session that saw no runtime change and no
\* quarantine since the token behind the dispatch was issued.
THEOREM KernelIsAuthorized == DispatchSpec => []KernelRunsOnCurrentAuthority
BY DispatchInvariance, PTL DEF DispatchInv

\* Only the opportunistic policy falls back, and only to scalar code.
THEOREM PolicyIsKept == DispatchSpec => []OnlyOpportunisticFallsBack
BY DispatchInvariance, PTL DEF DispatchInv

\* A dispatch of a validated module that validates rests on approval the session
\* still shows and a passed test carried.
THEOREM ApprovalStands == DispatchSpec => []ValidatedModuleStaysApproved
<1>1. DispatchInv => ValidatedModuleStaysApproved
  <2> SUFFICES ASSUME DispatchInv, dispatch # NoDispatch,
                      ClassOf(dispatch.side) = "ValidatedModule", NEW r \in Runtimes,
                      RefusalOf(dispatch.side, dispatch, r, dispatch.operation) = "None"
               PROVE  /\ health.approval = "Approved" /\ dispatch.epoch = epoch
                      /\ \E k \in kats : k.passed /\ k.runtime = r /\ k.approval = "Approved"
    BY DEF ValidatedModuleStaysApproved
  <2>1. dispatch.side = "Preferred" /\ health.class = "ValidatedModule"
    BY DEF ClassOf
  <2>2. RequiredApproval = "Approved"
    BY <2>1 DEF RequiredApproval
  <2>3. /\ health.state = "Healthy" /\ dispatch.epoch = epoch
        /\ \E k \in kats : k.passed /\ k.runtime = r /\ k.approval = RequiredApproval
    BY <2>1, ValidIsCurrent DEF DispatchInv
  <2> QED
    BY <2>2, <2>3 DEF DispatchInv, HealthyIsApproved
<1> QED
  BY <1>1, DispatchInvariance, PTL

-----------------------------------------------------------------------------
(* The two sessions under dispatch.                                        *)

\* Selection and kernel entry move the preferred session only as the session's
\* own interface allows: what was proved of one session alone holds of it.
THEOREM PreferredIsSession == DispatchSpec => Spec
<1>1. DispatchInit => Init
  BY DEF DispatchInit
<1>2. [DispatchNext]_dispatchVars => [Next]_vars
  BY DEF DispatchNext, dispatchVars, vars, SessionStep, Select, Authorize, Enter, GuardRefused,
         GuardAcquired, KernelDone
<1> QED
  BY <1>1, <1>2, PTL DEF DispatchSpec, Spec

\* The same of the scalar session, which is another instance of the same module.
THEOREM ScalarIsSession == DispatchSpec => Scalar!Spec
<1>1. DispatchInit => Scalar!Init
  BY DEF DispatchInit
<1>2. [DispatchNext]_dispatchVars => [Scalar!Next]_(Scalar!vars)
  BY DEF DispatchNext, dispatchVars, scalarVars, Scalar!vars, SessionStep, Select, Authorize,
         Enter, GuardRefused, GuardAcquired, KernelDone
<1> QED
  BY <1>1, <1>2, PTL DEF DispatchSpec, Scalar!Spec

\* So tokens are retired, quarantines are kept and stale guards fail closed
\* while dispatches are made, held and entered.
THEOREM PreferredIsSafe ==
  DispatchSpec => /\ []UsableTokenIsCurrent /\ []HealthyMeansTested
                  /\ QuarantineIsPermanent /\ StaleGuardFailsClosed
BY PreferredIsSession, UsableIsCurrent, Tested, Permanent, StaleGuard, PTL

=============================================================================

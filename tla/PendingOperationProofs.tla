------------------------ MODULE PendingOperationProofs ------------------------
(***************************************************************************)
(* The safety of PendingOperation for every limit, work budget and charge. *)
(*                                                                         *)
(* The invariants the runs check are not inductive: what a call may still  *)
(* spend depends on where it stands, so IInv says at each control point    *)
(* how the effects run so far are covered by attempts and work, and how    *)
(* the responses handed out are covered by the counter in charge.          *)
(***************************************************************************)
EXTENDS PendingOperation, TLAPS

\* Where the provider state and the ownership stand at each control point.
Ownership ==
  /\ pc \notin {"Idle", "Aborted"} => held = "Nothing" /\ resource # "None"
  /\ held = "Operation" => resource = "Active"
  /\ held = "Request" => resource = "None"
  /\ pc \in {"Drop", "Handle"} => outcome \in {"Destruction", "Unwound", "Dropped"}
  /\ pc = "Activate" => call = "Begin"
  /\ pc = "Effect" => call \in {"Resume", "Cancel"} /\ resource = "Active"
  /\ pc = "Destroy" => call \in {"Begin", "Resume", "Cancel"}
  /\ RequiredTargets(request.kind) \subseteq request.targets

\* An effect about to run is paid for; effects that ran are covered by the
\* counter of whoever will be charged next.
Accounting ==
  /\ effects + request.remaining <= WorkLimit
  /\ effects <= EffectAttempts
  /\ pc \in {"Activate", "Effect"} => effects + 1 + request.remaining <= WorkLimit
  /\ pc = "Activate" => effects + 1 <= request.attempts /\ attempts = request.attempts
  /\ pc = "Effect" => effects + 1 <= attempts
  /\ pc = "Destroy" /\ call = "Begin" => effects <= request.attempts
  /\ held = "Request" => effects <= request.attempts
  /\ held = "Operation" => effects <= attempts

\* The backpressure counter in charge covers the responses handed out.
Pushback ==
  /\ pushed <= BackpressureResponses
  /\ held = "Request" => pushed <= request.backpressure
  /\ pc = "Activate" => /\ pushed <= request.backpressure
                        /\ backpressure = request.backpressure
  /\ pc = "Destroy" /\ call = "Begin" => pushed <= request.backpressure
  /\ held = "Operation" => pushed <= backpressure
  /\ pc = "Effect" => pushed <= backpressure

\* The inductive invariant.
IInv == TypeOK /\ Ownership /\ Accounting /\ Pushback /\ SettledMeansReleased /\ NoSilentLeak

\* Whatever was admitted names the targets its kind needs.
LEMMA AdmittedTargets ==
  ASSUME NEW a \in Admitted
  PROVE  /\ a[1] \in Kinds /\ a[2] \in SUBSET Targets
         /\ RequiredTargets(a[1]) \subseteq a[2]
BY DEF Admitted, Admissible

\* A fresh request is a request.
LEMMA FreshRequest ==
  ASSUME NEW a \in Admitted
  PROVE  /\ NewRequest(a[1], a[2]) \in Requests
         /\ RequiredTargets(NewRequest(a[1], a[2]).kind) \subseteq NewRequest(a[1], a[2]).targets
         /\ NewRequest(a[1], a[2]).remaining = WorkLimit
         /\ NewRequest(a[1], a[2]).attempts = 0
         /\ NewRequest(a[1], a[2]).backpressure = 0
BY AdmittedTargets, LimitsAssumption DEF NewRequest, Requests

\* The initial states satisfy the inductive invariant.
LEMMA InitIInv == Init => IInv
<1> SUFFICES ASSUME Init PROVE IInv
  OBVIOUS
<1>1. PICK a \in Admitted : request = NewRequest(a[1], a[2])
  BY DEF Init
<1>2. TypeOK
  BY <1>1, FreshRequest, LimitsAssumption DEF Init, TypeOK, Outcomes
<1>3. Ownership
  BY <1>1, FreshRequest DEF Init, Ownership
<1>4. Accounting
  BY <1>1, FreshRequest, LimitsAssumption DEF Init, Accounting
<1>5. Pushback
  BY <1>1, FreshRequest, LimitsAssumption DEF Init, Pushback
<1>6. SettledMeansReleased /\ NoSilentLeak
  BY DEF Init, SettledMeansReleased, NoSilentLeak
<1> QED
  BY <1>2, <1>3, <1>4, <1>5, <1>6 DEF IInv

\* A fresh admission starts the accounting over.
LEMMA AdmitIInv == IInv /\ Admit => IInv'
<1> SUFFICES ASSUME IInv, Admit PROVE IInv'
  OBVIOUS
<1>1. PICK a \in Admitted : request' = NewRequest(a[1], a[2])
  BY DEF Admit
<1>2. TypeOK'
  BY <1>1, FreshRequest, LimitsAssumption DEF IInv, Admit, TypeOK, Outcomes
<1>3. Ownership'
  BY <1>1, FreshRequest DEF Admit, Ownership
<1>4. Accounting'
  BY <1>1, FreshRequest, LimitsAssumption DEF Admit, Accounting
<1>5. Pushback'
  BY <1>1, FreshRequest, LimitsAssumption DEF Admit, Pushback
<1>6. SettledMeansReleased' /\ NoSilentLeak'
  BY DEF Admit, SettledMeansReleased, NoSilentLeak
<1> QED
  BY <1>2, <1>3, <1>4, <1>5, <1>6 DEF IInv

\* A charge moves one attempt and at least one unit of work to the effect it is for.
LEMMA ChargeBounds ==
  ASSUME TypeOK, NEW used \in Nat, NEW units \in Charges(used)
  PROVE  /\ units \in Nat /\ units >= 1 /\ units <= request.remaining
         /\ used + 1 <= EffectAttempts
BY LimitsAssumption DEF Charges, TypeOK, Requests

\* What charging does to the request: an attempt more, the work less.
LEMMA ChargedRequest ==
  ASSUME NEW r \in Requests, NEW units \in Nat, units <= r.remaining,
         r.attempts + 1 <= EffectAttempts
  PROVE  LET charged == [r EXCEPT !.attempts = @ + 1, !.remaining = @ - units]
         IN /\ charged \in Requests
            /\ charged.kind = r.kind /\ charged.targets = r.targets
            /\ charged.attempts = r.attempts + 1
            /\ charged.backpressure = r.backpressure
            /\ charged.remaining = r.remaining - units
<1> DEFINE charged == [r EXCEPT !.attempts = @ + 1, !.remaining = @ - units]
<1>1. /\ charged.kind = r.kind /\ charged.targets = r.targets
      /\ charged.attempts = r.attempts + 1 /\ charged.backpressure = r.backpressure
      /\ charged.remaining = r.remaining - units
  BY DEF Requests
<1>2. charged.attempts \in 0..EffectAttempts /\ charged.remaining \in 0..WorkLimit
  BY <1>1, LimitsAssumption DEF Requests
<1>3. \A a \in 0..EffectAttempts, w \in 0..WorkLimit :
        [r EXCEPT !.attempts = a, !.remaining = w] \in Requests
  BY DEF Requests
<1>4. charged \in Requests
  <2>1. charged = [r EXCEPT !.attempts = charged.attempts, !.remaining = charged.remaining]
    BY <1>1
  <2> HIDE DEF charged
  <2> QED
    BY <1>2, <1>3, <2>1
<1> QED
  BY <1>1, <1>4

\* Begin: a refusal leaves nothing, a charge leads to inert, owned state.
LEMMA BeginIInv == IInv /\ Begin => IInv'
<1> SUFFICES ASSUME IInv, Begin PROVE IInv'
  OBVIOUS
<1> USE LimitsAssumption
<1>t. request \in Requests /\ request.attempts \in Nat /\ request.backpressure \in Nat
      /\ request.remaining \in Nat /\ effects \in Nat /\ pushed \in Nat
  BY DEF IInv, TypeOK, Requests
<1>1. CASE /\ outcome' \in Refusals(request.attempts)
           /\ UNCHANGED <<pc, request, attempts, backpressure, resource>>
  <2>1. outcome' \in Outcomes
    BY <1>1 DEF Refusals, Outcomes, Refused
  <2>2. TypeOK' /\ Ownership' /\ Accounting' /\ Pushback'
    BY <1>1, <2>1 DEF IInv, Begin, TypeOK, Ownership, Accounting, Pushback
  <2>3. SettledMeansReleased' /\ NoSilentLeak'
    BY <1>1 DEF IInv, Begin, Ownership, SettledMeansReleased, NoSilentLeak
  <2> QED
    BY <2>2, <2>3 DEF IInv
<1>2. ASSUME NEW units \in Charges(request.attempts),
             request' = [request EXCEPT !.attempts = @ + 1, !.remaining = @ - units],
             \/ outcome' = "None" /\ pc' = "Activate" /\ resource' = "Inert" /\ AdoptCounters
             \/ /\ outcome' \in {"Provider", "Unwound"}
                /\ UNCHANGED <<pc, attempts, backpressure, resource>>
      PROVE IInv'
  <2>1. units \in Nat /\ units >= 1 /\ units <= request.remaining
        /\ request.attempts + 1 <= EffectAttempts
    BY <1>2, <1>t, ChargeBounds DEF IInv
  <2>2. /\ request' \in Requests
        /\ request'.kind = request.kind /\ request'.targets = request.targets
        /\ request'.attempts = request.attempts + 1
        /\ request'.backpressure = request.backpressure
        /\ request'.remaining = request.remaining - units
    BY <1>2, <2>1, <1>t, ChargedRequest
  <2>3. TypeOK'
    BY <1>2, <2>2 DEF IInv, Begin, TypeOK, AdoptCounters, Outcomes, Requests, Refused
  <2>4. Ownership'
    BY <1>2, <2>2 DEF IInv, Begin, Ownership
  <2>5. effects' = effects /\ held' = "Nothing" /\ effects <= request.attempts
        /\ effects + request.remaining <= WorkLimit /\ effects <= EffectAttempts
        /\ pc = "Idle" /\ call' = "Begin"
    BY DEF IInv, Begin, Accounting
  <2>6. Accounting'
    BY <1>2, <2>1, <2>2, <2>5, <1>t DEF Accounting, AdoptCounters
  <2>7. Pushback'
    BY <1>2, <2>2, <1>t DEF IInv, Begin, Pushback, AdoptCounters
  <2>8. SettledMeansReleased' /\ NoSilentLeak'
    BY <1>2 DEF IInv, Begin, Ownership, SettledMeansReleased, NoSilentLeak
  <2> QED
    BY <2>3, <2>4, <2>6, <2>7, <2>8 DEF IInv
<1> QED
  BY <1>1, <1>2 DEF Begin

\* The numbers the accounting is about.
LEMMA CountersAreNat ==
  TypeOK => /\ request \in Requests /\ request.attempts \in Nat
            /\ request.backpressure \in Nat /\ request.remaining \in Nat
            /\ attempts \in Nat /\ backpressure \in Nat /\ effects \in Nat /\ pushed \in Nat
BY LimitsAssumption DEF TypeOK, Requests

\* An effect that was paid for keeps the history within the limit.
LEMMA PaidEffect == IInv /\ pc \in {"Activate", "Effect"} /\ RunEffect => effects' = effects + 1
BY CountersAreNat, LimitsAssumption DEF IInv, TypeOK, Accounting, RunEffect, Requests

\* Activate: the begin effect, or the refusal or unwind before it.
LEMMA ActivateIInv == IInv /\ Activate => IInv'
<1> SUFFICES ASSUME IInv, Activate PROVE IInv'
  OBVIOUS
<1>1. UNCHANGED <<call, request, attempts, backpressure, report, pushed>> /\ pc = "Activate"
  BY DEF Activate
<1>2. effects' \in {effects, effects + 1}
  BY PaidEffect DEF Activate
<1>3. TypeOK'
  BY <1>1, <1>2, CountersAreNat DEF IInv, Activate, TypeOK, Outcomes, Refused
<1>4. Ownership'
  BY <1>1 DEF IInv, Activate, Ownership
<1>5. Accounting'
  <2>1. call = "Begin" /\ held = "Nothing"
    BY <1>1 DEF IInv, Ownership
  <2>2. pc' \in {"Idle", "Destroy", "Drop"} /\ held' \in {"Nothing", "Operation"}
    BY <2>1 DEF Activate
  <2> QED
    BY <1>1, <1>2, <2>1, <2>2, CountersAreNat, LimitsAssumption
    DEF IInv, TypeOK, Requests, Accounting
<1>6. Pushback'
  BY <1>1 DEF IInv, Activate, Ownership, Pushback
<1>7. SettledMeansReleased' /\ NoSilentLeak'
  BY DEF IInv, Activate, Ownership, SettledMeansReleased, NoSilentLeak, Refused
<1> QED
  BY <1>3, <1>4, <1>5, <1>6, <1>7 DEF IInv

\* resume and cancel up to their effect.
LEMMA PrechargeIInv == ASSUME NEW name \in {"Resume", "Cancel"}
                       PROVE  IInv /\ Precharge(name) => IInv'
<1> SUFFICES ASSUME IInv, Precharge(name) PROVE IInv'
  OBVIOUS
<1> USE LimitsAssumption
<1>0. /\ UNCHANGED <<backpressure, resource, report, effects, pushed>>
      /\ call' = name /\ held' = "Nothing" /\ pc = "Idle" /\ held = "Operation"
  BY DEF Precharge
<1>1. CASE /\ outcome' \in Refusals(attempts)
           /\ pc' = IF outcome' = "Unwound" THEN "Drop" ELSE "Destroy"
           /\ UNCHANGED <<request, attempts>>
  <2>1. outcome' \in Outcomes
    BY <1>1 DEF Refusals, Outcomes, Refused
  <2> QED
    BY <1>0, <1>1, <2>1
    DEF IInv, TypeOK, Ownership, Accounting, Pushback, SettledMeansReleased, NoSilentLeak
<1>2. ASSUME NEW units \in Charges(attempts),
             request' = [request EXCEPT !.remaining = @ - units],
             attempts' = attempts + 1, outcome' = "None", pc' = "Effect"
      PROVE IInv'
  <2>1. /\ units \in Nat /\ units >= 1 /\ units <= request.remaining
        /\ attempts + 1 <= EffectAttempts
    BY CountersAreNat, ChargeBounds DEF IInv
  <2>2. /\ request' \in Requests
        /\ request'.kind = request.kind /\ request'.targets = request.targets
        /\ request'.attempts = request.attempts
        /\ request'.backpressure = request.backpressure
        /\ request'.remaining = request.remaining - units
    BY <1>2, <2>1 DEF IInv, TypeOK, Requests
  <2>3. TypeOK'
    BY <1>0, <1>2, <2>1, <2>2, CountersAreNat DEF IInv, TypeOK, Outcomes
  <2>4. Ownership'
    BY <1>0, <1>2, <2>2 DEF IInv, Ownership
  <2>5. Accounting'
    BY <1>0, <1>2, <2>1, <2>2, CountersAreNat DEF IInv, Accounting
  <2>6. Pushback' /\ SettledMeansReleased' /\ NoSilentLeak'
    BY <1>0, <1>2, <2>2 DEF IInv, Ownership, Pushback, SettledMeansReleased, NoSilentLeak
  <2> QED
    BY <2>3, <2>4, <2>5, <2>6 DEF IInv
<1> QED
  BY <1>1, <1>2 DEF Precharge

\* The effect of resume or of cancel, whatever it returns.
LEMMA EffectIInv == IInv /\ (ResumeEffect \/ CancelEffect) => IInv'
<1> SUFFICES ASSUME IInv, ResumeEffect \/ CancelEffect PROVE IInv'
  OBVIOUS
<1> USE LimitsAssumption
<1>0. UNCHANGED <<call, request, attempts, resource, report>> /\ pc = "Effect" /\ RunEffect
  BY DEF ResumeEffect, CancelEffect
<1>1. effects' = effects + 1 /\ held = "Nothing" /\ resource # "None"
      /\ call \in {"Resume", "Cancel"}
  BY <1>0, PaidEffect DEF IInv, Ownership
<1>2. /\ effects' + request.remaining <= WorkLimit /\ effects' <= attempts
      /\ effects' <= EffectAttempts /\ pushed <= backpressure
      /\ pushed <= BackpressureResponses
  BY <1>0, <1>1, CountersAreNat DEF IInv, TypeOK, Accounting, Pushback
<1>3. \/ /\ pc' = "Idle" /\ held' = "Operation" /\ outcome' \in {"Active", "Retry"}
         /\ UNCHANGED <<backpressure, pushed>>
      \/ /\ pc' = "Idle" /\ held' = "Operation" /\ outcome' = "Backpressure"
         /\ backpressure' = backpressure + 1 /\ pushed' = pushed + 1
         /\ backpressure' <= BackpressureResponses
      \/ /\ pc' = "Destroy"
         /\ outcome' \in {"BackpressureExhausted", "Complete", "Canceled", "Provider"}
         /\ UNCHANGED <<held, backpressure, pushed>>
      \/ /\ pc' = "Drop" /\ outcome' = "Unwound"
         /\ UNCHANGED <<held, backpressure, pushed>>
  BY DEF ResumeEffect, CancelEffect, StepBackpressure, RoomForBackpressure, StepFailed, Finish
<1>4. TypeOK'
  BY <1>0, <1>1, <1>3, CountersAreNat DEF IInv, TypeOK, Outcomes, Refused
<1>5. Ownership'
  BY <1>0, <1>1, <1>3 DEF IInv, Ownership
<1>6. Accounting'
  BY <1>0, <1>1, <1>2, <1>3 DEF Accounting
<1>7. Pushback'
  BY <1>0, <1>1, <1>2, <1>3, CountersAreNat DEF IInv, TypeOK, Pushback
<1>8. SettledMeansReleased' /\ NoSilentLeak'
  BY <1>0, <1>1, <1>3 DEF SettledMeansReleased, NoSilentLeak, Refused
<1> QED
  BY <1>4, <1>5, <1>6, <1>7, <1>8 DEF IInv

\* A recovered request: one more response may have been recorded in it.
LEMMA RecoveredRequest ==
  ASSUME request \in Requests, NEW back \in BOOLEAN,
         back => request.backpressure + 1 <= BackpressureResponses
  PROVE  /\ Recovered(back) \in Requests
         /\ Recovered(back).kind = request.kind /\ Recovered(back).targets = request.targets
         /\ Recovered(back).attempts = request.attempts
         /\ Recovered(back).remaining = request.remaining
         /\ Recovered(back).backpressure = request.backpressure + (IF back THEN 1 ELSE 0)
<1>1. /\ Recovered(back).kind = request.kind /\ Recovered(back).targets = request.targets
      /\ Recovered(back).attempts = request.attempts
      /\ Recovered(back).remaining = request.remaining
      /\ Recovered(back).backpressure = request.backpressure + (IF back THEN 1 ELSE 0)
  BY DEF Recovered, Requests
<1>2. (IF back THEN request.backpressure + 1 ELSE request.backpressure)
        \in 0..BackpressureResponses
  BY LimitsAssumption DEF Requests
<1>3. \A b \in 0..BackpressureResponses : [request EXCEPT !.backpressure = b] \in Requests
  BY DEF Requests
<1>4. Recovered(back) \in Requests
  BY <1>2, <1>3 DEF Recovered
<1> QED
  BY <1>1, <1>4

\* Destroy: the outcome waits for it; begin may get its request back.
LEMMA DestroyIInv == IInv /\ Destroy => IInv'
<1> SUFFICES ASSUME IInv, Destroy PROVE IInv'
  OBVIOUS
<1> USE LimitsAssumption
<1>0. /\ UNCHANGED <<call, attempts, backpressure, report, effects>> /\ pc = "Destroy"
      /\ held = "Nothing" /\ resource # "None" /\ call \in {"Begin", "Resume", "Cancel"}
  BY DEF IInv, Ownership, Destroy
<1>1. CASE resource' = "None" /\ pc' = "Idle" /\ UNCHANGED <<held, outcome, request, pushed>>
  BY <1>0, <1>1
  DEF IInv, TypeOK, Ownership, Accounting, Pushback, SettledMeansReleased, NoSilentLeak
<1>2. CASE /\ resource' = "None" /\ pc' = "Idle" /\ call = "Begin"
           /\ outcome' = "BackpressureExhausted" /\ UNCHANGED <<held, request, pushed>>
  BY <1>0, <1>2
  DEF IInv, TypeOK, Ownership, Accounting, Pushback, SettledMeansReleased, NoSilentLeak,
      Outcomes, Refused
<1>3. ASSUME NEW back \in BOOLEAN,
             back => request.backpressure + 1 <= BackpressureResponses,
             resource' = "None", pc' = "Idle", call = "Begin", held' = "Request",
             request' = Recovered(back), pushed' = (IF back THEN pushed + 1 ELSE pushed),
             UNCHANGED outcome
      PROVE IInv'
  <2>1. /\ request' \in Requests
        /\ request'.kind = request.kind /\ request'.targets = request.targets
        /\ request'.attempts = request.attempts /\ request'.remaining = request.remaining
        /\ request'.backpressure = request.backpressure + (IF back THEN 1 ELSE 0)
    BY <1>3, RecoveredRequest DEF IInv, TypeOK
  <2>2. TypeOK'
    BY <1>0, <1>3, <2>1, CountersAreNat DEF IInv, TypeOK
  <2>3. Ownership'
    BY <1>0, <1>3, <2>1 DEF IInv, Ownership
  <2>4. Accounting'
    BY <1>0, <1>3, <2>1 DEF IInv, Accounting
  <2>5. Pushback'
    BY <1>0, <1>3, <2>1, CountersAreNat DEF IInv, Pushback
  <2>6. SettledMeansReleased' /\ NoSilentLeak'
    BY <1>3 DEF SettledMeansReleased, NoSilentLeak
  <2> QED
    BY <2>2, <2>3, <2>4, <2>5, <2>6 DEF IInv
<1>4. CASE /\ pc' = "Drop" /\ outcome' \in {"Destruction", "Unwound"}
           /\ UNCHANGED <<held, request, resource, pushed>>
  BY <1>0, <1>4
  DEF IInv, TypeOK, Ownership, Accounting, Pushback, SettledMeansReleased, NoSilentLeak, Outcomes
<1>5. ASSUME resource' = "None", AfterDestroy, ReturnDestroyed PROVE IInv'
  <2> DEFINE back == outcome = "Backpressure"
  <2>1. CASE ~(call = "Begin" /\ outcome \in {"Retry", "Backpressure"})
    BY <1>1, <1>5, <2>1 DEF AfterDestroy, ReturnDestroyed
  <2>2. CASE /\ call = "Begin" /\ outcome \in {"Retry", "Backpressure"}
             /\ back /\ ~RoomForBackpressure(request.backpressure)
    BY <1>2, <1>5, <2>2 DEF AfterDestroy, ReturnDestroyed
  <2>3. CASE /\ call = "Begin" /\ outcome \in {"Retry", "Backpressure"}
             /\ ~(back /\ ~RoomForBackpressure(request.backpressure))
    <3>1. /\ held' = "Request" /\ request' = Recovered(back) /\ pc' = "Idle"
          /\ pushed' = (IF back THEN pushed + 1 ELSE pushed) /\ UNCHANGED outcome
      BY <1>5, <2>3 DEF AfterDestroy, ReturnDestroyed
    <3>2. back => request.backpressure + 1 <= BackpressureResponses
      BY <2>3 DEF RoomForBackpressure
    <3> QED
      BY <1>3, <1>5, <2>3, <3>1, <3>2
  <2> QED
    BY <2>1, <2>2, <2>3
<1> QED
  BY <1>4, <1>5 DEF Destroy, AfterFailedDestroy

\* Dropping what is owned, the destruction inside Drop, and its failure.
LEMMA DropIInv == IInv /\ (Discard \/ DropDestroy \/ HandleDropFailure) => IInv'
<1> SUFFICES ASSUME IInv PROVE Discard \/ DropDestroy \/ HandleDropFailure => IInv'
  OBVIOUS
<1>1. Discard => IInv'
  BY DEF IInv, Discard, TypeOK, Ownership, Accounting, Pushback, SettledMeansReleased,
         NoSilentLeak, Outcomes, Refused
<1>2. DropDestroy => IInv'
  BY DEF IInv, DropDestroy, AfterFailedDrop, TypeOK, Ownership, Accounting, Pushback,
         SettledMeansReleased, NoSilentLeak, Outcomes, Refused
<1>3. HandleDropFailure => IInv'
  BY DEF IInv, HandleDropFailure, TypeOK, Ownership, Accounting, Pushback,
         SettledMeansReleased, NoSilentLeak, Refused
<1> QED
  BY <1>1, <1>2, <1>3

\* A step that changes nothing keeps the invariant.
LEMMA StutterIInv == IInv /\ UNCHANGED vars => IInv'
BY DEF IInv, vars, TypeOK, Ownership, Accounting, Pushback, SettledMeansReleased, NoSilentLeak

\* IInv holds in every state the lifecycle can reach.
THEOREM Invariance == Spec => []IInv
<1>1. IInv /\ [Next]_vars => IInv'
  <2> SUFFICES ASSUME IInv, [Next]_vars PROVE IInv'
    OBVIOUS
  <2>1. CASE Admit
    BY <2>1, AdmitIInv
  <2>2. CASE Begin
    BY <2>2, BeginIInv
  <2>3. CASE Resume \/ Cancel
    BY <2>3, PrechargeIInv DEF Resume, Cancel
  <2>4. CASE Activate
    BY <2>4, ActivateIInv
  <2>5. CASE ResumeEffect \/ CancelEffect
    BY <2>5, EffectIInv
  <2>6. CASE Destroy
    BY <2>6, DestroyIInv
  <2>7. CASE Discard \/ DropDestroy \/ HandleDropFailure
    BY <2>7, DropIInv
  <2>8. CASE Halted \/ UNCHANGED vars
    BY <2>8, StutterIInv DEF Halted
  <2> QED
    BY <2>1, <2>2, <2>3, <2>4, <2>5, <2>6, <2>7, <2>8 DEF Next, Inside
<1> QED
  BY <1>1, InitIInv, PTL DEF Spec

\* The variables keep their types and the counters their limits, for every limit.
THEOREM TypeCorrect == Spec => []TypeOK
BY Invariance, PTL DEF IInv

\* A result that promises the provider state is gone is only returned when it is.
THEOREM Settled == Spec => []SettledMeansReleased
BY Invariance, PTL DEF IInv

\* Provider state let go of without destruction never goes unnoticed.
THEOREM Noticed == Spec => []NoSilentLeak
BY Invariance, PTL DEF IInv

\* Every effect over the life of a request was paid for with work and an attempt.
THEOREM Precharged == Spec => []EffectsPrecharged
<1>1. IInv => EffectsPrecharged
  BY DEF IInv, Accounting, EffectsPrecharged
<1> QED
  BY <1>1, Invariance, PTL

\* The caller never sees more backpressure results than the limit.
THEOREM Bounded == Spec => []PushbackBounded
<1>1. IInv => PushbackBounded
  BY DEF IInv, Pushback, PushbackBounded
<1> QED
  BY <1>1, Invariance, PTL

\* destroy only ever meets state that is still there, named by its targets.
THEOREM DestroysOwned == Spec => []DestroysOwnedState
<1>1. IInv => DestroysOwnedState
  BY DEF IInv, Ownership, DestroysOwnedState
<1> QED
  BY <1>1, Invariance, PTL

-----------------------------------------------------------------------------
(* Requests are finite.                                                    *)

\* The attempts counted by whoever is in charge of the request.
Used == IF held = "Request" \/ (pc # "Idle" /\ call = "Begin") THEN request.attempts ELSE attempts

\* The most steps of a call in progress, and one of the caller before the next.
Ahead ==
  CASE pc \in {"Activate", "Effect"} -> 5
    [] pc = "Destroy" -> 3
    [] pc = "Drop"    -> 2
    [] pc = "Handle"  -> 1
    [] pc = "Idle" /\ held = "Request"   -> 1
    [] pc = "Idle" /\ held = "Operation" -> 4
    [] OTHER -> 0

Ended == pc = "Aborted" \/ (pc = "Idle" /\ held = "Nothing")

\* The most steps a request can still take, over all the calls made with it.
StepsLeft == IF Ended THEN 0 ELSE 5 * (EffectAttempts - Used) + Ahead

\* Whatever the effect answers and the caller does, every step brings a request
\* nearer to its end; it is admitted with five steps for each attempt and one.
RequestsAreFinite ==
  [][\/ StepsLeft' < StepsLeft
     \/ Ended /\ StepsLeft' = 5 * EffectAttempts + 1]_vars

\* The counters of a request stay within the limits.
LEMMA UsedBounds ==
  ASSUME IInv
  PROVE  /\ request.attempts \in 0..EffectAttempts /\ attempts \in 0..EffectAttempts
         /\ EffectAttempts \in Nat /\ EffectAttempts > 0
         /\ Used \in Nat /\ Used <= EffectAttempts
BY LimitsAssumption DEF IInv, TypeOK, Requests, Used

\* What is left is a number, and not zero before the end.
LEMMA StepsAreNatural ==
  ASSUME IInv
  PROVE  /\ StepsLeft \in Nat /\ Ahead \in Nat
         /\ ~Ended => StepsLeft = 5 * (EffectAttempts - Used) + Ahead /\ Ahead > 0
         /\ ~Ended => StepsLeft > 0
<1>1. Ahead \in Nat /\ (~Ended => Ahead > 0)
  BY DEF Ahead, Ended, IInv, TypeOK
<1> QED
  BY <1>1, UsedBounds DEF StepsLeft

\* A step that uses no attempt, or the one step that uses one.
LEMMA Nearer ==
  ASSUME IInv, ~Ended,
         \/ Ended'
         \/ Ahead' \in Nat /\ Used' = Used /\ Ahead' < Ahead
         \/ Ahead' \in 0..5 /\ Used' = Used + 1
  PROVE  StepsLeft' < StepsLeft
<1>1. CASE Ended'
  BY <1>1, StepsAreNatural DEF StepsLeft
<1>2. CASE ~Ended'
  <2>1. StepsLeft' = 5 * (EffectAttempts - Used') + Ahead'
    BY <1>2 DEF StepsLeft
  <2> QED
    BY <1>2, <2>1, StepsAreNatural, UsedBounds
<1> QED
  BY <1>1, <1>2

LEMMA BeginNearer == ASSUME IInv, Begin PROVE ~Ended /\ StepsLeft' < StepsLeft
<1>1. pc = "Idle" /\ held = "Request" /\ held' = "Nothing" /\ call' = "Begin"
  BY DEF Begin
<1>2. ~Ended /\ Used = request.attempts
  BY <1>1 DEF Ended, Used
<1>3. CASE pc' = pc
  BY <1>1, <1>2, <1>3, Nearer DEF Ended
<1>4. CASE pc' = "Activate" /\ \E units : request' = [request EXCEPT !.attempts = @ + 1,
                                                                     !.remaining = @ - units]
  <2>1. request'.attempts = request.attempts + 1
    BY <1>4 DEF IInv, TypeOK, Requests
  <2>2. Used' = Used + 1 /\ Ahead' = 5
    BY <1>1, <1>2, <1>4, <2>1 DEF Used, Ahead
  <2> QED
    BY <1>2, <2>2, Nearer
<1> QED
  BY <1>1, <1>2, <1>3, <1>4 DEF Begin

LEMMA PrechargeNearer ==
  ASSUME IInv, NEW name \in {"Resume", "Cancel"}, Precharge(name)
  PROVE  ~Ended /\ StepsLeft' < StepsLeft
<1>1. pc = "Idle" /\ held = "Operation" /\ held' = "Nothing" /\ call' = name
  BY DEF Precharge
<1>2. ~Ended /\ Used = attempts /\ Ahead = 4
  BY <1>1 DEF Ended, Used, Ahead
<1>3. CASE pc' \in {"Drop", "Destroy"} /\ attempts' = attempts
  BY <1>1, <1>2, <1>3, Nearer DEF Used, Ahead
<1>4. CASE pc' = "Effect" /\ attempts' = attempts + 1
  BY <1>1, <1>2, <1>4, Nearer DEF Used, Ahead
<1> QED
  BY <1>2, <1>3, <1>4 DEF Precharge

\* The steps inside a call, and letting go of what is owned.
LEMMA InsideNearer == ASSUME IInv, Inside \/ Discard PROVE ~Ended /\ StepsLeft' < StepsLeft
<1>1. ~Ended
  BY DEF Inside, Discard, Activate, ResumeEffect, CancelEffect, Destroy, DropDestroy,
         HandleDropFailure, Ended
<1>2. CASE Activate
  <2>1. /\ pc = "Activate" /\ call = "Begin" /\ attempts = request.attempts
        /\ UNCHANGED <<call, request, attempts>> /\ held = "Nothing"
        /\ pc' \in {"Destroy", "Drop"} \/ (pc' = "Idle" /\ held' = "Operation")
    BY <1>2 DEF Activate, IInv, Ownership, Accounting
  <2>2. Used = attempts /\ Used' = attempts
    BY <2>1 DEF Used
  <2>3. Ahead = 5 /\ Ahead' \in {2, 3, 4}
    BY <2>1 DEF Ahead
  <2> QED
    BY <1>1, <2>2, <2>3, Nearer
<1>3. CASE ResumeEffect \/ CancelEffect
  <2>1. /\ pc = "Effect" /\ call \in {"Resume", "Cancel"} /\ UNCHANGED <<call, attempts>>
        /\ held = "Nothing"
        /\ (pc' \in {"Destroy", "Drop"} /\ held' = held) \/ (pc' = "Idle" /\ held' = "Operation")
    BY <1>3 DEF ResumeEffect, CancelEffect, StepBackpressure, StepFailed, Finish, IInv, Ownership
  <2>2. Used = attempts /\ Used' = attempts
    BY <2>1 DEF Used
  <2>3. Ahead = 5 /\ Ahead' \in {2, 3, 4}
    BY <2>1 DEF Ahead
  <2> QED
    BY <1>1, <2>2, <2>3, Nearer
<1>4. CASE Destroy
  <2>1. pc = "Destroy" /\ held = "Nothing" /\ UNCHANGED <<call, attempts>>
    BY <1>4 DEF Destroy, IInv, Ownership
  <2>2. CASE pc' = "Drop" /\ UNCHANGED <<held, request>>
    <3>1. Used' = Used /\ Ahead = 3 /\ Ahead' = 2
      BY <2>1, <2>2 DEF Used, Ahead
    <3> QED
      BY <1>1, <3>1, Nearer
  <2>3. CASE pc' = "Idle" /\ held' = "Nothing"
    BY <1>1, <2>3, Nearer DEF Ended
  <2>4. CASE /\ pc' = "Idle" /\ held' = "Request" /\ call = "Begin"
             /\ \E back : request' = Recovered(back)
    <3>1. request'.attempts = request.attempts
      BY <2>4 DEF Recovered, IInv, TypeOK, Requests
    <3>2. Used' = Used /\ Ahead = 3 /\ Ahead' = 1
      BY <2>1, <2>4, <3>1 DEF Used, Ahead
    <3> QED
      BY <1>1, <3>2, Nearer
  <2> QED
    BY <1>4, <2>1, <2>2, <2>3, <2>4
    DEF Destroy, AfterDestroy, AfterFailedDestroy, ReturnDestroyed
<1>5. CASE DropDestroy \/ HandleDropFailure
  <2>1. /\ pc \in {"Drop", "Handle"} /\ held = "Nothing" /\ UNCHANGED <<call, held, request, attempts>>
        /\ pc' \in {"Idle", "Aborted"} \/ (pc = "Drop" /\ pc' = "Handle")
    BY <1>5 DEF DropDestroy, HandleDropFailure, AfterFailedDrop, IInv, Ownership
  <2>2. CASE pc' \in {"Idle", "Aborted"}
    BY <1>1, <2>1, <2>2, Nearer DEF Ended
  <2>3. CASE pc = "Drop" /\ pc' = "Handle"
    <3>1. Used' = Used /\ Ahead = 2 /\ Ahead' = 1
      BY <2>1, <2>3 DEF Used, Ahead
    <3> QED
      BY <1>1, <3>1, Nearer
  <2> QED
    BY <2>1, <2>2, <2>3
<1>6. CASE Discard
  <2>1. /\ pc = "Idle" /\ held # "Nothing" /\ held' = "Nothing" /\ call' = "Drop"
        /\ UNCHANGED <<request, attempts>>
        /\ pc' = IF held = "Operation" THEN "Drop" ELSE "Idle"
    BY <1>6 DEF Discard
  <2>2. CASE held = "Operation"
    <3>1. Used' = Used /\ Ahead = 4 /\ Ahead' = 2
      BY <2>1, <2>2 DEF Used, Ahead
    <3> QED
      BY <1>1, <3>1, Nearer
  <2>3. CASE held # "Operation"
    BY <1>1, <2>1, <2>3, Nearer DEF Ended
  <2> QED
    BY <2>2, <2>3
<1> QED
  BY <1>2, <1>3, <1>4, <1>5, <1>6 DEF Inside

\* Requests are finite, for all limits and work: what EveryCallReturns and
\* DrivenRequestEnds need of the code beside a thread and a caller that go on.
THEOREM Finite == Spec => [](StepsLeft \in Nat) /\ RequestsAreFinite
<1> DEFINE Nears == \/ StepsLeft' < StepsLeft
                    \/ Ended /\ StepsLeft' = 5 * EffectAttempts + 1
<1>1. IInv => StepsLeft \in Nat
  BY StepsAreNatural
<1>2. IInv /\ [Next]_vars => [Nears]_vars
  <2> SUFFICES ASSUME IInv, Next, ~UNCHANGED vars PROVE Nears
    OBVIOUS
  <2>1. CASE Admit
    <3>1. PICK a \in Admitted : request' = NewRequest(a[1], a[2])
      BY <2>1 DEF Admit
    <3>2. Ended /\ ~Ended' /\ Used' = 0 /\ Ahead' = 1
      BY <2>1, <3>1, FreshRequest DEF Admit, Ended, Used, Ahead
    <3> QED
      BY <3>2, UsedBounds DEF StepsLeft
  <2>2. CASE Begin
    BY <2>2, BeginNearer
  <2>3. CASE Resume \/ Cancel
    BY <2>3, PrechargeNearer DEF Resume, Cancel
  <2>4. CASE Discard \/ Inside
    BY <2>4, InsideNearer
  <2>5. ~Halted
    BY DEF Halted
  <2> QED
    BY <2>1, <2>2, <2>3, <2>4, <2>5 DEF Next
<1> QED
  BY <1>1, <1>2, Invariance, PTL DEF Spec, RequestsAreFinite

=============================================================================

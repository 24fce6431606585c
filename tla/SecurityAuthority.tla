---------------------------- MODULE SecurityAuthority ----------------------------
(***************************************************************************)
(* Security decisions (brynja-core, security_outcome/): an authority's     *)
(* record, the affine values that hold its open decision, and the          *)
(* destruction of external keys, whose success only a provider's answer    *)
(* to the decision's one token can establish (state.rs, outcome.rs,        *)
(* resolution.rs, external_key.rs).                                        *)
(*                                                                         *)
(* A program has several authorities of one lifetime, so tokens and        *)
(* answers may be handed to the wrong key; it may drop or forget           *)
(* (mem::forget) any value at any time.                                    *)
(***************************************************************************)
EXTENDS Integers

CONSTANTS
  Authorities,     \* the authorities of the program
  Kinds,           \* the kinds of decision to consider
  Reasons,         \* the terminal reasons a program may resolve with
  MaxGeneration    \* the last value of the generation (u64::MAX in the code)

ASSUME AuthorityAssumption ==
  /\ MaxGeneration \in Nat \ {0}
  /\ "KeyLifecycle" \in Kinds

VARIABLES
  record,      \* each authority's record
  values,      \* the pending decisions, keys and outcomes the program holds
  tokens,      \* destruction tokens, and the answers they were consumed into
  forgotten,   \* history: the values that ceased to exist without a Drop
  committed,   \* history: the decisions committed, as <<authority, generation>>
  destroyed,   \* history: those whose key destruction a provider completed,
  refused,     \*   those of which a provider reported failure,
  accepted     \*   and those committed as accepted key decisions

vars == <<record, values, tokens, forgotten, committed, destroyed, refused, accepted>>
history == <<forgotten, committed, destroyed, refused, accepted>>

\* resolution.rs: which kinds a reason belongs to.
RejectionKinds ==
  [Unsupported    |-> {"ProtocolSelection", "ProfileSelection", "ServiceApproval", "Provider"},
   Policy         |-> {"Policy"},        Authentication |-> {"Authentication"},
   Replay         |-> {"AntiReplay"},    Amplification  |-> {"Amplification"},
   Ticket         |-> {"Ticket"},        Psk            |-> {"Psk"},
   EarlyData      |-> {"EarlyData"},     Ech            |-> {"Ech"}]
FailureKinds ==
  [SelfTest       |-> {"SelfTest"},       Provider     |-> {"Provider"},
   Exhaustion     |-> {"Exhaustion"},     Authentication |-> {"Authentication"},
   KeyLifecycle   |-> {"KeyLifecycle"},   Policy       |-> {"Policy"}]

Plain(type) == [type |-> type, reason |-> "none"]
NoDisposition == Plain("none")

\* SecurityResolution; a disposition is a resolution that awaits its commitment.
Resolutions ==
  { Plain(t) : t \in {"Pending", "Accepted", "Approved", "NonApproved", "Canceled"} }
  \cup [type : {"Rejected"}, reason : DOMAIN RejectionKinds]
  \cup [type : {"Failed"}, reason : DOMAIN FailureKinds]
  \cup [type : {"Terminal"}, reason : Reasons]

\* A pending decision or an outcome; key: it is inside an
\* ExternalKeyDestruction, which may have issued its token.
Value(stage, a, generation, kind, disposition, key, issued) ==
  [stage |-> stage, authority |-> a, generation |-> generation, kind |-> kind,
   disposition |-> disposition, key |-> key, issued |-> issued]

Record(state, kind, disposition, generation, reason) ==
  [state |-> state, kind |-> kind, disposition |-> disposition,
   generation |-> generation, reason |-> reason]

\* The record that a value stands for.
RecordOf(v) == Record(v.stage, v.kind, v.disposition, v.generation, "none")
Current(v) == record[v.authority] = RecordOf(v)

Ready(generation) == Record("Ready", "none", NoDisposition, generation, "none")
Terminal(generation, reason) == Record("Terminal", "none", NoDisposition, generation, reason)

\* fail_terminal: the first reason stays; at the last generation it gives way.
FailedTerminally(r, reason) ==
  IF r.state = "Terminal" THEN r
  ELSE IF r.generation < MaxGeneration THEN Terminal(r.generation + 1, reason)
  ELSE Terminal(r.generation, "GenerationExhausted")

Fail(a, reason) == record' = [record EXCEPT ![a] = FailedTerminally(@, reason)]

Init ==
  /\ record = [a \in Authorities |-> Ready(1)]
  /\ values = {} /\ tokens = {} /\ forgotten = {}
  /\ committed = {} /\ destroyed = {} /\ refused = {} /\ accepted = {}

-----------------------------------------------------------------------------
(* SecurityAuthority::begin and ExternalKeyDestruction::begin.  A busy or  *)
(* terminal authority answers with an error and nothing changes.           *)

Begin(a, kind, key) ==
  /\ record[a].state = "Ready" /\ (key => kind = "KeyLifecycle")
  /\ IF record[a].generation < MaxGeneration
     THEN LET v == Value("Pending", a, record[a].generation + 1, kind, NoDisposition, key, FALSE)
          IN record' = [record EXCEPT ![a] = RecordOf(v)] /\ values' = values \cup {v}
     ELSE Fail(a, "GenerationExhausted") /\ UNCHANGED values
  /\ UNCHANGED <<tokens, history>>

\* What SecurityAuthority::resolve lets through; only the destruction of an
\* external key is verified.
Admits(kind, resolution, verified) ==
  LET type == resolution.type IN
  /\ type # "Approved"
  /\ (type = "Accepted") => (verified /\ kind # "ServiceApproval")
  /\ (type = "NonApproved") => (kind = "ServiceApproval")
  /\ (kind = "TerminalTransition") => (type \in {"Pending", "Terminal"})
  /\ (type = "Rejected") => (kind \in RejectionKinds[resolution.reason])
  /\ (type = "Failed") => (kind \in FailureKinds[resolution.reason])

\* SecurityAuthority::resolve, which consumes the pending value.
Resolved(v, resolution, verified) ==
  LET a == v.authority
      outcome == Value("AwaitingCommit", a, v.generation, v.kind, resolution, FALSE, FALSE)
      Terminally(reason) == Fail(a, reason) /\ values' = values \ {v}
  IN IF ~Current(v) \/ ~Admits(v.kind, resolution, verified)
     THEN Terminally("ContractInvariant")
     ELSE IF v.kind = "SelfTest" /\ resolution = [type |-> "Failed", reason |-> "SelfTest"]
     THEN Terminally("Integrity")
     ELSE IF resolution.type = "Terminal" THEN Terminally(resolution.reason)
     ELSE IF resolution.type = "Pending" THEN UNCHANGED <<record, values>>
     ELSE /\ record' = [record EXCEPT ![a] = RecordOf(outcome)]
          /\ values' = (values \ {v}) \cup {outcome}

\* SecurityPending::resolve: never verified.
Resolve(v, resolution) ==
  /\ v.stage = "Pending" /\ ~v.key
  /\ Resolved(v, resolution, FALSE) /\ UNCHANGED <<tokens, history>>

-----------------------------------------------------------------------------
(* External keys.                                                          *)

\* Fault: the key does not remember its token.
IssueAgain(v) == v

\* token_issued.
Issue(v) == [v EXCEPT !.issued = TRUE]

DestructionToken(v) ==
  /\ v.key /\ ~v.issued
  /\ values' = (values \ {v}) \cup {Issue(v)}
  /\ tokens' = tokens \cup {[authority |-> v.authority, generation |-> v.generation,
                             status |-> "token"]}
  /\ UNCHANGED <<record, history>>

\* The provider asserts that the key is gone, or that it failed.
Answer(t, status) ==
  /\ t.status = "token" /\ tokens' = (tokens \ {t}) \cup {[t EXCEPT !.status = status]}
  /\ destroyed' = IF status = "complete"
                  THEN destroyed \cup {<<t.authority, t.generation>>} ELSE destroyed
  /\ refused' = IF status = "failed" THEN refused \cup {<<t.authority, t.generation>>}
                ELSE refused
  /\ UNCHANGED <<record, values, forgotten, committed, accepted>>

\* finish: an answer to another decision, or a failure, is fatal.
Finish(v, t) ==
  /\ v.key /\ t.status \in {"complete", "failed"} /\ tokens' = tokens \ {t}
  /\ IF t.authority # v.authority \/ t.generation # v.generation
     THEN Resolved(v, [type |-> "Terminal", reason |-> "ContractInvariant"], FALSE)
     ELSE IF t.status = "complete" THEN Resolved(v, Plain("Accepted"), TRUE)
     ELSE Resolved(v, [type |-> "Terminal", reason |-> "ExternalKeyDestruction"], FALSE)
  /\ UNCHANGED history

\* abort, and the key's Drop.
Abort(v) ==
  /\ v.key
  /\ Resolved(v, [type |-> "Terminal", reason |-> "ExternalKeyDestruction"], FALSE)
  /\ UNCHANGED <<tokens, history>>

DropToken(t) == tokens' = tokens \ {t} /\ UNCHANGED <<record, values, history>>

-----------------------------------------------------------------------------
(* Outcomes, and values that are let go of.                                *)

\* Completion::commit and SecurityAuthority::commit.
Commit(v) ==
  /\ v.stage = "AwaitingCommit" /\ values' = values \ {v}
  /\ IF Current(v)
     THEN /\ record' = [record EXCEPT ![v.authority] = Ready(v.generation)]
          /\ committed' = committed \cup {<<v.authority, v.generation>>}
          /\ accepted' = IF v.kind = "KeyLifecycle" /\ v.disposition = Plain("Accepted")
                         THEN accepted \cup {<<v.authority, v.generation>>} ELSE accepted
     ELSE Fail(v.authority, "ContractInvariant") /\ UNCHANGED <<committed, accepted>>
  /\ UNCHANGED <<tokens, forgotten, destroyed, refused>>

\* Fault: a pending decision that is dropped fails nothing.
AbandonedQuietly(v) ==
  IF v.stage = "Pending" THEN record
  ELSE [record EXCEPT ![v.authority] = FailedTerminally(@, "OutcomeAbandoned")]

\* Fault: an outcome that is dropped leaves the authority ready again.
AbandonedReady(v) ==
  [record EXCEPT ![v.authority] = IF v.stage = "Pending"
                                  THEN FailedTerminally(@, "DecisionAbandoned")
                                  ELSE Ready(v.generation)]

\* Drop for SecurityPending and for Completion.
Abandoned(v) ==
  [record EXCEPT ![v.authority] =
     FailedTerminally(@, IF v.stage = "Pending" THEN "DecisionAbandoned" ELSE "OutcomeAbandoned")]

Drop(v) ==
  /\ ~v.key /\ record' = Abandoned(v) /\ values' = values \ {v}
  /\ UNCHANGED <<tokens, history>>

\* mem::forget: the authority stays busy for ever.
Forget(v) ==
  /\ values' = values \ {v} /\ forgotten' = forgotten \cup {v}
  /\ UNCHANGED <<record, tokens, committed, destroyed, refused, accepted>>

Next ==
  \/ \E a \in Authorities, kind \in Kinds, key \in BOOLEAN : Begin(a, kind, key)
  \/ \E v \in values :
       \/ \E r \in Resolutions : Resolve(v, r)
       \/ DestructionToken(v) \/ Abort(v) \/ Commit(v) \/ Drop(v) \/ Forget(v)
       \/ \E t \in tokens : Finish(v, t)
  \/ \E t \in tokens : DropToken(t) \/ \E status \in {"complete", "failed"} : Answer(t, status)

Spec == Init /\ [][Next]_vars

-----------------------------------------------------------------------------
(* Properties.                                                             *)

States == {"Ready", "Pending", "AwaitingCommit", "Terminal"}
Stages == {"Pending", "AwaitingCommit"}
AllReasons == Reasons \cup {"none", "ContractInvariant", "Integrity", "ExternalKeyDestruction",
                            "DecisionAbandoned", "OutcomeAbandoned", "GenerationExhausted"}

\* Types; the generation stays within its width.
TypeOK ==
  /\ record \in [Authorities -> [state : States, kind : Kinds \cup {"none"},
                                 disposition : Resolutions \cup {NoDisposition},
                                 generation : 1..MaxGeneration, reason : AllReasons]]
  /\ values \cup forgotten \subseteq
       [stage : Stages, authority : Authorities, generation : 1..MaxGeneration, kind : Kinds,
        disposition : Resolutions \cup {NoDisposition}, key : BOOLEAN, issued : BOOLEAN]
  /\ tokens \subseteq [authority : Authorities, generation : 1..MaxGeneration,
                       status : {"token", "complete", "failed"}]
  /\ committed \cup destroyed \cup refused \cup accepted
       \subseteq Authorities \X (1..MaxGeneration)

Busy(a) == record[a].state \in {"Pending", "AwaitingCommit"}

\* An authority has an open decision exactly while one value for it exists, or
\* was forgotten, and each such value is the one its record waits for: none is
\* stale, and none disappears without a trace in the record.
DecisionsAreHeld ==
  /\ \A v \in values : Current(v)
  /\ \A v, w \in values : (v.authority = w.authority) => (v = w)
  /\ \A a \in Authorities : Busy(a) => \E v \in values \cup forgotten : v.authority = a /\ Current(v)

\* An authority is ready again only if every decision it ever began has been
\* committed: a dropped, refused or terminal one ends it for good.
ReadyMeansAllCommitted ==
  \A a \in Authorities : (record[a].state = "Ready") =>
    \A g \in 2..record[a].generation : <<a, g>> \in committed

\* A key decision is accepted, awaiting its commitment or committed, only if
\* the provider completed the destruction for that very decision and never
\* reported that it failed, however tokens and answers were exchanged.
AcceptedKeysAreDestroyed ==
  LET awaiting == { <<v.authority, v.generation>> : v \in { w \in values \cup forgotten :
                      w.kind = "KeyLifecycle" /\ w.disposition = Plain("Accepted") } }
  IN accepted \cup awaiting \subseteq destroyed \ refused

=============================================================================

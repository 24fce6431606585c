------------------------ MODULE SecurityAuthorityProofs ------------------------
(***************************************************************************)
(* For any authorities, kinds, reasons and width of the generation: every  *)
(* open decision is held by one value, a ready authority has committed all *)
(* it began, and accepted keys are destroyed.                              *)
(*                                                                         *)
(* That decisions are held is inductive by itself; the rest is not.  That  *)
(* an authority is ready needs what a busy one has committed (Settled);    *)
(* that keys are destroyed needs that a decision never gets a second token *)
(* (OneToken), which rests on generations that only grow (Known).          *)
(***************************************************************************)
EXTENDS SecurityAuthority, TLAPS

\* A busy authority has committed every decision but the open one.
Settled ==
  \A a \in Authorities :
    /\ (record[a].state = "Ready") => \A g \in 2..record[a].generation : <<a, g>> \in committed
    /\ Busy(a) => \A g \in 2..record[a].generation - 1 : <<a, g>> \in committed

\* Tokens and answers are for decisions that were begun.
Known ==
  /\ \A t \in tokens : t.generation <= record[t.authority].generation
  /\ \A d \in destroyed \cup refused : d[2] <= record[d[1]].generation

\* Nothing was issued or answered for this decision.
Untouched(a, g) ==
  /\ \A t \in tokens : ~(t.authority = a /\ t.generation = g)
  /\ <<a, g>> \notin destroyed \cup refused

\* A decision has one token, and one answer to it.
OneToken ==
  /\ \A t, u \in tokens : (t.authority = u.authority /\ t.generation = u.generation) => t = u
  /\ \A t \in tokens : (t.status = "token") => <<t.authority, t.generation>> \notin destroyed \cup refused
  /\ \A t \in tokens : (t.status = "complete") => <<t.authority, t.generation>> \in destroyed
  /\ \A v \in values : (v.key /\ ~v.issued) => Untouched(v.authority, v.generation)
  /\ destroyed \cap refused = {}

\* Accepted keys, with the operators of the property out of the way.
Destroyed ==
  /\ accepted \subseteq destroyed
  /\ \A v \in values \cup forgotten :
       (v.kind = "KeyLifecycle" /\ v.disposition = Plain("Accepted"))
         => <<v.authority, v.generation>> \in destroyed

IInv == TypeOK /\ DecisionsAreHeld /\ Settled /\ Known /\ OneToken /\ Destroyed

Records == [state : States, kind : Kinds \cup {"none"},
            disposition : Resolutions \cup {NoDisposition},
            generation : 1..MaxGeneration, reason : AllReasons]
Values == [stage : Stages, authority : Authorities, generation : 1..MaxGeneration, kind : Kinds,
           disposition : Resolutions \cup {NoDisposition}, key : BOOLEAN, issued : BOOLEAN]

-------------------------------------------------------------------------------
\* The invariant holds at the start.
LEMMA InitInv == Init => IInv
<1> SUFFICES ASSUME Init PROVE IInv
  OBVIOUS
<1> USE AuthorityAssumption DEF Init, Ready, Record
<1>1. TypeOK
  <2>1. 1 \in 1..MaxGeneration
    OBVIOUS
  <2>2. Ready(1) \in Records
    BY <2>1 DEF Records, States, AllReasons
  <2> QED
    BY <2>2 DEF TypeOK, Records
<1>2. DecisionsAreHeld /\ Settled /\ Known
  BY DEF DecisionsAreHeld, Settled, Known, Busy
<1>3. OneToken /\ Destroyed
  BY DEF OneToken, Destroyed
<1> QED
  BY <1>1, <1>2, <1>3 DEF IInv

\* What is known of a value: its record is busy with it, and typed.
LEMMA ValueKnown ==
  ASSUME IInv, NEW v \in values
  PROVE  /\ v \in Values /\ record[v.authority] \in Records
         /\ record[v.authority] = RecordOf(v)
         /\ record[v.authority].generation = v.generation
         /\ Busy(v.authority)
         /\ \A w \in values \ {v} : w.authority # v.authority
<1>1. v \in Values
  BY DEF IInv, TypeOK, Values
<1>2. record[v.authority] \in Records
  BY <1>1 DEF IInv, TypeOK, Values, Records
<1>3. record[v.authority] = RecordOf(v)
  BY DEF IInv, DecisionsAreHeld, Current
<1>4. v.stage \in Stages
  BY <1>1 DEF Values
<1>5. Busy(v.authority)
  BY <1>3, <1>4 DEF RecordOf, Record, Busy, Stages
<1>6. \A w \in values \ {v} : w.authority # v.authority
  BY DEF IInv, DecisionsAreHeld
<1>7. record[v.authority].generation = v.generation
  BY <1>3 DEF RecordOf, Record
<1> QED
  BY <1>1, <1>2, <1>3, <1>5, <1>6, <1>7

\* fail_terminal keeps the types and never lowers the generation.
LEMMA TerminalRecord ==
  ASSUME NEW r \in Records, NEW reason \in AllReasons
  PROVE  /\ FailedTerminally(r, reason) \in Records
         /\ FailedTerminally(r, reason).state = "Terminal"
         /\ FailedTerminally(r, reason).generation >= r.generation
<1> USE AuthorityAssumption DEF FailedTerminally, Terminal, Record
<1>1. r.generation \in 1..MaxGeneration /\ r.state \in States
  BY DEF Records
<1>2. CASE r.state = "Terminal"
  BY <1>1, <1>2
<1>3. CASE r.state # "Terminal" /\ r.generation < MaxGeneration
  <2>1. r.generation + 1 \in 1..MaxGeneration
    BY <1>1, <1>3
  <2>2. Terminal(r.generation + 1, reason) \in Records
    BY <2>1 DEF Records, States
  <2> QED
    BY <1>1, <1>3, <2>2
<1>4. CASE r.state # "Terminal" /\ ~(r.generation < MaxGeneration)
  <2>1. Terminal(r.generation, "GenerationExhausted") \in Records
    BY <1>1 DEF Records, States, AllReasons
  <2> QED
    BY <1>1, <1>4, <2>1
<1> QED
  BY <1>2, <1>3, <1>4

-------------------------------------------------------------------------------
(* The shapes of steps.                                                    *)

\* A value ends its authority: dropped, refused or resolved terminally.
LEMMA EndedInv ==
  ASSUME IInv, NEW v \in values, NEW reason \in AllReasons,
         record' = [record EXCEPT ![v.authority] = FailedTerminally(@, reason)],
         values' = values \ {v}, tokens' \subseteq tokens, UNCHANGED history
  PROVE  IInv'
<1> DEFINE a == v.authority
           r == FailedTerminally(record[a], reason)
<1>1. /\ v \in Values /\ record[a] \in Records
      /\ record[a].generation = v.generation
      /\ \A w \in values' : w.authority # a
  BY ValueKnown
<1>2. r \in Records /\ r.state = "Terminal" /\ r.generation >= record[a].generation
  BY <1>1, TerminalRecord
<1>3. a \in Authorities /\ record' = [record EXCEPT ![a] = r]
  BY <1>1 DEF Values
<1>4. record \in [Authorities -> Records]
  BY DEF IInv, TypeOK, Records
<1>5. record'[a] = r /\ \A b \in Authorities \ {a} : record'[b] = record[b]
  BY <1>3, <1>4
<1> HIDE DEF a, r
<1> USE DEF history
<1>6. TypeOK'
  <2>1. record' \in [Authorities -> Records]
    BY <1>2, <1>3, <1>4
  <2> QED
    BY <2>1 DEF IInv, TypeOK, Records
<1>7. DecisionsAreHeld'
  <2>1. \A w \in values' : w.authority \in Authorities \ {a}
    BY <1>1 DEF IInv, TypeOK
  <2>2. \A w \in values' : Current(w)'
    BY <1>5, <2>1 DEF IInv, DecisionsAreHeld, Current, RecordOf, Record
  <2>3. ASSUME NEW b \in Authorities, Busy(b)'
        PROVE  \E w \in values' \cup forgotten' : w.authority = b /\ Current(w)'
    <3>1. b # a /\ Busy(b)
      BY <1>2, <1>5, <2>3 DEF Busy
    <3>2. PICK w \in values \cup forgotten : w.authority = b /\ Current(w)
      BY <3>1 DEF IInv, DecisionsAreHeld
    <3>3. w # v
      BY <3>1, <3>2 DEF a
    <3> QED
      BY <1>5, <3>1, <3>2, <3>3 DEF Current, RecordOf, Record
  <2> QED
    BY <2>2, <2>3 DEF IInv, DecisionsAreHeld
<1>8. Settled'
  BY <1>2, <1>5 DEF IInv, Settled, Busy
<1>9. Known'
  <2>1. \A b \in Authorities : /\ record[b].generation \in Nat /\ record'[b].generation \in Nat
                               /\ record[b].generation <= record'[b].generation
    BY <1>2, <1>4, <1>5, AuthorityAssumption DEF Records
  <2>2. \A t \in tokens : t.authority \in Authorities /\ t.generation \in Nat
    BY AuthorityAssumption DEF IInv, TypeOK
  <2>3. \A d \in destroyed \cup refused : d[1] \in Authorities /\ d[2] \in Nat
    BY AuthorityAssumption DEF IInv, TypeOK
  <2> QED
    BY <2>1, <2>2, <2>3 DEF IInv, Known
<1>10. OneToken'
  BY DEF IInv, OneToken, Untouched
<1>11. Destroyed'
  BY DEF IInv, Destroyed
<1> QED
  BY <1>6, <1>7, <1>8, <1>9, <1>10, <1>11 DEF IInv

\* Nothing changes but that a token or an answer may be gone.
LEMMA FewerInv ==
  ASSUME IInv, UNCHANGED <<record, values, history>>, tokens' \subseteq tokens
  PROVE  IInv'
<1> USE DEF history, IInv
<1>1. TypeOK' /\ DecisionsAreHeld' /\ Settled'
  BY DEF TypeOK, DecisionsAreHeld, Current, Settled, Busy
<1>2. Known' /\ OneToken' /\ Destroyed'
  BY DEF Known, OneToken, Untouched, Destroyed
<1> QED
  BY <1>1, <1>2

\* A decision gets a disposition that its outcome holds.
LEMMA ResolvedInv ==
  ASSUME IInv, NEW v \in values, NEW resolution \in Resolutions, NEW w,
         w = Value("AwaitingCommit", v.authority, v.generation, v.kind, resolution, FALSE, FALSE),
         record' = [record EXCEPT ![v.authority] = RecordOf(w)],
         values' = (values \ {v}) \cup {w}, tokens' \subseteq tokens, UNCHANGED history,
         (v.kind = "KeyLifecycle" /\ resolution = Plain("Accepted"))
           => <<v.authority, v.generation>> \in destroyed
  PROVE  IInv'
<1> DEFINE a == v.authority
<1>1. /\ v \in Values /\ record[a].generation = v.generation /\ Busy(a)
      /\ \A x \in values \ {v} : x.authority # a
  BY ValueKnown
<1>2. /\ w \in Values /\ w.authority = a /\ w.generation = v.generation /\ ~w.key
      /\ w.stage = "AwaitingCommit" /\ w.kind = v.kind /\ w.disposition = resolution
  BY <1>1 DEF Value, Values, Stages
<1>3. RecordOf(w) \in Records /\ RecordOf(w).state = "AwaitingCommit" /\ RecordOf(w).generation = v.generation
  BY <1>2 DEF RecordOf, Record, Records, Values, States, AllReasons
<1>4. a \in Authorities /\ record \in [Authorities -> Records]
  BY <1>1 DEF IInv, TypeOK, Records, Values
<1>5. record'[a] = RecordOf(w) /\ \A b \in Authorities \ {a} : record'[b] = record[b]
  BY <1>4
<1>6. \A x \in values' : x = w \/ (x \in values /\ x.authority \in Authorities \ {a})
  BY <1>1 DEF IInv, TypeOK
<1> HIDE DEF a
<1> USE DEF history
<1>7. TypeOK'
  <2>1. record' \in [Authorities -> Records]
    BY <1>3, <1>4, <1>5 DEF a
  <2>2. values' \cup forgotten' \subseteq Values
    BY <1>2 DEF IInv, TypeOK, Values
  <2> QED
    BY <2>1, <2>2 DEF IInv, TypeOK, Records, Values
<1>8. DecisionsAreHeld'
  <2>1. \A x \in values' : Current(x)'
    BY <1>2, <1>5, <1>6 DEF IInv, DecisionsAreHeld, Current, RecordOf, Record
  <2>2. \A x, y \in values' : (x.authority = y.authority) => (x = y)
    BY <1>2, <1>6 DEF IInv, DecisionsAreHeld
  <2>3. ASSUME NEW b \in Authorities, Busy(b)'
        PROVE  \E x \in values' \cup forgotten' : x.authority = b /\ Current(x)'
    <3>1. CASE b = a
      BY <1>2, <2>1, <3>1
    <3>2. CASE b # a
      <4>1. Busy(b)
        BY <1>5, <2>3, <3>2 DEF Busy
      <4>2. PICK x \in values \cup forgotten : x.authority = b /\ Current(x)
        BY <4>1 DEF IInv, DecisionsAreHeld
      <4>3. x # v
        BY <3>2, <4>2 DEF a
      <4> QED
        BY <1>5, <3>2, <4>2, <4>3 DEF Current, RecordOf, Record
    <3> QED
      BY <3>1, <3>2
  <2> QED
    BY <2>1, <2>2, <2>3 DEF DecisionsAreHeld
<1>9. Settled'
  BY <1>1, <1>3, <1>5 DEF IInv, Settled, Busy, a
<1>10. Known'
  <2>1. \A b \in Authorities : record'[b].generation = record[b].generation
    BY <1>1, <1>3, <1>5 DEF a
  <2> QED
    BY <2>1 DEF IInv, Known, TypeOK
<1>11. OneToken'
  BY <1>2 DEF IInv, OneToken, Untouched
<1>12. Destroyed'
  BY <1>2 DEF IInv, Destroyed, a
<1> QED
  BY <1>7, <1>8, <1>9, <1>10, <1>11, <1>12 DEF IInv

-------------------------------------------------------------------------------
(* The actions.                                                            *)

\* SecurityAuthority::resolve, whoever calls it: an accepted key needs a
\* verified answer.
LEMMA ResolveInv ==
  ASSUME IInv, NEW v \in values, NEW resolution \in Resolutions, NEW verified \in BOOLEAN,
         Resolved(v, resolution, verified), tokens' \subseteq tokens, UNCHANGED history,
         verified => <<v.authority, v.generation>> \in destroyed
  PROVE  IInv'
<1> DEFINE w == Value("AwaitingCommit", v.authority, v.generation, v.kind, resolution, FALSE, FALSE)
<1>1. \/ Fail(v.authority, "ContractInvariant") /\ values' = values \ {v}
      \/ Fail(v.authority, "Integrity") /\ values' = values \ {v}
      \/ resolution.type = "Terminal" /\ Fail(v.authority, resolution.reason) /\ values' = values \ {v}
      \/ UNCHANGED <<record, values>>
      \/ /\ Admits(v.kind, resolution, verified)
         /\ record' = [record EXCEPT ![v.authority] = RecordOf(w)]
         /\ values' = (values \ {v}) \cup {w}
  BY DEF Resolved
<1>2. (resolution.type = "Terminal") => resolution.reason \in AllReasons
  BY DEF Resolutions, Plain, AllReasons
<1>3. {"ContractInvariant", "Integrity"} \subseteq AllReasons
  BY DEF AllReasons
<1>4. (Admits(v.kind, resolution, verified) /\ resolution = Plain("Accepted")) => verified
  BY DEF Admits, Plain
<1> HIDE DEF w
<1>5. CASE \E reason \in AllReasons : Fail(v.authority, reason) /\ values' = values \ {v}
  BY <1>5, EndedInv DEF Fail
<1>6. CASE UNCHANGED <<record, values>>
  BY <1>6, FewerInv
<1>7. CASE /\ Admits(v.kind, resolution, verified)
           /\ record' = [record EXCEPT ![v.authority] = RecordOf(w)]
           /\ values' = (values \ {v}) \cup {w}
  BY <1>4, <1>7, ResolvedInv DEF w
<1> QED
  BY <1>1, <1>2, <1>3, <1>5, <1>6, <1>7

\* A new decision has a generation nothing was issued for; there may be none
\* left.
LEMMA BeginInv ==
  ASSUME IInv, NEW a \in Authorities, NEW kind \in Kinds, NEW key \in BOOLEAN, Begin(a, kind, key)
  PROVE  IInv'
<1> DEFINE v == Value("Pending", a, record[a].generation + 1, kind, NoDisposition, key, FALSE)
<1> USE DEF history
<1>1. /\ record \in [Authorities -> Records] /\ record[a] \in Records /\ record[a].state = "Ready"
      /\ UNCHANGED <<tokens, history>>
  BY DEF Begin, IInv, TypeOK, Records
<1>2. record[a].generation \in 1..MaxGeneration
  BY <1>1 DEF Records
<1>3. \A w \in values : w.authority \in Authorities \ {a}
  <2> SUFFICES ASSUME NEW w \in values, w.authority = a PROVE FALSE
    BY DEF IInv, TypeOK
  <2> QED
    BY <1>1, ValueKnown DEF Busy
<1>4. CASE record[a].generation < MaxGeneration
  <2>1. record' = [record EXCEPT ![a] = RecordOf(v)] /\ values' = values \cup {v}
    BY <1>4 DEF Begin, Value
  <2>2. record[a].generation + 1 \in 1..MaxGeneration
    BY <1>2, <1>4, AuthorityAssumption
  <2>3. /\ v \in Values /\ v.authority = a /\ v.generation = record[a].generation + 1
        /\ v.stage = "Pending" /\ v.disposition = NoDisposition
    BY <2>2 DEF Value, Values, Stages
  <2>4. /\ RecordOf(v) \in Records /\ RecordOf(v).state = "Pending"
        /\ RecordOf(v).generation = record[a].generation + 1
    BY <2>3 DEF RecordOf, Record, Records, Values, States, AllReasons
  <2>5. record'[a] = RecordOf(v) /\ \A b \in Authorities \ {a} : record'[b] = record[b]
    BY <1>1, <2>1
  <2> HIDE DEF v
  <2>6. TypeOK'
    <3>1. record' \in [Authorities -> Records]
      BY <1>1, <2>1, <2>4
    <3>2. values' \cup forgotten' \subseteq Values
      BY <1>1, <2>1, <2>3 DEF IInv, TypeOK, Values
    <3> QED
      BY <1>1, <3>1, <3>2 DEF IInv, TypeOK, Records, Values
  <2>7. DecisionsAreHeld'
    <3>1. \A x \in values' : Current(x)'
      BY <1>3, <2>1, <2>3, <2>5 DEF IInv, DecisionsAreHeld, Current, RecordOf, Record
    <3>2. \A x, y \in values' : (x.authority = y.authority) => (x = y)
      BY <1>3, <2>1, <2>3 DEF IInv, DecisionsAreHeld
    <3>3. ASSUME NEW b \in Authorities, Busy(b)'
          PROVE  \E x \in values' \cup forgotten' : x.authority = b /\ Current(x)'
      <4>1. CASE b = a
        BY <2>1, <2>3, <3>1, <4>1
      <4>2. CASE b # a
        <5>1. Busy(b)
          BY <2>5, <3>3, <4>2 DEF Busy
        <5>2. PICK x \in values \cup forgotten : x.authority = b /\ Current(x)
          BY <5>1 DEF IInv, DecisionsAreHeld
        <5> QED
          BY <1>1, <2>1, <2>5, <4>2, <5>2 DEF Current, RecordOf, Record
      <4> QED
        BY <4>1, <4>2
    <3> QED
      BY <3>1, <3>2, <3>3 DEF DecisionsAreHeld
  <2>8. Settled'
    <3>1. \A g \in 2..(record[a].generation + 1) - 1 : g \in 2..record[a].generation
      BY <1>2
    <3> QED
      BY <1>1, <2>4, <2>5, <3>1 DEF IInv, Settled, Busy
  <2>9. Known'
    <3>1. \A b \in Authorities : /\ record[b].generation \in Nat /\ record'[b].generation \in Nat
                                 /\ record[b].generation <= record'[b].generation
      BY <1>1, <1>2, <2>4, <2>5, AuthorityAssumption DEF Records
    <3>2. /\ \A t \in tokens : t.authority \in Authorities /\ t.generation \in Nat
          /\ \A d \in destroyed \cup refused : d[1] \in Authorities /\ d[2] \in Nat
      BY AuthorityAssumption DEF IInv, TypeOK
    <3> QED
      BY <1>1, <3>1, <3>2 DEF IInv, Known
  <2>10. OneToken'
    <3>1. Untouched(a, record[a].generation + 1)
      BY <1>2 DEF IInv, Known, Untouched
    <3>2. \A x \in values' : (x.key /\ ~x.issued) => Untouched(x.authority, x.generation)
      BY <2>1, <2>3, <3>1 DEF IInv, OneToken
    <3> QED
      BY <1>1, <3>2 DEF IInv, OneToken, Untouched
  <2>11. Destroyed'
    BY <1>1, <2>1, <2>3 DEF IInv, Destroyed, NoDisposition, Plain
  <2> QED
    BY <2>6, <2>7, <2>8, <2>9, <2>10, <2>11 DEF IInv
<1>5. CASE ~(record[a].generation < MaxGeneration)
  <2> DEFINE r == FailedTerminally(record[a], "GenerationExhausted")
  <2>1. record' = [record EXCEPT ![a] = r] /\ values' = values
    BY <1>5 DEF Begin, Fail
  <2>2. r \in Records /\ r.state = "Terminal" /\ r.generation >= record[a].generation
    BY <1>1, TerminalRecord DEF AllReasons
  <2>3. record'[a] = r /\ \A b \in Authorities \ {a} : record'[b] = record[b]
    BY <1>1, <2>1
  <2> HIDE DEF r
  <2>4. TypeOK'
    <3>1. record' \in [Authorities -> Records]
      BY <1>1, <2>1, <2>2
    <3> QED
      BY <1>1, <2>1, <3>1 DEF IInv, TypeOK, Records
  <2>5. DecisionsAreHeld'
    <3>1. \A x \in values' : Current(x)'
      BY <1>3, <2>1, <2>3 DEF IInv, DecisionsAreHeld, Current, RecordOf, Record
    <3>2. ASSUME NEW b \in Authorities, Busy(b)'
          PROVE  \E x \in values' \cup forgotten' : x.authority = b /\ Current(x)'
      <4>1. b # a /\ Busy(b)
        BY <2>2, <2>3, <3>2 DEF Busy
      <4>2. PICK x \in values \cup forgotten : x.authority = b /\ Current(x)
        BY <4>1 DEF IInv, DecisionsAreHeld
      <4> QED
        BY <1>1, <2>1, <2>3, <4>1, <4>2 DEF Current, RecordOf, Record
    <3> QED
      BY <2>1, <3>1, <3>2 DEF IInv, DecisionsAreHeld
  <2>6. Settled'
    BY <1>1, <2>2, <2>3 DEF IInv, Settled, Busy
  <2>7. Known'
    <3>1. \A b \in Authorities : /\ record[b].generation \in Nat /\ record'[b].generation \in Nat
                                 /\ record[b].generation <= record'[b].generation
      BY <1>1, <2>2, <2>3, AuthorityAssumption DEF Records
    <3>2. /\ \A t \in tokens : t.authority \in Authorities /\ t.generation \in Nat
          /\ \A d \in destroyed \cup refused : d[1] \in Authorities /\ d[2] \in Nat
      BY AuthorityAssumption DEF IInv, TypeOK
    <3> QED
      BY <1>1, <3>1, <3>2 DEF IInv, Known
  <2>8. OneToken' /\ Destroyed'
    BY <1>1, <2>1 DEF IInv, OneToken, Untouched, Destroyed
  <2> QED
    BY <2>4, <2>5, <2>6, <2>7, <2>8 DEF IInv
<1> QED
  BY <1>4, <1>5

\* A key's one token.
LEMMA TokenInv ==
  ASSUME IInv, NEW v \in values, DestructionToken(v)  PROVE IInv'
<1> DEFINE t == [authority |-> v.authority, generation |-> v.generation, status |-> "token"]
<1> USE DEF history
<1>1. /\ v \in Values /\ Busy(v.authority) /\ record[v.authority].generation = v.generation
      /\ \A x \in values \ {v} : x.authority # v.authority
  BY ValueKnown
<1>2. /\ v.key /\ ~v.issued /\ values' = (values \ {v}) \cup {Issue(v)} /\ tokens' = tokens \cup {t}
      /\ UNCHANGED <<record, history>>
  BY DEF DestructionToken
<1>3. /\ Issue(v) \in Values /\ Issue(v).authority = v.authority /\ Issue(v).generation = v.generation
      /\ Issue(v).issued /\ Issue(v).kind = v.kind /\ Issue(v).disposition = v.disposition
      /\ Issue(v).stage = v.stage
  BY <1>1 DEF Issue, Values
<1>4. Untouched(v.authority, v.generation)
  BY <1>2 DEF IInv, OneToken
<1>5. TypeOK'
  BY <1>1, <1>2, <1>3 DEF IInv, TypeOK, Values
<1>6. DecisionsAreHeld'
  <2>1. /\ \A x \in values' : Current(x)'
        /\ \A x, y \in values' : (x.authority = y.authority) => (x = y)
    BY <1>1, <1>2, <1>3 DEF IInv, DecisionsAreHeld, Current, RecordOf
  <2>2. ASSUME NEW b \in Authorities, Busy(b)'
        PROVE  \E x \in values' \cup forgotten' : x.authority = b /\ Current(x)'
    <3>1. Busy(b)
      BY <1>2, <2>2 DEF Busy
    <3>2. PICK x \in values \cup forgotten : x.authority = b /\ Current(x)
      BY <3>1 DEF IInv, DecisionsAreHeld
    <3>3. Current(x)'
      BY <1>2, <3>2 DEF Current, RecordOf, Record
    <3>4. CASE x = v
      BY <1>2, <1>3, <2>1, <3>2, <3>4
    <3>5. CASE x # v
      BY <1>2, <3>2, <3>3, <3>5
    <3> QED
      BY <3>4, <3>5
  <2> QED
    BY <2>1, <2>2 DEF DecisionsAreHeld
<1>7. Settled'
  BY <1>2 DEF IInv, Settled, Busy
<1>8. Known'
  <2>1. v.generation \in Nat
    BY <1>1, AuthorityAssumption DEF Values
  <2> QED
    BY <1>1, <1>2, <2>1 DEF IInv, Known
<1>9. OneToken'
  <2>1. \A x \in values \ {v} : x.authority # t.authority
    BY <1>1
  <2>2. /\ t.authority = v.authority /\ t.generation = v.generation /\ t.status = "token"
    OBVIOUS
  <2> HIDE DEF t
  <2>3. \A x \in values' : (x.key /\ ~x.issued) => Untouched(x.authority, x.generation)'
    BY <1>2, <1>3, <2>1, <2>2 DEF IInv, OneToken, Untouched
  <2> QED
    BY <1>2, <1>4, <2>2, <2>3 DEF IInv, OneToken, Untouched
<1>10. Destroyed'
  BY <1>2, <1>3 DEF IInv, Destroyed
<1> QED
  BY <1>5, <1>6, <1>7, <1>8, <1>9, <1>10 DEF IInv

\* The provider answers once.
LEMMA AnswerInv ==
  ASSUME IInv, NEW t \in tokens, NEW status \in {"complete", "failed"}, Answer(t, status)  PROVE IInv'
<1> DEFINE u == [t EXCEPT !.status = status]
           d == <<t.authority, t.generation>>
<1> USE DEF Answer
<1>1. /\ t.authority \in Authorities /\ t.generation \in 1..MaxGeneration
      /\ t \in [authority : Authorities, generation : 1..MaxGeneration,
                status : {"token", "complete", "failed"}]
  BY DEF IInv, TypeOK
<1>2. u.authority = t.authority /\ u.generation = t.generation /\ u.status = status
  BY <1>1
<1>3. d \notin destroyed \cup refused
  BY DEF IInv, OneToken
<1>4. /\ destroyed' = destroyed \cup (IF status = "complete" THEN {d} ELSE {})
      /\ refused' = refused \cup (IF status = "failed" THEN {d} ELSE {})
  OBVIOUS
<1>5. TypeOK'
  <2>1. destroyed' \subseteq destroyed \cup {d} /\ refused' \subseteq refused \cup {d}
    BY <1>4
  <2>2. d \in Authorities \X (1..MaxGeneration)
    BY <1>1
  <2>3. tokens' \subseteq [authority : Authorities, generation : 1..MaxGeneration,
                           status : {"token", "complete", "failed"}]
    BY <1>1, <1>2 DEF IInv, TypeOK
  <2> QED
    BY <2>1, <2>2, <2>3 DEF IInv, TypeOK
<1>6. DecisionsAreHeld' /\ Settled'
  BY DEF IInv, DecisionsAreHeld, Current, Settled, Busy
<1>7. Known'
  <2>1. d[1] = t.authority /\ d[2] = t.generation
    OBVIOUS
  <2> QED
    BY <1>2, <1>4, <2>1 DEF IInv, Known
<1>8. OneToken'
  <2>1. /\ \A x \in tokens \ {t} : ~(x.authority = t.authority /\ x.generation = t.generation)
        /\ tokens' = (tokens \ {t}) \cup {u} /\ values' = values
    BY DEF IInv, OneToken
  <2>2. \A x \in tokens \ {t} : <<x.authority, x.generation>> # d
    BY <2>1
  <2>3. \A x, y \in tokens' : (x.authority = y.authority /\ x.generation = y.generation) => x = y
    BY <1>2, <2>1 DEF IInv, OneToken
  <2>4. \A x \in tokens' : (x.status = "token") => <<x.authority, x.generation>> \notin destroyed' \cup refused'
    BY <1>2, <1>4, <2>1, <2>2 DEF IInv, OneToken
  <2>5. \A x \in tokens' : (x.status = "complete") => <<x.authority, x.generation>> \in destroyed'
    BY <1>2, <1>4, <2>1, <2>2 DEF IInv, OneToken
  <2>6. \A v \in values' : (v.key /\ ~v.issued) => Untouched(v.authority, v.generation)'
    <3> SUFFICES ASSUME NEW v \in values, v.key, ~v.issued
                 PROVE  Untouched(v.authority, v.generation)'
      BY <2>1
    <3>1. Untouched(v.authority, v.generation)
      BY DEF IInv, OneToken
    <3>2. <<v.authority, v.generation>> # d
      BY <3>1 DEF Untouched
    <3> QED
      BY <1>2, <1>4, <2>1, <3>1, <3>2 DEF Untouched
  <2>7. destroyed' \cap refused' = {}
    BY <1>3, <1>4 DEF IInv, OneToken
  <2> QED
    BY <2>3, <2>4, <2>5, <2>6, <2>7 DEF OneToken
<1>9. Destroyed'
  BY <1>4 DEF IInv, Destroyed
<1> QED
  BY <1>5, <1>6, <1>7, <1>8, <1>9 DEF IInv

\* A terminal resolution, with a reason of any program or of the library.
LEMMA TerminalInv ==
  ASSUME IInv, NEW v \in values, NEW reason \in AllReasons,
         Resolved(v, [type |-> "Terminal", reason |-> reason], FALSE),
         tokens' \subseteq tokens, UNCHANGED history
  PROVE  IInv'
<1>1. \E r \in AllReasons : Fail(v.authority, r) /\ values' = values \ {v}
  BY DEF Resolved, AllReasons
<1> QED
  BY <1>1, EndedInv DEF Fail

\* Only an answer to the very decision counts as verified.
LEMMA FinishInv ==
  ASSUME IInv, NEW v \in values, NEW t \in tokens, Finish(v, t)  PROVE IInv'
<1> USE DEF Finish
<1>1. \A reason \in {"ContractInvariant", "ExternalKeyDestruction"} :
        Resolved(v, [type |-> "Terminal", reason |-> reason], FALSE) => IInv'
  <2> SUFFICES ASSUME NEW reason \in {"ContractInvariant", "ExternalKeyDestruction"},
                      Resolved(v, [type |-> "Terminal", reason |-> reason], FALSE)
               PROVE  IInv'
    OBVIOUS
  <2> QED
    BY TerminalInv DEF AllReasons
<1>2. CASE Resolved(v, Plain("Accepted"), TRUE) /\ t.status = "complete"
           /\ t.authority = v.authority /\ t.generation = v.generation
  <2>1. <<v.authority, v.generation>> \in destroyed
    BY <1>2 DEF IInv, OneToken
  <2>2. Plain("Accepted") \in Resolutions
    BY DEF Resolutions
  <2> QED
    BY <1>2, <2>1, <2>2, ResolveInv
<1> QED
  BY <1>1, <1>2

\* abort, and the key's Drop.
LEMMA AbortInv == ASSUME IInv, NEW v \in values, Abort(v)  PROVE IInv'
BY TerminalInv DEF Abort, AllReasons

\* commit: the authority is ready, and has committed one decision more.
LEMMA CommitInv == ASSUME IInv, NEW v \in values, Commit(v)  PROVE IInv'
<1> DEFINE a == v.authority
           d == <<a, v.generation>>
<1>1. /\ v \in Values /\ record[a] = RecordOf(v) /\ record[a] \in Records /\ Busy(a)
      /\ record[a].generation = v.generation
      /\ \A x \in values \ {v} : x.authority # a
  BY ValueKnown
<1>2. /\ record' = [record EXCEPT ![a] = Ready(v.generation)]
      /\ values' = values \ {v} /\ committed' = committed \cup {d}
      /\ accepted' = IF v.kind = "KeyLifecycle" /\ v.disposition = Plain("Accepted")
                     THEN accepted \cup {d} ELSE accepted
      /\ UNCHANGED <<tokens, forgotten, destroyed, refused>>
  BY <1>1 DEF Commit, Current
<1>3. /\ a \in Authorities /\ v.generation \in 1..MaxGeneration
      /\ record \in [Authorities -> Records]
  BY <1>1 DEF Values, IInv, TypeOK, Records
<1>4. /\ Ready(v.generation) \in Records /\ Ready(v.generation).state = "Ready"
      /\ Ready(v.generation).generation = v.generation
  BY <1>3 DEF Ready, Record, Records, States, AllReasons
<1>5. record'[a] = Ready(v.generation) /\ \A b \in Authorities \ {a} : record'[b] = record[b]
  BY <1>2, <1>3
<1>6. d \in Authorities \X (1..MaxGeneration)
  BY <1>3
<1> HIDE DEF a
<1>7. TypeOK'
  <2>1. record' \in [Authorities -> Records]
    BY <1>2, <1>3, <1>4
  <2>2. accepted' \subseteq accepted \cup {d}
    BY <1>2
  <2> QED
    BY <1>2, <1>6, <2>1, <2>2 DEF IInv, TypeOK, Records
<1>8. DecisionsAreHeld'
  <2>1. \A x \in values' : x \in values /\ x.authority \in Authorities \ {a}
    BY <1>1, <1>2 DEF IInv, TypeOK
  <2>2. \A x \in values' : Current(x)'
    BY <1>5, <2>1 DEF IInv, DecisionsAreHeld, Current, RecordOf, Record
  <2>3. ASSUME NEW b \in Authorities, Busy(b)'
        PROVE  \E x \in values' \cup forgotten' : x.authority = b /\ Current(x)'
    <3>1. b # a /\ Busy(b)
      BY <1>4, <1>5, <2>3 DEF Busy
    <3>2. PICK x \in values \cup forgotten : x.authority = b /\ Current(x)
      BY <3>1 DEF IInv, DecisionsAreHeld
    <3>3. x # v
      BY <3>1, <3>2 DEF a
    <3> QED
      BY <1>2, <1>5, <3>1, <3>2, <3>3 DEF Current, RecordOf, Record
  <2> QED
    BY <2>1, <2>2, <2>3 DEF IInv, DecisionsAreHeld
<1>9. Settled'
  <2>1. \A g \in 2..v.generation : g = v.generation \/ g \in 2..v.generation - 1
    BY <1>3
  <2>2. \A g \in 2..v.generation : <<a, g>> \in committed'
    BY <1>1, <1>2, <1>3, <2>1 DEF IInv, Settled, a
  <2> QED
    BY <1>2, <1>4, <1>5, <2>2 DEF IInv, Settled, Busy
<1>10. Known'
  <2>1. \A b \in Authorities : record'[b].generation = record[b].generation
    BY <1>1, <1>4, <1>5 DEF a
  <2> QED
    BY <1>2, <2>1 DEF IInv, Known, TypeOK
<1>11. OneToken'
  BY <1>2 DEF IInv, OneToken, Untouched
<1>12. Destroyed'
  <2>1. (v.kind = "KeyLifecycle" /\ v.disposition = Plain("Accepted")) => d \in destroyed
    BY DEF IInv, Destroyed, a
  <2> QED
    BY <1>2, <2>1 DEF IInv, Destroyed
<1> QED
  BY <1>7, <1>8, <1>9, <1>10, <1>11, <1>12 DEF IInv

\* Drop for SecurityPending and for Completion.
LEMMA DropInv == ASSUME IInv, NEW v \in values, Drop(v)  PROVE IInv'
<1>1. {"DecisionAbandoned", "OutcomeAbandoned"} \subseteq AllReasons
  BY DEF AllReasons
<1> QED
  BY <1>1, EndedInv DEF Drop, Abandoned

\* A forgotten value is still what its authority waits for.
LEMMA ForgetInv == ASSUME IInv, NEW v \in values, Forget(v)  PROVE IInv'
<1> USE DEF Forget, IInv
<1>1. TypeOK'
  BY DEF TypeOK
<1>2. DecisionsAreHeld'
  BY DEF DecisionsAreHeld, Current, Busy
<1>3. Settled' /\ Known' /\ OneToken' /\ Destroyed'
  BY DEF Settled, Busy, Known, OneToken, Untouched, Destroyed
<1> QED
  BY <1>1, <1>2, <1>3

-------------------------------------------------------------------------------
(* The theorems.                                                           *)

\* The inductive invariant holds in every reachable state.
THEOREM Invariance == Spec => []IInv
<1>1. IInv /\ [Next]_vars => IInv'
  <2> SUFFICES ASSUME IInv, [Next]_vars PROVE IInv'
    OBVIOUS
  <2>1. CASE UNCHANGED vars
    BY <2>1, FewerInv DEF vars, history
  <2>2. ASSUME NEW a \in Authorities, NEW kind \in Kinds, NEW key \in BOOLEAN, Begin(a, kind, key)
        PROVE  IInv'
    BY <2>2, BeginInv
  <2>3. ASSUME NEW v \in values, NEW r \in Resolutions, Resolve(v, r)  PROVE IInv'
    BY <2>3, ResolveInv DEF Resolve
  <2>4. ASSUME NEW v \in values,
               DestructionToken(v) \/ Abort(v) \/ Commit(v) \/ Drop(v) \/ Forget(v)
        PROVE  IInv'
    BY <2>4, TokenInv, AbortInv, CommitInv, DropInv, ForgetInv
  <2>5. ASSUME NEW v \in values, NEW t \in tokens, Finish(v, t)  PROVE IInv'
    BY <2>5, FinishInv
  <2>6. ASSUME NEW t \in tokens, DropToken(t)  PROVE IInv'
    BY <2>6, FewerInv DEF DropToken
  <2>7. ASSUME NEW t \in tokens, NEW status \in {"complete", "failed"}, Answer(t, status)
        PROVE  IInv'
    BY <2>7, AnswerInv
  <2> QED
    BY <2>1, <2>2, <2>3, <2>4, <2>5, <2>6, <2>7 DEF Next
<1> QED
  BY InitInv, <1>1, PTL DEF Spec

\* Types, with the generation within its width, for any width.
THEOREM TypeCorrect == Spec => []TypeOK
<1>1. IInv => TypeOK
  BY DEF IInv
<1> QED
  BY <1>1, Invariance, PTL

\* Every open decision is held by exactly one value, or was forgotten.
THEOREM Held == Spec => []DecisionsAreHeld
<1>1. IInv => DecisionsAreHeld
  BY DEF IInv
<1> QED
  BY <1>1, Invariance, PTL

\* A ready authority has committed every decision it began.
THEOREM ReadyIsSettled == Spec => []ReadyMeansAllCommitted
<1>1. IInv => ReadyMeansAllCommitted
  BY DEF IInv, Settled, ReadyMeansAllCommitted
<1> QED
  BY <1>1, Invariance, PTL

\* An accepted key decision is one whose key the provider destroyed.
THEOREM KeysDestroyed == Spec => []AcceptedKeysAreDestroyed
<1>1. IInv => AcceptedKeysAreDestroyed
  BY DEF IInv, OneToken, Destroyed, AcceptedKeysAreDestroyed
<1> QED
  BY <1>1, Invariance, PTL
===============================================================================

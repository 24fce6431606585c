------------------------ MODULE DetachedCampaignProofs ------------------------
(***************************************************************************)
(* For any number of jobs, references, commits, tools and commands: what   *)
(* is collected was run, failed jobs are only recovered from, a recovery   *)
(* is carried on, and parts make a whole.                                  *)
(*                                                                         *)
(* That a collected job was run is not inductive: it must be known of      *)
(* every pass and every inherited command of every job, collected or not,  *)
(* which earlier run it stands for (StandsFor), with inputs and tools that *)
(* reach from that run to the job's own checkout; composing two such       *)
(* steps is what transitivity of Compatible and of ancestry is for.  That  *)
(* the run's evidence is still whole then follows from what collect reads  *)
(* again, since the resumed jobs and the recovered ones together are all   *)
(* that a job rests on (Rooted).                                           *)
(*                                                                         *)
(* What is known of a job when it starts (Founded) speaks of finished jobs *)
(* only, and no step changes those (Kept); what is known of its result     *)
(* (Sound) is to be shown when it finishes.                                *)
(***************************************************************************)
EXTENDS DetachedCampaign, WellFoundedInduction, TLAPS

Finished(j) == evidence[j].state # "none"

\* What a job refers to, and where that leads: to finished jobs before it.
Rooted(j) ==
  /\ Range(manifest[j].resume) \cup Range(manifest[j].recovery) \subseteq manifest[j].lineage
  /\ manifest[j].chain \subseteq manifest[j].lineage
  /\ \A k \in manifest[j].lineage : Finished(k)
  /\ \A k \in manifest[j].chain :
       \E p \in Range(manifest[j].resume) : k = p \/ k \in manifest[p].chain
  /\ \A k \in manifest[j].lineage :
       \/ k \in manifest[j].chain
       \/ \E r \in Range(manifest[j].recovery) : k = r \/ k \in manifest[r].lineage

\* The run in k stands for command i in job j.
StandsFor(k, i, j) ==
  /\ <<k, i>> \in ran
  /\ <<manifest[k].tools, manifest[j].tools>> \in Compatible
  /\ Unchanged(i, manifest[k].version, manifest[j].version)

GivenRan(j) == \A i \in Inherited(j) : \E k \in manifest[j].lineage : StandsFor(k, i, j)

\* Nothing that a resumed job passed is lost.
ParentsMerged(j) == \A p \in Range(manifest[j].resume) : evidence[p].passes \subseteq Inherited(j)

ChainClean(j) == \A k \in manifest[j].chain : evidence[k].failures = {}

Founded(j) == /\ Rooted(j) /\ GivenRan(j) /\ ParentsMerged(j)
              /\ ChainClean(j) /\ RecoveryPresent(j)

PassesRan(j) == \A i \in evidence[j].passes :
                  \E k \in {j} \cup manifest[j].lineage : StandsFor(k, i, j)

Sound(j) == /\ Finished(j) => Truthful(evidence[j], manifest[j].partition, Inherited(j))
            /\ PassesRan(j)

IInv == TypeOK /\ \A j \in Started : Founded(j) /\ Sound(j)

\* What no step undoes.
Kept == /\ Started \subseteq Started' /\ ran \subseteq ran'
        /\ \A j \in Started : manifest'[j] = manifest[j]
        /\ \A j \in Started : Finished(j) => (evidence'[j] = evidence[j])

-------------------------------------------------------------------------------
(* Minima, sequences, and what the types say.                              *)

\* A set of natural numbers has a least element, which Min chooses.
LEMMA MinIsLeast ==
  ASSUME NEW S, S \subseteq Nat, S # {}
  PROVE  Min(S) \in S /\ \A y \in S : Min(S) <= y
<1> DEFINE R == OpToRel(<, Nat)
<1>1. IsWellFoundedOn(R, Nat)
  BY NatLessThanWellFounded
<1>2. \A x, y : (<<y, x>> \in R) <=> (x \in Nat /\ y \in Nat /\ y < x)
  BY Zenon DEF OpToRel
<1> HIDE DEF R
<1>3. \E x \in S : \A y \in S : ~ (<<y, x>> \in R)
  BY <1>1, WFMin
<1>4. \E x \in S : \A y \in S : x <= y
  <2>1. PICK x \in S : \A y \in S : ~ (<<y, x>> \in R)
    BY <1>3
  <2>2. \A y \in S : ~(y < x)
    <3> TAKE y \in S
    <3>1. ~(<<y, x>> \in R) /\ y \in Nat /\ x \in Nat
      BY <2>1
    <3> QED
      BY <1>2, <3>1, Zenon
  <2> QED
    BY <2>1, <2>2
<1> QED
  BY <1>4 DEF Min

\* Appending keeps what is there.
LEMMA Appended ==
  ASSUME NEW S, NEW s \in Seq(S), NEW x \in S
  PROVE  /\ Append(s, x) \in Seq(S) /\ Len(Append(s, x)) = Len(s) + 1
         /\ \A n \in 1..Len(s) : Append(s, x)[n] = s[n]
         /\ Append(s, x)[Len(s) + 1] = x
OBVIOUS

\* The references of a job are listed from 1.
LEMMA ListKnown ==
  ASSUME NEW s \in ReferenceLists
  PROVE  /\ DOMAIN s \subseteq Nat \ {0} /\ Range(s) \subseteq Job
         /\ \A n \in DOMAIN s : s[n] \in Range(s)
         /\ (s # <<>>) => 1 \in DOMAIN s
<1>1. PICK n \in 0..References : s \in [1..n -> Job]
  BY DEF ReferenceLists
<1>2. DOMAIN s = 1..n
  BY <1>1
<1>3. Range(s) \subseteq Job /\ \A m \in DOMAIN s : s[m] \in Range(s)
  BY <1>1, <1>2 DEF Range
<1>4. (s # <<>>) => 1 \in DOMAIN s
  <2> SUFFICES ASSUME s # <<>>, n = 0 PROVE FALSE
    BY <1>1, <1>2, CampaignAssumption
  <2> QED
    BY <1>1
<1> QED
  BY <1>2, <1>3, <1>4

\* What is known of a started job.
LEMMA JobKnown ==
  ASSUME TypeOK, NEW j \in Started
  PROVE  /\ j \in Job /\ manifest[j] \in Manifests /\ evidence[j] \in Evidences
         /\ manifest[j].lineage \subseteq Started
<1>1. Len(manifest) \in Nat /\ Len(manifest) <= Jobs /\ Jobs \in Nat
  BY CampaignAssumption DEF TypeOK
<1>2. j \in Job
  BY <1>1 DEF Started, Job
<1>3. manifest[j] \in Manifests
  BY DEF TypeOK, Started
<1>4. manifest[j].lineage \subseteq Started
  BY <1>1 DEF TypeOK, Started
<1> QED
  BY <1>2, <1>3, <1>4 DEF TypeOK

\* The references of a started job are listed from 1, and started themselves.
LEMMA FieldsKnown ==
  ASSUME TypeOK, NEW j \in Started
  PROVE  /\ manifest[j].version \in 1..Versions /\ manifest[j].tools \in Tools
         /\ manifest[j].resume \in ReferenceLists /\ manifest[j].recovery \in ReferenceLists
         /\ manifest[j].given \in [Index -> Credits]
         /\ manifest[j].chain \subseteq Job /\ manifest[j].lineage \subseteq Job
         /\ evidence[j].passes \subseteq Index /\ evidence[j].failures \subseteq Index
<1>1. manifest[j] \in Manifests /\ evidence[j] \in Evidences
  BY JobKnown
<1> QED
  BY <1>1 DEF Manifests, Evidences

-------------------------------------------------------------------------------
(* What a reference is worth.                                              *)

\* Carrying over is transitive: to an ancestor, and on from it.
LEMMA Onward ==
  ASSUME NEW i, NEW u \in Nat, NEW v \in Nat, NEW w \in Nat,
         Unchanged(i, u, v), Unchanged(i, v, w)
  PROVE  Unchanged(i, u, w)
<1>1. u <= w
  BY DEF Unchanged
<1>2. ASSUME NEW x \in u + 1..w PROVE i \notin Touched[x]
  <2>1. x \in u + 1..v \/ x \in v + 1..w
    OBVIOUS
  <2> QED
    BY <2>1 DEF Unchanged
<1> QED
  BY <1>1, <1>2 DEF Unchanged

\* What is recovered is a pass of a reference that carries over.
LEMMA RecoveredFrom ==
  ASSUME NEW recovery \in ReferenceLists, NEW version \in 1..Versions, NEW tools \in Tools,
         NEW i \in Index, Recovered(recovery, version, tools)[i] # NoCredit
  PROVE  \E r \in Range(recovery) :
           /\ Recovered(recovery, version, tools)[i] = [kind |-> "reused", job |-> r]
           /\ <<manifest[r].tools, tools>> \in Compatible
           /\ i \in evidence[r].passes
           /\ Unchanged(i, manifest[r].version, version)
<1> DEFINE C == Carrying(recovery, version, tools, i)
<1>1. C \subseteq DOMAIN recovery /\ C \subseteq Nat
  BY ListKnown DEF Carrying
<1>2. C # {} /\ Recovered(recovery, version, tools)[i]
                  = [kind |-> "reused", job |-> recovery[Min(C)]]
  BY DEF Recovered
<1>3. Min(C) \in C
  <2> HIDE DEF C
  <2> QED
    BY <1>1, <1>2, MinIsLeast
<1>4. Min(C) \in DOMAIN recovery /\ recovery[Min(C)] \in Range(recovery)
  BY <1>1, <1>3, ListKnown
<1> HIDE DEF C
<1>5. /\ <<manifest[recovery[Min(C)]].tools, tools>> \in Compatible
      /\ i \in evidence[recovery[Min(C)]].passes
      /\ Unchanged(i, manifest[recovery[Min(C)]].version, version)
  <2> DEFINE n == Min(C)
  <2>1. n \in Carrying(recovery, version, tools, i)
    BY <1>3 DEF C
  <2> HIDE DEF n
  <2> QED
    BY <2>1 DEF Carrying, n
<1> QED
  BY <1>2, <1>4, <1>5

\* What is merged is a parent's, and no parent's pass is lost.
LEMMA MergedFrom ==
  ASSUME NEW resume \in ReferenceLists, NEW i \in Index
  PROVE  /\ (Merged(resume)[i] # NoCredit) =>
              \E p \in Range(resume) : i \in evidence[p].passes /\ Merged(resume)[i] = Record(p, i)
         /\ \A p \in Range(resume) : (i \in evidence[p].passes) => (Merged(resume)[i] # NoCredit)
<1> DEFINE P == Passing(resume, i)
<1>1. P \subseteq DOMAIN resume /\ P \subseteq Nat
  BY ListKnown DEF Passing
<1>2. \A p \in Range(resume) : (i \in evidence[p].passes) => (P # {})
  BY DEF Range, Passing
<1>3. CASE P = {}
  <2>1. Merged(resume)[i] = NoCredit
    BY <1>3 DEF Merged
  <2> QED
    BY <1>2, <1>3, <2>1
<1>4. CASE P # {}
  <2>1. Min(P) \in P
    <3> HIDE DEF P
    <3> QED
      BY <1>1, <1>4, MinIsLeast
  <2>2. PICK n \in DOMAIN resume : n = Min(P) /\ i \in evidence[resume[n]].passes
    BY <2>1 DEF Passing
  <2>3. Merged(resume)[i] = Record(resume[n], i) /\ resume[n] \in Range(resume)
    BY <1>4, <2>2, ListKnown DEF Merged
  <2>4. Record(resume[n], i) # NoCredit
    BY DEF Record, Inherited, NoCredit
  <2> QED
    BY <2>2, <2>3, <2>4
<1> QED
  BY <1>3, <1>4

-------------------------------------------------------------------------------
(* What is known of a job stays known.                                     *)

LEMMA FoundedKept ==
  ASSUME TypeOK, Kept, NEW j \in Started, Founded(j)
  PROVE  Founded(j)'
<1>1. manifest'[j] = manifest[j]
  BY DEF Kept
<1>2. \A k \in manifest[j].lineage :
        k \in Started /\ manifest'[k] = manifest[k] /\ evidence'[k] = evidence[k]
  BY JobKnown DEF Kept, Founded, Rooted
<1>3. /\ Range(manifest[j].resume) \subseteq manifest[j].lineage
      /\ Range(manifest[j].recovery) \subseteq manifest[j].lineage
      /\ manifest[j].chain \subseteq manifest[j].lineage
  BY DEF Founded, Rooted
<1>4. Rooted(j)'
  <2>1. \A k \in manifest[j].lineage : Finished(k)'
    BY <1>2 DEF Finished, Founded, Rooted
  <2> QED
    BY <1>1, <1>2, <1>3, <2>1 DEF Founded, Rooted
<1>5. GivenRan(j)'
  <2>1. Inherited(j)' = Inherited(j)
    BY <1>1 DEF Inherited
  <2>2. ASSUME NEW i \in Inherited(j)
        PROVE  \E k \in manifest[j].lineage : StandsFor(k, i, j)'
    <3>1. PICK k \in manifest[j].lineage : StandsFor(k, i, j)
      BY DEF Founded, GivenRan
    <3>2. StandsFor(k, i, j)'
      BY <1>1, <1>2, <3>1 DEF StandsFor, Kept, Unchanged
    <3> QED
      BY <3>2
  <2> QED
    BY <1>1, <2>1, <2>2 DEF GivenRan
<1>6. ParentsMerged(j)'
  BY <1>1, <1>2, <1>3 DEF Founded, ParentsMerged, Inherited
<1>7. ChainClean(j)'
  BY <1>1, <1>2, <1>3 DEF Founded, ChainClean
<1>8. RecoveryPresent(j)'
  <2> DEFINE wanted == Recovered(manifest[j].recovery, manifest[j].version, manifest[j].tools)
  <2>1. wanted' = wanted
    <3>1. \A r \in Range(manifest[j].recovery) :
            manifest'[r] = manifest[r] /\ evidence'[r] = evidence[r]
      BY <1>2, <1>3
    <3>2. \A i \in Index :
            Carrying(manifest[j].recovery, manifest[j].version, manifest[j].tools, i)'
              = Carrying(manifest[j].recovery, manifest[j].version, manifest[j].tools, i)
      <4>1. \A n \in DOMAIN manifest[j].recovery :
              manifest[j].recovery[n] \in Range(manifest[j].recovery)
        BY FieldsKnown, ListKnown
      <4> QED
        BY <1>1, <3>1, <4>1 DEF Carrying
    <3> QED
      BY <1>1, <3>2 DEF Recovered
  <2>2. \A i \in Index : (wanted[i] # NoCredit) => (manifest[j].given[i] = wanted[i])
    BY DEF Founded, RecoveryPresent
  <2>3. \A i \in Index : (wanted[i] # NoCredit)' => (manifest'[j].given[i] = wanted'[i])
    BY <1>1, <2>1, <2>2 DEF NoCredit
  <2> QED
    BY <2>3 DEF RecoveryPresent
<1> QED
  BY <1>4, <1>5, <1>6, <1>7, <1>8 DEF Founded

\* Of the result too, while the job does not finish.
LEMMA SoundKept ==
  ASSUME TypeOK, Kept, NEW j \in Started, Founded(j), Sound(j), evidence'[j] = evidence[j]
  PROVE  Sound(j)'
<1>1. manifest'[j] = manifest[j]
  BY DEF Kept
<1>2. \A k \in manifest[j].lineage : manifest'[k] = manifest[k]
  BY JobKnown DEF Kept
<1>3. (Finished(j) => Truthful(evidence[j], manifest[j].partition, Inherited(j)))'
  BY <1>1 DEF Sound, Finished, Inherited, Truthful, Assigned
<1>4. ASSUME NEW i \in evidence[j].passes
      PROVE  \E k \in {j} \cup manifest[j].lineage : StandsFor(k, i, j)'
  <2>1. PICK k \in {j} \cup manifest[j].lineage : StandsFor(k, i, j)
    BY DEF Sound, PassesRan
  <2>2. StandsFor(k, i, j)'
    BY <1>1, <1>2, <2>1 DEF StandsFor, Kept, Unchanged
  <2> QED
    BY <2>2
<1> QED
  BY <1>1, <1>3, <1>4 DEF Sound, PassesRan

-------------------------------------------------------------------------------
(* A job starts.                                                           *)

\* Its manifest is one, and those before it stay.
LEMMA StartAppends ==
  ASSUME IInv, NEW resume \in ReferenceLists, NEW recovery \in ReferenceLists,
         NEW partition \in Partitions, Start(resume, recovery, partition)
  PROVE  /\ Manifest(resume, recovery, partition) \in Manifests
         /\ Manifest(resume, recovery, partition).lineage \subseteq Started
         /\ Len(manifest') = Len(manifest) + 1 /\ Len(manifest) + 1 \in Job \ Started
         /\ \A j \in Started : manifest'[j] = manifest[j]
         /\ manifest'[Len(manifest) + 1] = Manifest(resume, recovery, partition)
         /\ manifest' \in Seq(Manifests)
<1> DEFINE m == Manifest(resume, recovery, partition)
<1> USE DEF IInv
<1>1. \A j \in Started : /\ j \in Job /\ manifest[j].given \in [Index -> Credits]
                         /\ manifest[j].chain \subseteq manifest[j].lineage
                         /\ manifest[j].lineage \subseteq Started
  BY JobKnown, FieldsKnown DEF Founded, Rooted
<1>2. Started \subseteq Job
  BY <1>1
<1>3. Range(resume) \subseteq Started /\ Range(recovery) \subseteq Started
  BY DEF Start
<1>4. checkout.version \in 1..Versions /\ checkout.tools \in Tools
  BY DEF TypeOK
<1>5. m.given \in [Index -> Credits]
  <2>1. ASSUME NEW i \in Index PROVE Merged(resume)[i] \in Credits
    <3>1. CASE Merged(resume)[i] = NoCredit
      BY <3>1 DEF Credits
    <3>2. CASE Merged(resume)[i] # NoCredit
      <4>1. PICK p \in Range(resume) : Merged(resume)[i] = Record(p, i)
        BY <3>2, MergedFrom
      <4> QED
        BY <1>1, <1>3, <4>1 DEF Record, Credits
    <3> QED
      BY <3>1, <3>2
  <2>2. ASSUME NEW version \in 1..Versions, NEW tools \in Tools, NEW i \in Index
        PROVE  Recovered(recovery, version, tools)[i] \in Credits
    <3>1. CASE Recovered(recovery, version, tools)[i] = NoCredit
      BY <3>1 DEF Credits
    <3>2. CASE Recovered(recovery, version, tools)[i] # NoCredit
      <4>1. PICK r \in Range(recovery) :
              /\ Recovered(recovery, version, tools)[i] = [kind |-> "reused", job |-> r]
              /\ <<manifest[r].tools, tools>> \in Compatible
              /\ i \in evidence[r].passes
              /\ Unchanged(i, manifest[r].version, version)
        BY <3>2, RecoveredFrom
      <4> QED
        BY <1>2, <1>3, <4>1 DEF Credits
    <3> QED
      BY <3>1, <3>2
  <2>3. Merged(resume) \in [Index -> Credits]
    BY <2>1 DEF Merged
  <2>4. Recovered(recovery, checkout.version, checkout.tools) \in [Index -> Credits]
    BY <1>4, <2>2 DEF Recovered
  <2> QED
    BY <2>3, <2>4 DEF Manifest
<1>6. m.chain \subseteq Started /\ m.lineage \subseteq Started
  BY <1>1, <1>3 DEF Manifest
<1>7. m \in Manifests
  <2>1. m.chain \subseteq Job /\ m.lineage \subseteq Job
    BY <1>2, <1>6
  <2> QED
    BY <1>4, <1>5, <2>1 DEF Manifest, Manifests
<1> HIDE DEF m
<1>8. Len(manifest) \in Nat /\ Len(manifest) < Jobs /\ Jobs \in Nat
  BY CampaignAssumption DEF TypeOK, Start
<1>9. manifest' = Append(manifest, m) /\ manifest \in Seq(Manifests)
  BY DEF Start, TypeOK, m
<1>10. /\ manifest' \in Seq(Manifests) /\ Len(manifest') = Len(manifest) + 1
       /\ \A j \in 1..Len(manifest) : manifest'[j] = manifest[j]
       /\ manifest'[Len(manifest) + 1] = m
  BY <1>7, <1>9, Appended
<1> QED
  BY <1>6, <1>7, <1>8, <1>10 DEF Started, Job, m

\* What it refers to was read: finished, and for a resumed job the same work.
LEMMA StartReads ==
  ASSUME NEW resume \in ReferenceLists, NEW recovery \in ReferenceLists,
         NEW partition \in Partitions, Start(resume, recovery, partition)
  PROVE  /\ \A p \in Range(resume) :
              /\ p \in Started /\ Whole(p) /\ Resumable(p)
              /\ manifest[p].version = checkout.version /\ manifest[p].tools = checkout.tools
              /\ manifest[p].recovery = recovery
         /\ \A r \in Range(recovery) : r \in Started /\ Whole(r)
BY DEF Start, Readable, Resumable, SameWork, Recoverable, Archived

LEMMA StartTyped ==
  ASSUME IInv, NEW resume \in ReferenceLists, NEW recovery \in ReferenceLists,
         NEW partition \in Partitions, Start(resume, recovery, partition)
  PROVE  TypeOK' /\ Kept
<1> DEFINE J == Len(manifest) + 1
<1>1. /\ Len(manifest') = J /\ J \in Job \ Started /\ manifest' \in Seq(Manifests)
      /\ \A j \in Started : manifest'[j] = manifest[j]
      /\ manifest'[J].lineage \subseteq Started
  BY StartAppends
<1>2. TypeOK /\ Len(manifest) \in Nat
  BY DEF IInv, TypeOK
<1>3. Started' = Started \cup {J}
  BY <1>1, <1>2 DEF Started
<1>4. J <= Jobs
  BY <1>1 DEF Job
<1>5. \A j \in Started' : manifest'[j].lineage \subseteq 1..j - 1
  <2>1. \A j \in Started : manifest'[j].lineage \subseteq 1..j - 1
    BY <1>1, <1>2 DEF TypeOK
  <2>2. manifest'[J].lineage \subseteq 1..J - 1
    BY <1>1, <1>2 DEF Started
  <2> QED
    BY <1>3, <2>1, <2>2
<1>6. UNCHANGED <<checkout, installed, evidence, cancelled, damaged, events, ran>>
  BY DEF Start
<1>7. TypeOK'
  BY <1>1, <1>2, <1>3, <1>4, <1>5, <1>6 DEF TypeOK, Job
<1> QED
  BY <1>1, <1>3, <1>6, <1>7 DEF Kept

\* What a new job inherits from parents that resume the same recovery: the
\* recovered records among them.
LEMMA RecoveryMerged ==
  ASSUME IInv, NEW resume \in ReferenceLists, NEW recovery \in ReferenceLists,
         NEW version \in 1..Versions, NEW tools \in Tools, resume # <<>>,
         \A p \in Range(resume) :
           /\ p \in Started /\ Whole(p) /\ manifest[p].recovery = recovery
           /\ manifest[p].version = version /\ manifest[p].tools = tools,
         NEW i \in Index, Recovered(recovery, version, tools)[i] # NoCredit
  PROVE  Merged(resume)[i] = Recovered(recovery, version, tools)[i]
<1>1. ASSUME NEW p \in Range(resume)
      PROVE  /\ manifest[p].given[i] = Recovered(recovery, version, tools)[i]
             /\ i \in Inherited(p) /\ i \in evidence[p].passes
  <2>1. /\ p \in Started /\ Whole(p) /\ manifest[p].recovery = recovery
        /\ manifest[p].version = version /\ manifest[p].tools = tools
    OBVIOUS
  <2>2. RecoveryPresent(p) /\ Sound(p)
    BY <2>1 DEF IInv, Founded
  <2>3. manifest[p].given[i] = Recovered(recovery, version, tools)[i]
    BY <2>1, <2>2 DEF RecoveryPresent
  <2>4. i \in Inherited(p)
    BY <2>3 DEF Inherited
  <2>5. Inherited(p) \subseteq evidence[p].passes
    BY <2>1, <2>2 DEF Sound, Whole, Finished, Truthful
  <2> QED
    BY <2>3, <2>4, <2>5
<1>2. resume[1] \in Range(resume)
  BY ListKnown
<1>3. Merged(resume)[i] # NoCredit
  BY <1>1, <1>2, MergedFrom
<1>4. PICK p \in Range(resume) : i \in evidence[p].passes /\ Merged(resume)[i] = Record(p, i)
  BY <1>3, MergedFrom
<1> QED
  BY <1>1, <1>4 DEF Record

\* It rests on finished jobs, all of them its parents' or recovered.
LEMMA StartRooted ==
  ASSUME IInv, NEW resume \in ReferenceLists, NEW recovery \in ReferenceLists,
         NEW partition \in Partitions, Start(resume, recovery, partition),
         NEW J \in Job, J = Len(manifest) + 1
  PROVE  Rooted(J)'
<1> DEFINE m == Manifest(resume, recovery, partition)
<1>1. /\ J \notin Started /\ manifest'[J] = m /\ m.lineage \subseteq Started
      /\ \A j \in Started : manifest'[j] = manifest[j]
  BY StartAppends
<1>2. evidence' = evidence
  BY DEF Start
<1>3. \A p \in Range(resume) : p \in Started /\ Whole(p) /\ manifest[p].recovery = recovery
  BY StartReads
<1>4. \A r \in Range(recovery) : r \in Started /\ Whole(r)
  BY StartReads
<1>5. \A j \in Started : Rooted(j)
  BY DEF IInv, Founded
<1>6. /\ m.resume = resume /\ m.recovery = recovery
      /\ m.chain = UNION { {p} \cup manifest[p].chain : p \in Range(resume) }
      /\ m.lineage = UNION { {p} \cup manifest[p].lineage : p \in Range(resume) \cup Range(recovery) }
  BY DEF Manifest
<1> HIDE DEF m
<1>7. Range(resume) \cup Range(recovery) \subseteq m.lineage
  BY <1>6
<1>8. m.chain \subseteq m.lineage
  BY <1>3, <1>5, <1>6 DEF Rooted
<1>9. \A k \in m.lineage : Finished(k)
  BY <1>3, <1>4, <1>5, <1>6 DEF Rooted, Whole, Finished
<1>10. \A k \in m.chain : \E p \in Range(resume) : k = p \/ k \in manifest[p].chain
  BY <1>6
<1>11. ASSUME NEW k \in m.lineage
       PROVE  k \in m.chain \/ \E r \in Range(recovery) : k = r \/ k \in manifest[r].lineage
  <2>1. PICK p \in Range(resume) \cup Range(recovery) : k = p \/ k \in manifest[p].lineage
    BY <1>6
  <2>2. CASE p \in Range(recovery)
    BY <2>1, <2>2
  <2>3. CASE p \in Range(resume)
    BY <1>3, <1>5, <1>6, <2>1, <2>3 DEF Rooted
  <2> QED
    BY <2>2, <2>3
<1>12. \A p \in Range(resume) \cup Range(recovery) : manifest'[p] = manifest[p]
  BY <1>1, <1>3, <1>4
<1> QED
  BY <1>1, <1>2, <1>6, <1>7, <1>8, <1>9, <1>10, <1>11, <1>12 DEF Rooted, Finished

\* Every command it inherits was run in one of them.
LEMMA StartGiven ==
  ASSUME IInv, NEW resume \in ReferenceLists, NEW recovery \in ReferenceLists,
         NEW partition \in Partitions, Start(resume, recovery, partition),
         NEW J \in Job, J = Len(manifest) + 1
  PROVE  GivenRan(J)' /\ ParentsMerged(J)'
<1> DEFINE m == Manifest(resume, recovery, partition)
<1>1. /\ manifest'[J] = m /\ m.lineage \subseteq Started
      /\ \A j \in Started : manifest'[j] = manifest[j]
  BY StartAppends
<1>2. evidence' = evidence /\ ran' = ran
  BY DEF Start
<1>3. /\ m.resume = resume /\ m.version = checkout.version /\ m.tools = checkout.tools
      /\ m.given = IF resume # <<>> THEN Merged(resume)
                   ELSE Recovered(recovery, checkout.version, checkout.tools)
      /\ m.lineage = UNION { {p} \cup manifest[p].lineage : p \in Range(resume) \cup Range(recovery) }
  BY DEF Manifest
<1> HIDE DEF m
<1>4. \A p \in Range(resume) :
        /\ p \in Started /\ manifest[p].version = checkout.version
        /\ manifest[p].tools = checkout.tools
  BY StartReads
<1>5. \A r \in Range(recovery) : r \in Started
  BY StartReads
<1>6. checkout.version \in 1..Versions /\ checkout.tools \in Tools /\ TypeOK
  BY DEF IInv, TypeOK
<1>7. ASSUME NEW i \in Index, m.given[i] # NoCredit
      PROVE  \E k \in m.lineage :
               /\ <<k, i>> \in ran /\ <<manifest[k].tools, m.tools>> \in Compatible
               /\ Unchanged(i, manifest[k].version, m.version)
  <2>1. CASE resume # <<>>
    <3>1. PICK p \in Range(resume) : i \in evidence[p].passes
      BY <1>3, <1>7, <2>1, MergedFrom
    <3>2. p \in Started /\ Sound(p)
      BY <1>4 DEF IInv
    <3>3. PICK k \in {p} \cup manifest[p].lineage : StandsFor(k, i, p)
      BY <3>1, <3>2 DEF Sound, PassesRan
    <3>4. k \in m.lineage
      BY <1>3, <3>3
    <3> QED
      BY <1>3, <1>4, <3>3, <3>4 DEF StandsFor
  <2>2. CASE resume = <<>>
    <3>1. Recovered(recovery, checkout.version, checkout.tools)[i] # NoCredit
      BY <1>3, <1>7, <2>2
    <3>2. ASSUME NEW version \in 1..Versions, NEW tools \in Tools,
                 Recovered(recovery, version, tools)[i] # NoCredit
          PROVE  \E r \in Range(recovery) :
                   /\ <<manifest[r].tools, tools>> \in Compatible
                   /\ i \in evidence[r].passes /\ Unchanged(i, manifest[r].version, version)
      <4>1. PICK r \in Range(recovery) :
              /\ Recovered(recovery, version, tools)[i] = [kind |-> "reused", job |-> r]
              /\ <<manifest[r].tools, tools>> \in Compatible
              /\ i \in evidence[r].passes
              /\ Unchanged(i, manifest[r].version, version)
        BY <3>2, RecoveredFrom
      <4> QED
        BY <4>1
    <3>3. PICK r \in Range(recovery) :
            /\ <<manifest[r].tools, checkout.tools>> \in Compatible
            /\ i \in evidence[r].passes /\ Unchanged(i, manifest[r].version, checkout.version)
      BY <1>6, <3>1, <3>2
    <3>4. r \in Started /\ Sound(r)
      BY <1>5 DEF IInv
    <3>5. PICK k \in {r} \cup manifest[r].lineage : StandsFor(k, i, r)
      BY <3>3, <3>4 DEF Sound, PassesRan
    <3>6. k \in m.lineage /\ k \in Started
      BY <1>1, <1>3, <3>5
    <3>7. /\ manifest[k].tools \in Tools /\ manifest[r].tools \in Tools
          /\ manifest[k].version \in Nat /\ manifest[r].version \in Nat /\ checkout.version \in Nat
      BY <1>6, <3>4, <3>6, FieldsKnown
    <3>8. Unchanged(i, manifest[k].version, checkout.version)
      BY <3>3, <3>5, <3>7, Onward DEF StandsFor
    <3>9. <<manifest[k].tools, checkout.tools>> \in Compatible
      BY <1>6, <3>3, <3>5, <3>7, CampaignAssumption DEF StandsFor
    <3> QED
      BY <1>3, <3>5, <3>6, <3>8, <3>9 DEF StandsFor
  <2> QED
    BY <2>1, <2>2
<1>8. Inherited(J)' = { i \in Index : m.given[i] # NoCredit }
  BY <1>1 DEF Inherited
<1>9. GivenRan(J)'
  <2>1. ASSUME NEW i \in Index, m.given[i] # NoCredit
        PROVE  \E k \in m.lineage : StandsFor(k, i, J)'
    <3>1. PICK k \in m.lineage :
             /\ <<k, i>> \in ran /\ <<manifest[k].tools, m.tools>> \in Compatible
             /\ Unchanged(i, manifest[k].version, m.version)
      BY <1>7, <2>1
    <3>2. StandsFor(k, i, J)'
      BY <1>1, <1>2, <3>1 DEF StandsFor, Unchanged
    <3> QED
      BY <3>2
  <2> QED
    BY <1>1, <1>8, <2>1 DEF GivenRan
<1>10. ParentsMerged(J)'
  <2>1. ASSUME NEW p \in Range(resume)
        PROVE  evidence[p].passes \subseteq { i \in Index : m.given[i] # NoCredit }
    <3>1. resume # <<>>
      <4> SUFFICES ASSUME resume = <<>> PROVE FALSE
        OBVIOUS
      <4> QED
        BY <2>1 DEF Range
    <3>2. evidence[p].passes \subseteq Index
      BY <1>4, <1>6, FieldsKnown
    <3>3. \A i \in Index : (i \in evidence[p].passes) => (Merged(resume)[i] # NoCredit)
      BY <2>1, MergedFrom
    <3> QED
      BY <1>3, <3>1, <3>2, <3>3
  <2> QED
    BY <1>1, <1>2, <1>3, <1>8, <2>1 DEF ParentsMerged
<1> QED
  BY <1>9, <1>10

\* What is read of its parents shows no failure, and it holds what is recovered.
LEMMA StartClean ==
  ASSUME IInv, NEW resume \in ReferenceLists, NEW recovery \in ReferenceLists,
         NEW partition \in Partitions, Start(resume, recovery, partition),
         NEW J \in Job, J = Len(manifest) + 1
  PROVE  ChainClean(J)' /\ RecoveryPresent(J)'
<1> DEFINE m == Manifest(resume, recovery, partition)
<1>1. manifest'[J] = m /\ \A j \in Started : manifest'[j] = manifest[j]
  BY StartAppends
<1>2. evidence' = evidence
  BY DEF Start
<1>3. /\ m.recovery = recovery /\ m.version = checkout.version /\ m.tools = checkout.tools
      /\ m.given = IF resume # <<>> THEN Merged(resume)
                   ELSE Recovered(recovery, checkout.version, checkout.tools)
      /\ m.chain = UNION { {p} \cup manifest[p].chain : p \in Range(resume) }
  BY DEF Manifest
<1> HIDE DEF m
<1>4. \A p \in Range(resume) :
        /\ p \in Started /\ Whole(p) /\ Resumable(p) /\ manifest[p].recovery = recovery
        /\ manifest[p].version = checkout.version /\ manifest[p].tools = checkout.tools
  BY StartReads
<1>5. \A r \in Range(recovery) : manifest'[r] = manifest[r]
  BY <1>1, StartReads
<1>6. checkout.version \in 1..Versions /\ checkout.tools \in Tools
  BY DEF IInv, TypeOK
<1>7. ChainClean(J)'
  <2>1. \A p \in Range(resume) : \A k \in {p} \cup manifest[p].chain : evidence[k].failures = {}
    BY <1>4 DEF Resumable, Eligible
  <2>2. \A k \in m.chain : evidence[k].failures = {}
    BY <1>3, <2>1
  <2> QED
    BY <1>1, <1>2, <2>2 DEF ChainClean
<1>8. RecoveryPresent(J)'
  <2> DEFINE wanted == Recovered(recovery, checkout.version, checkout.tools)
  <2>1. \A i \in Index : (wanted[i] # NoCredit) => (m.given[i] = wanted[i])
    BY <1>3, <1>4, <1>6, RecoveryMerged
  <2>2. ASSUME NEW version, NEW tools, NEW i \in Index
        PROVE  Carrying(recovery, version, tools, i)' = Carrying(recovery, version, tools, i)
    <3>1. \A n \in DOMAIN recovery : recovery[n] \in Range(recovery)
      BY ListKnown
    <3> QED
      BY <1>2, <1>5, <3>1 DEF Carrying
  <2>3. Recovered(manifest[J].recovery, manifest[J].version, manifest[J].tools)' = wanted
    BY <1>1, <1>3, <2>2 DEF Recovered
  <2>4. \A i \in Index : (wanted[i] # NoCredit) => (manifest'[J].given[i] = wanted[i])
    BY <1>1, <2>1
  <2> QED
    BY <2>3, <2>4 DEF RecoveryPresent
<1> QED
  BY <1>7, <1>8

LEMMA StartStep ==
  ASSUME IInv, NEW resume \in ReferenceLists, NEW recovery \in ReferenceLists,
         NEW partition \in Partitions, Start(resume, recovery, partition)
  PROVE  IInv'
<1>1. TypeOK /\ TypeOK' /\ Kept
  BY StartTyped DEF IInv
<1>2. PICK J \in Job : J = Len(manifest) + 1 /\ J \notin Started
  BY StartAppends
<1>3. Len(manifest') = J /\ evidence' = evidence
  BY <1>2, StartAppends DEF Start
<1>4. Started' = Started \cup {J}
  BY <1>2, <1>3 DEF Started, TypeOK, Job
<1>5. ASSUME NEW j \in Started PROVE Founded(j)' /\ Sound(j)'
  BY <1>1, <1>3, FoundedKept, SoundKept DEF IInv
<1>6. Founded(J)'
  BY <1>2, StartRooted, StartGiven, StartClean DEF Founded
<1>7. Sound(J)'
  <2>1. evidence'[J] = NoEvidence
    BY <1>1, <1>2, <1>3 DEF TypeOK
  <2> QED
    BY <2>1 DEF Sound, PassesRan, Finished, NoEvidence
<1> QED
  BY <1>1, <1>4, <1>5, <1>6, <1>7 DEF IInv

-------------------------------------------------------------------------------
(* The other steps.                                                        *)

LEMMA FinishStep ==
  ASSUME IInv, NEW j \in Started, Finish(j)
  PROVE  IInv'
<1>1. PICK e \in Results :
        /\ Truthful(e, manifest[j].partition, Inherited(j))
        /\ evidence' = [evidence EXCEPT ![j] = e]
        /\ cancelled' = IF e.raised \/ e.state \in {"passed", "partial"} THEN cancelled
                        ELSE cancelled \cup {j}
        /\ installed' = installed \ {j}
        /\ ran' = ran \cup { <<j, i>> : i \in e.passes \ Inherited(j) }
  BY DEF Finish
<1>2. evidence[j] = NoEvidence /\ UNCHANGED <<checkout, manifest, damaged, events>>
  BY DEF Finish
<1>3. TypeOK /\ j \in Job /\ e \in Evidences
  BY JobKnown, CampaignAssumption DEF IInv
<1>4. evidence'[j] = e /\ \A k \in Job \ {j} : evidence'[k] = evidence[k]
  BY <1>1, <1>3 DEF TypeOK
<1>5. Started' = Started /\ Started \subseteq Job
  BY <1>2, <1>3, JobKnown DEF Started
<1>6. TypeOK'
  <2>1. evidence' \in [Job -> Evidences]
    BY <1>1, <1>3 DEF TypeOK
  <2>2. ran' \subseteq Job \X Index
    BY <1>1, <1>3 DEF TypeOK, Evidences
  <2>3. installed' \subseteq Started /\ cancelled' \subseteq Started
    BY <1>1, <1>3 DEF TypeOK
  <2>4. \A k \in Job \ Started : evidence'[k] = NoEvidence
    BY <1>3, <1>4 DEF TypeOK
  <2> QED
    BY <1>2, <1>3, <1>5, <2>1, <2>2, <2>3, <2>4 DEF TypeOK
<1>7. ~Finished(j)
  BY <1>2 DEF Finished, NoEvidence
<1>8. Kept
  BY <1>1, <1>2, <1>4, <1>5, <1>7 DEF Kept
<1>9. ASSUME NEW k \in Started PROVE Founded(k)'
  BY <1>3, <1>8, FoundedKept DEF IInv
<1>10. ASSUME NEW k \in Started, k # j PROVE Sound(k)'
  <2>1. evidence'[k] = evidence[k]
    BY <1>4, <1>5, <1>10
  <2> QED
    BY <1>3, <1>8, <2>1, SoundKept DEF IInv
<1>11. Sound(j)'
  <2>1. manifest' = manifest
    BY <1>2
  <2>2. Inherited(j)' = Inherited(j)
    BY <2>1 DEF Inherited
  <2>3. (Finished(j) => Truthful(evidence[j], manifest[j].partition, Inherited(j)))'
    BY <1>1, <1>4, <2>1, <2>2
  <2>4. ASSUME NEW i \in e.passes
        PROVE  \E k \in {j} \cup manifest[j].lineage : StandsFor(k, i, j)'
    <3>1. CASE i \in Inherited(j)
      <4>1. PICK k \in manifest[j].lineage : StandsFor(k, i, j)
        BY <3>1 DEF IInv, Founded, GivenRan
      <4>2. StandsFor(k, i, j)'
        BY <1>1, <2>1, <4>1 DEF StandsFor, Unchanged
      <4> QED
        BY <4>2
    <3>2. CASE i \notin Inherited(j)
      <4>1. <<j, i>> \in ran'
        BY <1>1, <3>2
      <4>2. manifest[j].tools \in Tools /\ manifest[j].version \in Nat
        BY <1>3, FieldsKnown
      <4>3. Unchanged(i, manifest[j].version, manifest[j].version)
        BY <4>2 DEF Unchanged
      <4>4. <<manifest[j].tools, manifest[j].tools>> \in Compatible
        BY <4>2, CampaignAssumption
      <4>5. StandsFor(j, i, j)'
        BY <2>1, <4>1, <4>3, <4>4 DEF StandsFor, Unchanged
      <4> QED
        BY <4>5
    <3> QED
      BY <3>1, <3>2
  <2>5. PassesRan(j)'
    BY <1>4, <2>1, <2>4 DEF PassesRan
  <2> QED
    BY <2>3, <2>5 DEF Sound
<1> QED
  BY <1>5, <1>6, <1>9, <1>10, <1>11 DEF IInv

\* Any step that leaves manifests, evidence and history alone.
LEMMA QuietStep ==
  ASSUME IInv, TypeOK', UNCHANGED <<manifest, evidence, ran>>
  PROVE  IInv'
<1>1. TypeOK
  BY DEF IInv
<1>2. Started' = Started
  BY DEF Started
<1>3. Kept
  BY <1>2 DEF Kept
<1>4. ASSUME NEW j \in Started PROVE Founded(j)' /\ Sound(j)'
  BY <1>1, <1>3, FoundedKept, SoundKept DEF IInv
<1> QED
  BY <1>2, <1>4 DEF IInv

LEMMA InitEstablishes == Init => IInv
<1> SUFFICES ASSUME Init PROVE IInv
  OBVIOUS
<1>1. manifest = <<>> /\ Started = {}
  BY DEF Init, Started
<1>2. NoEvidence \in Evidences
  BY DEF NoEvidence, Evidences
<1>3. 1 \in 1..Versions /\ Jobs \in Nat /\ Events \in Nat
  BY CampaignAssumption
<1>4. TypeOK
  BY <1>1, <1>2, <1>3 DEF Init, TypeOK
<1> QED
  BY <1>1, <1>4 DEF IInv

LEMMA StepKeeps == IInv /\ [Next]_vars => IInv'
<1> SUFFICES ASSUME IInv, [Next]_vars PROVE IInv'
  OBVIOUS
<1>1. TypeOK /\ Started \subseteq Job
  BY JobKnown DEF IInv
<1>2. ASSUME NEW resume \in ReferenceLists, NEW recovery \in ReferenceLists,
             NEW p \in Partitions, Start(resume, recovery, p)
      PROVE  IInv'
  BY <1>2, StartStep
<1>3. ASSUME NEW j \in Started, Install(j) PROVE IInv'
  <2>1. UNCHANGED <<checkout, manifest, evidence, cancelled, damaged, events, ran>>
    BY <1>3 DEF Install
  <2>2. installed' \subseteq Started
    BY <1>1, <1>3 DEF Install, TypeOK
  <2>3. TypeOK'
    BY <1>1, <2>1, <2>2 DEF TypeOK, Started
  <2> QED
    BY <2>1, <2>3, QuietStep
<1>4. ASSUME NEW j \in Started, Finish(j) PROVE IInv'
  BY <1>4, FinishStep
<1>5. CASE Operator
  <2>1. events' \in 0..Events
    BY <1>1, <1>5, CampaignAssumption DEF Operator, TypeOK
  <2>2. CASE Move
    <3>1. UNCHANGED <<manifest, installed, evidence, cancelled, damaged, ran>>
      BY <2>2 DEF Move
    <3>2. checkout' \in [version : 1..Versions, tools : Tools]
      BY <1>1, <2>2, CampaignAssumption DEF Move, TypeOK
    <3>3. TypeOK'
      BY <1>1, <2>1, <3>1, <3>2 DEF TypeOK, Started
    <3> QED
      BY <3>1, <3>3, QuietStep
  <2>3. ASSUME NEW j \in Started, Cancel(j) PROVE IInv'
    <3>1. UNCHANGED <<checkout, manifest, installed, evidence, damaged, ran>>
      BY <2>3 DEF Cancel
    <3>2. cancelled' \subseteq Started
      BY <1>1, <2>3 DEF Cancel, TypeOK
    <3>3. TypeOK'
      BY <1>1, <2>1, <3>1, <3>2 DEF TypeOK, Started
    <3> QED
      BY <3>1, <3>3, QuietStep
  <2>4. ASSUME NEW j \in Started, Damage(j) PROVE IInv'
    <3>1. UNCHANGED <<checkout, manifest, installed, evidence, cancelled, ran>>
      BY <2>4 DEF Damage
    <3>2. damaged' \subseteq Started
      BY <1>1, <2>4 DEF Damage, TypeOK
    <3>3. TypeOK'
      BY <1>1, <2>1, <3>1, <3>2 DEF TypeOK, Started
    <3> QED
      BY <3>1, <3>3, QuietStep
  <2> QED
    BY <1>5, <2>2, <2>3, <2>4 DEF Operator
<1>6. CASE UNCHANGED vars
  <2>1. TypeOK'
    BY <1>1, <1>6 DEF TypeOK, vars, Started
  <2> QED
    BY <1>6, <2>1, QuietStep DEF vars
<1> QED
  BY <1>2, <1>3, <1>4, <1>5, <1>6 DEF Next

\* What is known of every job is known throughout the campaign.
THEOREM Invariance == Spec => []IInv
<1>1. Init => IInv
  BY InitEstablishes
<1>2. IInv /\ [Next]_vars => IInv'
  BY StepKeeps
<1> QED
  BY <1>1, <1>2, PTL DEF Spec

-------------------------------------------------------------------------------
(* The properties.                                                         *)

\* A job with a failed command is never resumed, directly or through others.
THEOREM NeverResumesFailure == Spec => []FailedOnlyRecovered
<1>1. IInv => FailedOnlyRecovered
  BY DEF IInv, Founded, ChainClean, FailedOnlyRecovered
<1> QED
  BY <1>1, Invariance, PTL

\* A job that resumes a recovery inherits everything it recovers.
THEOREM RecoveryIsCarriedOn == Spec => []RecoveryCarriedOn
<1>1. IInv => RecoveryCarriedOn
  BY DEF IInv, Founded, RecoveryCarriedOn
<1> QED
  BY <1>1, Invariance, PTL

\* What a collected job rests on was read again, and found whole.
LEMMA CollectedIsWhole ==
  ASSUME IInv, NEW j \in Started, Collectable(j)
  PROVE  \A k \in {j} \cup manifest[j].lineage : Whole(k)
<1>1. Rooted(j)
  BY DEF IInv, Founded
<1>2. \A p \in Range(manifest[j].resume) : Resumable(p)
  BY DEF Collectable
<1>3. \A r \in Range(manifest[j].recovery) : Archived(r)
  BY DEF Collectable
<1>4. \A k \in manifest[j].chain : Whole(k)
  BY <1>1, <1>2 DEF Rooted, Resumable
<1>5. \A r \in Range(manifest[j].recovery) : \A k \in {r} \cup manifest[r].lineage : Whole(k)
  BY <1>3 DEF Archived
<1>6. \A k \in manifest[j].lineage : Whole(k)
  BY <1>1, <1>4, <1>5 DEF Rooted
<1> QED
  BY <1>6 DEF Collectable

\* Every command of a collected job was run, by it or by a job it rests on,
\* with tools and inputs that reach the checkout it is collected for.
THEOREM CollectedRan == Spec => []CollectedWasRun
<1>1. ASSUME IInv PROVE CollectedWasRun
  <2>1. ASSUME NEW j \in Started, Collectable(j), NEW i \in Index
        PROVE  \E k \in {j} \cup manifest[j].lineage :
                 /\ <<k, i>> \in ran /\ Whole(k)
                 /\ <<manifest[k].tools, checkout.tools>> \in Compatible
                 /\ Unchanged(i, manifest[k].version, checkout.version)
    <3>1. Sound(j) /\ Finished(j) /\ ~evidence[j].raised /\ evidence[j].state = "passed"
      BY <1>1, <2>1 DEF IInv, Collectable, Whole, Finished
    <3>2. i \in evidence[j].passes
      BY <3>1 DEF Sound, Truthful
    <3>3. PICK k \in {j} \cup manifest[j].lineage : StandsFor(k, i, j)
      BY <3>1, <3>2 DEF Sound, PassesRan
    <3>4. Whole(k)
      BY <1>1, <2>1, CollectedIsWhole
    <3>5. checkout.version = manifest[j].version /\ checkout.tools = manifest[j].tools
      BY <2>1 DEF Collectable
    <3> QED
      BY <3>3, <3>4, <3>5 DEF StandsFor
  <2> QED
    BY <2>1 DEF CollectedWasRun
<1> QED
  BY <1>1, Invariance, PTL

\* The part of n that command i belongs to.
LEMMA PartOf ==
  ASSUME NEW i \in Nat, NEW n \in 1..8
  PROVE  /\ i % n \in 0..n - 1
         /\ i >= i % n /\ (i - (i % n)) % n = 0
<1>1. n = 1 \/ n = 2 \/ n = 3 \/ n = 4 \/ n = 5 \/ n = 6 \/ n = 7 \/ n = 8
  OBVIOUS
<1> QED
  BY <1>1

\* Finished jobs of every part leave nothing to run for the job resuming them.
THEOREM PartsWhole == Spec => []PartsMakeAWhole
<1>1. ASSUME IInv PROVE PartsMakeAWhole
  <2>1. ASSUME NEW j \in Started, NEW n \in 1..8,
               \A x \in 0..n - 1 : \E p \in Range(manifest[j].resume) :
                 manifest[p].partition = <<x, n>> /\ evidence[p].state \in {"passed", "partial"},
               NEW i \in Index
        PROVE  i \in Inherited(j)
    <3>1. i \in Nat
      BY CampaignAssumption DEF Index
    <3> DEFINE x == i % n
    <3>2. x \in 0..n - 1 /\ i >= x /\ (i - x) % n = 0
      BY <3>1, PartOf
    <3> HIDE DEF x
    <3>3. PICK p \in Range(manifest[j].resume) :
            manifest[p].partition = <<x, n>> /\ evidence[p].state \in {"passed", "partial"}
      BY <2>1, <3>2
    <3>4. p \in Started
      BY <1>1, <3>3, JobKnown DEF IInv, Founded, Rooted
    <3>5. Sound(p) /\ Finished(p)
      BY <1>1, <3>3, <3>4 DEF IInv, Finished
    <3>6. i \in Assigned(manifest[p].partition)
      BY <3>2, <3>3 DEF Assigned
    <3>7. Truthful(evidence[p], manifest[p].partition, Inherited(p))
      BY <3>5 DEF Sound
    <3>8. ~evidence[p].raised
      BY <3>3, <3>7 DEF Truthful
    <3>9. i \in evidence[p].passes
      BY <3>3, <3>6, <3>7, <3>8 DEF Truthful
    <3> QED
      BY <1>1, <3>3, <3>9 DEF IInv, Founded, ParentsMerged
  <2>2. \A j \in Started : Inherited(j) \subseteq Index
    BY DEF Inherited
  <2> QED
    BY <2>1, <2>2 DEF PartsMakeAWhole
<1> QED
  BY <1>1, Invariance, PTL

===============================================================================

--------------------------- MODULE DetachedJobProofs ---------------------------
(***************************************************************************)
(* The safety of DetachedJob, and that it implements DetachedJobSpec, for  *)
(* every command list, partition, number of shards and log budget, and any *)
(* number of crashes, restarts, cancellations and changes of the inputs.   *)
(*                                                                         *)
(* The invariant follows a record from the shard that writes it (Progress) *)
(* through the verdict of the worker to result.json (Faithful), which no   *)
(* one touches again: the lock lets one worker past its start.             *)
(***************************************************************************)
EXTENDS DetachedJob, FiniteSetTheorems, WellFoundedInduction, TLAPS

Starters == {"allocated", "pending", "launched", "returned", "failing", "recording", "raised"}
Preparing == {"check", "opening", "running", "install"}
Deciding == {"closing", "result", "terminal", "settling"}
Places == {"none", "boot", "shards", "exited", "dead"} \cup Preparing \cup Deciding

ShardPlaces == {"queued", "next", "check", "seal", "exec", "reseal", "publish", "stop", "done"}
Busy == ShardPlaces \ {"queued", "done"}
Ran == {"passed", "failed", "cancelled", "timed_out", "log_limit"}

Record == [state : Terminals \cup {"none"}, bytes : Nat]
Verdicts == [state : Terminals \cup {"none"}, raised : BOOLEAN, results : SUBSET Index]
Threads == [pc : ShardPlaces, current : Nat, run : Record, results : SUBSET Index,
            outcome : Ran \cup {"none", "raised"}]

\* BytesOf, with the records as a parameter.
Total(r, set) == MapThenSumSet(LAMBDA i : r[i].bytes, set)

\* The types, the thread records and the verdict included.
Types ==
  /\ partition \in Partitions /\ inherited \in Inheritances
  /\ starter \in Starters /\ worker \in Places
  /\ verdict \in Verdicts /\ shard \in [Shard -> Threads]
  /\ dir \in Directory /\ clean \subseteq Index
  /\ world \in [expired : BOOLEAN, drift : SUBSET Changeable, drifts : 0..Drifts]

\* The worker is launched last, and a launched worker whose start fails was
\* cancelled first.
Started ==
  /\ starter \in {"allocated", "pending"} => worker = "none"
  /\ starter \in {"failing", "recording"} => worker = "none" \/ dir.cancel

\* One worker passes the lock; before it publishes there is no result, and
\* state.json is only terminal after it exited.
Once ==
  /\ worker \in Preparing \cup Deciding \cup {"shards"} => dir.lock
  /\ (~dir.lock \/ worker \in Preparing \cup {"shards", "closing", "result"}) =>
       dir.result.state = "none"
  /\ (dir.state \in Terminals) => dir.lock /\ worker \in {"exited", "dead", "boot"}

\* The commands of shard s that this job assigns or inherits.
Mine(s) == Group(s) \cap (Assigned(partition) \cup inherited)

\* A shard that started and did not raise.
Counts(s) == shard[s].pc # "queued" /\ shard[s].outcome # "raised"

\* What one shard has done, and what its records say of it.
Progress(s) ==
  LET t == shard[s]
  IN /\ t.results \subseteq Mine(s)
     /\ Counts(s) => inherited \cap Group(s) \subseteq t.results
     /\ Counts(s) => Total(dir.record, t.results) <= Allowance(s)
     /\ \A i \in t.results :
          dir.record[i].state \in {"passed"} \cup (IF t.pc = "stop" THEN {t.run.state} ELSE {})
                                             \cup (IF t.pc = "done" THEN {t.outcome} ELSE {})
     /\ (t.pc \in {"check", "seal", "exec", "reseal", "publish"}) => t.current \in Todo(s)

\* The command a shard has run but not yet published or reported.
Running(s) ==
  LET t == shard[s]
  IN /\ (t.pc \in {"reseal", "publish"}) =>
          /\ t.run.state \in Ran
          /\ Total(dir.record, t.results) + t.run.bytes <= Allowance(s)
     /\ (t.pc = "reseal" /\ t.run.state = "passed" /\ Sealed(Root(s))) => t.current \in clean
     /\ (t.pc = "publish" /\ t.run.state = "passed") => t.current \in clean
     /\ (t.pc = "stop") =>
          /\ t.run.state \in Ran \ {"passed"}
          /\ t.current \in t.results /\ dir.record[t.current].state = t.run.state

\* How a shard ends.
Ended(s) ==
  LET t == shard[s]
  IN /\ (t.pc # "done") => (t.outcome = "none")
     /\ (t.pc = "done") =>
          /\ t.outcome # "none"
          /\ (t.outcome = "passed") => (t.results = Mine(s))
          /\ (t.outcome = "failed") => \E i \in t.results : dir.record[i].state = "failed"
          /\ (t.outcome # "passed") => dir.cancel

\* The threads, while they run, and before.
Threading ==
  /\ (worker \in {"none", "boot"} \cup Preparing) => (shard = IdleShards)
  /\ (worker = "shards") =>
       /\ \A i \in inherited : dir.record[i].state = "passed"
       /\ \A s \in Shard : Progress(s) /\ Running(s) /\ Ended(s)

\* The results of v whose record in directory d is in this state.
Of(v, d, state) == { i \in v.results : d.record[i].state = state }

\* A verdict or a result that was not cut short by an exception says no more
\* than the records do, and no less.
Faithful(v, d, p, inh) ==
  /\ inh \subseteq Of(v, d, "passed")
  /\ v.results \subseteq Assigned(p) \cup inh
  /\ (v.state \notin {"passed", "partial"}) => d.cancel
  /\ (Of(v, d, "failed") # {}) => (v.state \in Concrete)
  /\ (v.state = "failed") => (Of(v, d, "failed") # {})
  /\ (v.state = "passed") => (Of(v, d, "passed") = Index /\ Total(d.record, Index) <= LogBytes)
  /\ (v.state = "partial") =>
       (Of(v, d, "passed") = Assigned(p) \cup inh /\ Of(v, d, "passed") # Index)

Told(v, d, p, inh) ==
  /\ v.state # "none"
  /\ v.raised => (v.state = "failed")
  /\ ~v.raised => Faithful(v, d, p, inh)

\* From the end of the threads on the verdict stands, and then the result.
Verdict ==
  /\ (worker \in Deciding) => Told(verdict, dir, partition, inherited)
  /\ (worker = "closing") => (verdict.state \in {"passed", "partial"} /\ ~verdict.raised)
  /\ (worker \in {"terminal", "settling"}) => (dir.result = verdict)
  /\ (dir.result.state # "none") => Told(dir.result, dir, partition, inherited)

\* The inductive invariant.
IInv == Types /\ PassRanOnFrozenInputs /\ Started /\ Once /\ Threading /\ Verdict

-----------------------------------------------------------------------------
(* Sums of log sizes.  The fold that adds them up is a recursive function:  *)
(* that it is the number of bytes is shown by least counterexample.        *)

\* The same sum as a number of things: one per byte.
Units(r, set) == UNION { {i} \X (1..r[i].bytes) : i \in set }

\* Finitely many records, each with a size.
Sized(r, set) == IsFiniteSet(set) /\ \A i \in set : r[i].bytes \in Nat

\* A set of natural numbers has a least element.
LEMMA HasLeast ==
  ASSUME NEW S, S \subseteq Nat, S # {}
  PROVE  \E x \in S : \A y \in S : x <= y
<1> DEFINE R == OpToRel(<, Nat)
<1>1. IsWellFoundedOn(R, Nat)
  BY NatLessThanWellFounded
<1>2. \A x, y : (<<y, x>> \in R) <=> (x \in Nat /\ y \in Nat /\ y < x)
  BY Zenon DEF OpToRel
<1> HIDE DEF R
<1>3. PICK x \in S : \A y \in S : ~(<<y, x>> \in R)
  BY <1>1, WFMin
<1>4. ASSUME NEW y \in S PROVE ~(y < x)
  BY <1>2, <1>3
<1>5. \A y \in S : x <= y
  BY <1>4
<1> QED
  BY <1>5

\* Finitely many records have finitely many bytes.
LEMMA UnitsFinite ==
  ASSUME NEW r, NEW A, Sized(r, A)
  PROVE  IsFiniteSet(Units(r, A))
<1> DEFINE f == [i \in A |-> {i} \X (1..r[i].bytes)]
           T == { {i} \X (1..r[i].bytes) : i \in A }
<1>1. f \in Surjection(A, T)
  BY DEF Surjection
<1>2. IsFiniteSet(T)
  BY <1>1, FS_Surjection DEF Sized
<1>3. ASSUME NEW i \in A PROVE IsFiniteSet({i} \X (1..r[i].bytes))
  <2>1. IsFiniteSet(1..r[i].bytes)
    BY FS_Interval DEF Sized
  <2> QED
    BY <2>1, FS_Singleton, FS_Product
<1> QED
  BY <1>2, <1>3, FS_UNION DEF Units

\* The bytes of two disjoint sets of records are counted apart.
LEMMA UnitsUnion ==
  ASSUME NEW r, NEW A, NEW B, Sized(r, A), Sized(r, B), A \cap B = {}
  PROVE  Cardinality(Units(r, A \cup B)) = Cardinality(Units(r, A)) + Cardinality(Units(r, B))
<1>1. Units(r, A \cup B) = Units(r, A) \cup Units(r, B)
  BY DEF Units
<1>2. Units(r, A) \cap Units(r, B) = {}
  BY DEF Units
<1>3. IsFiniteSet(Units(r, A)) /\ IsFiniteSet(Units(r, B))
  BY UnitsFinite
<1>4. Cardinality({}) = 0
  BY FS_EmptySet
<1>5. Cardinality(Units(r, A)) \in Nat /\ Cardinality(Units(r, B)) \in Nat
  BY <1>3, FS_CardinalityType
<1>6. \A X, Y : IsFiniteSet(X) /\ IsFiniteSet(Y) /\ X \cap Y = {} =>
        Cardinality(X \cup Y) = Cardinality(X) + Cardinality(Y) - Cardinality({})
  BY FS_Union
<1>7. Cardinality(Units(r, A \cup B)) = Cardinality(Units(r, A)) + Cardinality(Units(r, B)) - 0
  BY <1>1, <1>2, <1>3, <1>4, <1>6
<1> QED
  BY <1>5, <1>7

\* A pair set with one first component counts the second ones.
LEMMA Column ==
  ASSUME NEW x, NEW n \in Nat
  PROVE  Cardinality({x} \X (1..n)) = n
<1>1. IsFiniteSet({x}) /\ Cardinality({x}) = 1
  BY FS_Singleton
<1>2. IsFiniteSet(1..n) /\ Cardinality(1..n) = IF 1 > n THEN 0 ELSE n - 1 + 1
  BY FS_Interval
<1>3. Cardinality(1..n) = n
  BY <1>2
<1>4. Cardinality({x} \X (1..n)) = Cardinality({x}) * Cardinality(1..n)
  BY <1>1, <1>2, FS_Product
<1>5. Cardinality({x} \X (1..n)) = 1 * n
  BY <1>1, <1>3, <1>4
<1> QED
  BY <1>5

\* One record counts its bytes.
LEMMA UnitsSingle ==
  ASSUME NEW r, NEW x, r[x].bytes \in Nat
  PROVE  Cardinality(Units(r, {x})) = r[x].bytes
<1>1. Units(r, {x}) = {x} \X (1..r[x].bytes)
  BY DEF Units
<1>2. Cardinality({x} \X (1..r[x].bytes)) = r[x].bytes
  BY Column
<1> QED
  BY <1>1, <1>2

\* One step of the sum takes any element, since the sum is a cardinality.
LEMMA UnitsStep ==
  ASSUME NEW r, NEW A, Sized(r, A), NEW x \in A
  PROVE  /\ Sized(r, A \ {x})
         /\ Cardinality(Units(r, A)) = r[x].bytes + Cardinality(Units(r, A \ {x}))
<1>1. Sized(r, A \ {x}) /\ Sized(r, {x})
  BY FS_RemoveElement, FS_Singleton DEF Sized
<1>2. A = {x} \cup (A \ {x}) /\ {x} \cap (A \ {x}) = {}
  OBVIOUS
<1>3. Cardinality(Units(r, {x} \cup (A \ {x}))) =
        Cardinality(Units(r, {x})) + Cardinality(Units(r, A \ {x}))
  BY <1>1, <1>2, UnitsUnion
<1>4. Cardinality(Units(r, {x})) = r[x].bytes
  BY UnitsSingle DEF Sized
<1> QED
  BY <1>1, <1>2, <1>3, <1>4

\* A fold over a finite set is what its recursion says.
LEMMA TotalIsCardinality ==
  ASSUME NEW r, NEW A, Sized(r, A)
  PROVE  Total(r, A) = Cardinality(Units(r, A))
<1> DEFINE Eq(f) == f = [s \in SUBSET A |->
                           IF s = {} THEN 0
                           ELSE r[CHOOSE x \in s : TRUE].bytes + f[s \ {CHOOSE x \in s : TRUE}]]
           iter == CHOOSE f : Eq(f)
           card == [s \in SUBSET A |-> Cardinality(Units(r, s))]
<1>1. Total(r, A) = iter[A]
  BY Zenon DEF Total, MapThenSumSet, MapThenFoldSet
<1>2. Cardinality(Units(r, {})) = 0
  <2>1. Units(r, {}) = {}
    BY DEF Units
  <2> QED
    BY <2>1, FS_EmptySet
<1>3. \A s \in SUBSET A : Sized(r, s)
  BY FS_Subset DEF Sized
<1>4. ASSUME NEW s \in SUBSET A, s # {}
      PROVE  card[s] = r[CHOOSE x \in s : TRUE].bytes + card[s \ {CHOOSE x \in s : TRUE}]
  <2>1. PICK x \in s : x = CHOOSE y \in s : TRUE
    BY <1>4
  <2>2. Sized(r, s) /\ s \ {x} \in SUBSET A
    BY <1>3
  <2>3. Cardinality(Units(r, s)) = r[x].bytes + Cardinality(Units(r, s \ {x}))
    BY <2>2, UnitsStep
  <2>4. card[s] = r[x].bytes + card[s \ {x}]
    BY <2>2, <2>3
  <2> QED
    BY <2>1, <2>4
<1>5. Eq(card)
  BY <1>2, <1>4
<1>6. Eq(iter)
  BY <1>5
<1> DEFINE Bad == { s \in SUBSET A : iter[s] # Cardinality(Units(r, s)) }
           Sizes == { Cardinality(s) : s \in Bad }
<1> HIDE DEF Eq, iter, card
<1>7. Bad = {}
  <2> SUFFICES ASSUME Bad # {} PROVE FALSE
    OBVIOUS
  <2>1. Sizes \subseteq Nat /\ Sizes # {}
    BY <1>3, FS_CardinalityType DEF Sized
  <2> HIDE DEF Sizes
  <2>b. \E m \in Sizes : \A n \in Sizes : m <= n
    BY <2>1, HasLeast
  <2>2. PICK s \in Bad : \A t \in Bad : Cardinality(s) <= Cardinality(t)
    BY <2>b DEF Sizes
  <2>3. iter[s] # Cardinality(Units(r, s)) /\ Sized(r, s)
    BY <1>3
  <2>4. iter = [t \in SUBSET A |-> IF t = {} THEN 0
                 ELSE r[CHOOSE x \in t : TRUE].bytes + iter[t \ {CHOOSE x \in t : TRUE}]]
    BY <1>6 DEF Eq
  <2>5. s # {}
    BY <1>2, <2>3, <2>4
  <2>6. PICK x \in s : x = CHOOSE y \in s : TRUE
    BY <2>5
  <2>7. iter[s] = r[x].bytes + iter[s \ {x}]
    BY <2>4, <2>5, <2>6
  <2>8. Cardinality(Units(r, s)) = r[x].bytes + Cardinality(Units(r, s \ {x}))
    BY <2>3, UnitsStep
  <2>9. s \ {x} \in Bad
    BY <2>3, <2>7, <2>8
  <2>10. Cardinality(s \ {x}) = Cardinality(s) - 1 /\ Cardinality(s) \in Nat
    BY <2>3, FS_RemoveElement, FS_CardinalityType DEF Sized
  <2>11. Cardinality(s) <= Cardinality(s \ {x})
    BY <2>2, <2>9
  <2> QED
    BY <2>10, <2>11
<1> QED
  BY <1>1, <1>7

\* What a total is: a number, and the sum over any two parts.
LEMMA TotalUnion ==
  ASSUME NEW r, NEW A, NEW B, Sized(r, A), Sized(r, B), A \cap B = {}
  PROVE  /\ Total(r, A) \in Nat /\ Total(r, B) \in Nat
         /\ Total(r, A \cup B) = Total(r, A) + Total(r, B)
<1>1. Sized(r, A \cup B)
  BY FS_Union DEF Sized
<1>2. Total(r, A) \in Nat /\ Total(r, B) \in Nat
  BY TotalIsCardinality, UnitsFinite, FS_CardinalityType
<1> QED
  BY <1>1, <1>2, TotalIsCardinality, UnitsUnion

LEMMA TotalSingle ==
  ASSUME NEW r, NEW x, r[x].bytes \in Nat
  PROVE  Total(r, {x}) = r[x].bytes /\ Sized(r, {x})
<1>1. Sized(r, {x})
  BY FS_Singleton DEF Sized
<1> QED
  BY <1>1, TotalIsCardinality, UnitsSingle

LEMMA TotalEmpty ==
  ASSUME NEW r
  PROVE  Total(r, {}) = 0
<1>1. Sized(r, {}) /\ Units(r, {}) = {}
  BY FS_EmptySet DEF Sized, Units
<1> QED
  BY <1>1, TotalIsCardinality, FS_EmptySet

\* A total depends on the records it adds up and on no other.
LEMMA TotalSame ==
  ASSUME NEW r, NEW q, NEW A, Sized(r, A), \A i \in A : q[i].bytes = r[i].bytes
  PROVE  Total(q, A) = Total(r, A)
<1>1. Sized(q, A)
  BY DEF Sized
<1>2. Units(q, A) = Units(r, A)
  BY DEF Units
<1> QED
  BY <1>1, <1>2, TotalIsCardinality

-----------------------------------------------------------------------------
(* The groups and the shares of the shards.                                *)

\* Every command belongs to exactly one shard.
LEMMA GroupOf ==
  ASSUME NEW i \in Index
  PROVE  i % Shards \in Shard /\ i \in Group(i % Shards) /\ i \in Nat
<1>1. i \in Nat /\ Shards \in 1..8
  BY JobAssumption DEF Index
<1>2. i % Shards \in Shard
  BY <1>1 DEF Shard
<1> QED
  BY <1>1, <1>2 DEF Group

LEMMA GroupsDisjoint ==
  ASSUME NEW r \in Shard, NEW s \in Shard, NEW i, i \in Group(r), i \in Group(s)
  PROVE  r = s
BY DEF Group

LEMMA IndexFinite == IsFiniteSet(Index) /\ Index \subseteq Nat
BY JobAssumption, FS_Interval DEF Index

\* Division by the number of shards, of which there are few.
LEMMA Division ==
  ASSUME NEW n \in Nat, NEW k \in 1..8
  PROVE  n \div k \in Nat /\ n % k \in 0..k - 1 /\ n = k * (n \div k) + (n % k)
<1>1. CASE k = 1
  BY <1>1
<1>2. CASE k = 2
  BY <1>2
<1>3. CASE k = 3
  BY <1>3
<1>4. CASE k = 4
  BY <1>4
<1>5. CASE k = 5
  BY <1>5
<1>6. CASE k = 6
  BY <1>6
<1>7. CASE k = 7
  BY <1>7
<1>8. CASE k = 8
  BY <1>8
<1> QED
  BY <1>1, <1>2, <1>3, <1>4, <1>5, <1>6, <1>7, <1>8

\* A shard's share is a number, and the shares add up to the budget.
LEMMA Shares ==
  /\ \A s \in Shard : Allowance(s) \in Nat
  /\ LogBytes \div Shards \in Nat /\ LogBytes % Shards \in 0..Shards - 1
  /\ LogBytes = Shards * (LogBytes \div Shards) + (LogBytes % Shards)
<1>1. LogBytes \in Nat /\ Shards \in 1..8
  BY JobAssumption
<1>2. /\ LogBytes \div Shards \in Nat /\ LogBytes % Shards \in 0..Shards - 1
      /\ LogBytes = Shards * (LogBytes \div Shards) + (LogBytes % Shards)
  BY <1>1, Division
<1> QED
  BY <1>1, <1>2 DEF Allowance, Shard

\* Groups that keep to their shares together keep to the budget, for any budget
\* and any number of shards: the shards are added up one after another.
THEOREM Budget ==
  ASSUME NEW r, Sized(r, Index), \A s \in Shard : Total(r, Group(s)) <= Allowance(s)
  PROVE  Total(r, Index) <= LogBytes
<1> DEFINE q == LogBytes \div Shards
           m == LogBytes % Shards
           Below(n) == { i \in Index : i % Shards < n }
           Share(n) == n * q + (IF n < m THEN n ELSE m)
           Fits(n) == Total(r, Below(n)) \in Nat /\ Total(r, Below(n)) <= Share(n)
<1>1. q \in Nat /\ m \in Nat /\ m < Shards /\ Shards \in 1..8 /\ LogBytes = Shards * q + m
  BY Shares, JobAssumption
<1> HIDE DEF q, m
<1>2. \A A \in SUBSET Index : Sized(r, A)
  BY IndexFinite, FS_Subset DEF Sized
<1>3. Fits(0)
  <2>1. Below(0) = {}
    BY GroupOf DEF Shard
  <2>2. Total(r, Below(0)) = 0
    BY <2>1, TotalEmpty
  <2>3. Share(0) \in Nat
    <3>1. 0 * q = 0
      BY <1>1
    <3> QED
      BY <1>1, <3>1
  <2> QED
    BY <2>2, <2>3
<1>4. ASSUME NEW n \in 0..7, n < Shards, Fits(n) PROVE Fits(n + 1)
  <2>1. n \in Shard /\ Group(n) \subseteq Index
    BY <1>1, <1>4 DEF Shard, Group
  <2>2. Below(n + 1) = Below(n) \cup Group(n) /\ Below(n) \cap Group(n) = {}
    BY GroupOf DEF Group, Shard
  <2>3. /\ Total(r, Below(n + 1)) = Total(r, Below(n)) + Total(r, Group(n))
        /\ Total(r, Group(n)) \in Nat
    BY <1>2, <2>1, <2>2, TotalUnion
  <2>4. Total(r, Group(n)) <= q + (IF n < m THEN 1 ELSE 0)
    BY <2>1 DEF Allowance, q, m
  <2>5. Share(n + 1) = Share(n) + q + (IF n < m THEN 1 ELSE 0) /\ Share(n) \in Nat
    <3>1. (n + 1) * q = n * q + q /\ n * q \in Nat
      BY <1>1
    <3> QED
      BY <1>1, <3>1
  <2> HIDE DEF Share, Below
  <2> QED
    BY <1>1, <1>4, <2>3, <2>4, <2>5
<1> HIDE DEF Fits
<1>5. /\ (1 <= Shards => Fits(1)) /\ (2 <= Shards => Fits(2)) /\ (3 <= Shards => Fits(3))
      /\ (4 <= Shards => Fits(4)) /\ (5 <= Shards => Fits(5)) /\ (6 <= Shards => Fits(6))
      /\ (7 <= Shards => Fits(7)) /\ (8 <= Shards => Fits(8))
  <2>1. (1 <= Shards => Fits(1)) /\ (2 <= Shards => Fits(2))
    BY <1>1, <1>3, <1>4
  <2>2. (3 <= Shards => Fits(3)) /\ (4 <= Shards => Fits(4))
    BY <1>1, <1>4, <2>1
  <2>3. (5 <= Shards => Fits(5)) /\ (6 <= Shards => Fits(6))
    BY <1>1, <1>4, <2>2
  <2> QED
    BY <1>1, <1>4, <2>1, <2>2, <2>3
<1>6. Fits(Shards)
  BY <1>1, <1>5
<1>7. Below(Shards) = Index
  BY GroupOf, <1>1 DEF Shard
<1>8. Share(Shards) = LogBytes
  BY <1>1
<1> QED
  BY <1>6, <1>7, <1>8 DEF Fits

-----------------------------------------------------------------------------
(* Frames: what a step that leaves some part alone keeps.                  *)

\* The sums of the model are sums of records.
LEMMA Bytes ==
  ASSUME NEW A
  PROVE  BytesOf(A) = Total(dir.record, A)
BY DEF BytesOf, Total

LEMMA RecordsSized ==
  ASSUME Types, NEW A \in SUBSET Index
  PROVE  Sized(dir.record, A) /\ Total(dir.record, A) \in Nat
<1>1. dir.record \in [Index -> Record]
  BY DEF Types, Directory, Record
<1>2. Sized(dir.record, A)
  BY <1>1, IndexFinite, FS_Subset DEF Sized, Record
<1> QED
  BY <1>2, TotalIsCardinality, UnitsFinite, FS_CardinalityType

\* A shard keeps its facts while its thread and its records stay as they are.
LEMMA ShardFrame ==
  ASSUME Types, NEW s \in Shard, Progress(s), Running(s), Ended(s),
         UNCHANGED manifest, shard'[s] = shard[s],
         \A i \in shard[s].results : dir'.record[i] = dir.record[i],
         dir.cancel => dir'.cancel, clean \subseteq clean',
         shard[s].pc = "reseal" /\ Sealed(Root(s))' => Sealed(Root(s))
  PROVE  Progress(s)' /\ Running(s)' /\ Ended(s)'
<1>1. shard[s].results \in SUBSET Index
  BY DEF Types, Threads
<1>2. Total(dir'.record, shard[s].results) = Total(dir.record, shard[s].results)
  BY <1>1, RecordsSized, TotalSame
<1>3. partition' = partition /\ inherited' = inherited
  BY DEF manifest
<1>4. Progress(s)'
  BY <1>2, <1>3 DEF Progress, Mine, Counts, Todo
<1>5. Running(s)'
  BY <1>2 DEF Running
<1>6. Ended(s)'
  BY <1>3 DEF Ended, Mine
<1> QED
  BY <1>4, <1>5, <1>6

\* What is told stays told while the records stay and no one takes back a
\* cancellation.
LEMMA ToldFrame ==
  ASSUME NEW v, NEW d, NEW e, NEW p, NEW inh, Told(v, d, p, inh),
         e.record = d.record, d.cancel => e.cancel
  PROVE  Told(v, e, p, inh)
BY DEF Told, Faithful, Of

\* A step beside the worker: it may cancel, and it changes no record.
LEMMA Beside ==
  ASSUME IInv, Types', Started', Once',
         UNCHANGED <<manifest, verdict, shard, clean>>,
         dir'.record = dir.record, dir'.result = dir.result, dir.cancel => dir'.cancel,
         worker' = worker \/ (worker' = "boot" /\ worker \in {"none", "boot"}),
         \A s \in Shard : shard[s].pc = "reseal" /\ Sealed(Root(s))' => Sealed(Root(s))
  PROVE  IInv'
<1>1. partition' = partition /\ inherited' = inherited /\ shard' = shard /\ Types
  BY DEF manifest, IInv
<1>2. PassRanOnFrozenInputs'
  BY <1>1 DEF IInv, PassRanOnFrozenInputs
<1>3. Threading'
  <2>1. ASSUME worker' = "shards", NEW s \in Shard
        PROVE  Progress(s)' /\ Running(s)' /\ Ended(s)'
    <3>1. Progress(s) /\ Running(s) /\ Ended(s)
      BY <2>1 DEF IInv, Threading
    <3> QED
      BY <1>1, <3>1, ShardFrame
  <2>2. worker' \in {"none", "boot"} \cup Preparing => shard' = IdleShards
    BY <1>1 DEF IInv, Threading
  <2> QED
    BY <1>1, <2>1, <2>2 DEF Threading, IInv
<1>4. Verdict'
  <2>1. verdict' = verdict /\ (worker' = worker \/ worker' = "boot")
    OBVIOUS
  <2>2. ASSUME worker' \in Deciding PROVE Told(verdict', dir', partition', inherited')
    BY <1>1, <2>1, <2>2, ToldFrame DEF IInv, Verdict, Deciding
  <2>3. ASSUME dir'.result.state # "none" PROVE Told(dir'.result, dir', partition', inherited')
    BY <1>1, <2>3, ToldFrame DEF IInv, Verdict
  <2> QED
    BY <2>1, <2>2, <2>3 DEF IInv, Verdict
<1> QED
  BY <1>2, <1>3, <1>4 DEF IInv

-----------------------------------------------------------------------------
(* The start command, the operator, time, the inputs and crashes.          *)

LEMMA InitInv == Init => IInv
<1> SUFFICES ASSUME Init PROVE IInv
  OBVIOUS
<1>1. Types
  BY JobAssumption
  DEF Init, Types, NoResult, NoRecord, IdleShards, Starters, Places, Verdicts, Threads, Record,
      ShardPlaces, Directory
<1>2. PassRanOnFrozenInputs
  BY DEF Init, PassRanOnFrozenInputs, NoRecord
<1>3. Started /\ Once /\ Threading /\ Verdict
  BY DEF Init, Started, Once, Threading, Verdict, Preparing, Deciding, Terminals, NoResult
<1> QED
  BY <1>1, <1>2, <1>3 DEF IInv

LEMMA StarterInv == IInv /\ (Start \/ StartRaises) => IInv'
<1> SUFFICES ASSUME IInv, Start \/ StartRaises PROVE IInv'
  OBVIOUS
<1>0. Types /\ Started /\ Once
  BY DEF IInv
<1>1. /\ UNCHANGED <<manifest, verdict, shard, clean, world>>
      /\ dir'.record = dir.record /\ dir'.result = dir.result /\ (dir.cancel => dir'.cancel)
      /\ dir' \in Directory
  BY <1>0
  DEF Types, Directory, Terminals, Start, StartRaises, PublishPending, Launch, PublishLaunch,
      OpenFailure, PublishFailure, started
<1>2. \A s \in Shard : Sealed(Root(s))' => Sealed(Root(s))
  BY <1>1 DEF Sealed, Valid, Root
<1>3. Types'
  BY <1>0, <1>1
  DEF Types, Starters, Places, Start, StartRaises, PublishPending, Launch, PublishLaunch,
      OpenFailure, PublishFailure, manifest
<1>4. Started'
  BY <1>0, <1>1
  DEF Types, Directory, Started, Start, StartRaises, PublishPending, Launch, PublishLaunch,
      OpenFailure, PublishFailure
<1>5. worker' = worker \/ (worker' = "boot" /\ worker \in {"none", "boot"})
  BY <1>0
  DEF Started, Start, StartRaises, PublishPending, Launch, PublishLaunch, OpenFailure,
      PublishFailure
<1>6. dir'.lock = dir.lock /\ (dir'.state = dir.state \/ dir'.state \in {"pending", "prepare"})
  BY <1>0
  DEF Types, Directory, Start, StartRaises, PublishPending, Launch, PublishLaunch, OpenFailure,
      PublishFailure
<1>7. Once'
  BY <1>0, <1>1, <1>5, <1>6 DEF Once, Preparing, Deciding, Terminals
<1> QED
  BY <1>1, <1>2, <1>3, <1>4, <1>5, <1>7, Beside

LEMMA OutsideInv ==
  IInv /\ (RequestCancel \/ Expire \/ \E x \in Changeable : Change(x)) => IInv'
<1> SUFFICES ASSUME IInv, RequestCancel \/ Expire \/ \E x \in Changeable : Change(x)
             PROVE  IInv'
  OBVIOUS
<1>0. Types /\ Started /\ Once
  BY DEF IInv
<1>1. /\ UNCHANGED <<manifest, starter, worker, verdict, shard, clean>>
      /\ dir' \in Directory /\ dir'.lock = dir.lock /\ dir'.state = dir.state
      /\ dir'.record = dir.record /\ dir'.result = dir.result /\ (dir.cancel => dir'.cancel)
  BY <1>0 DEF Types, Directory, RequestCancel, Expire, Change, started
<1>2. world' \in [expired : BOOLEAN, drift : SUBSET Changeable, drifts : 0..Drifts]
  <2>1. world \in [expired : BOOLEAN, drift : SUBSET Changeable, drifts : 0..Drifts]
    BY <1>0 DEF Types
  <2>2. CASE RequestCancel \/ Expire
    BY <2>1, <2>2 DEF RequestCancel, Expire, started
  <2>3. ASSUME NEW x \in Changeable, Change(x)
        PROVE  world' \in [expired : BOOLEAN, drift : SUBSET Changeable, drifts : 0..Drifts]
    <3>1. CASE x \notin world.drift /\ world.drifts < Drifts
               /\ world' = [world EXCEPT !.drift = @ \cup {x}, !.drifts = @ + 1]
      <4>1. world.drift \cup {x} \in SUBSET Changeable
        BY <2>1
      <4>2. world.drifts + 1 \in 0..Drifts
        BY <2>1, <3>1, JobAssumption
      <4> QED
        BY <2>1, <3>1, <4>1, <4>2
    <3>2. CASE world' = [world EXCEPT !.drift = @ \ {x}]
      BY <2>1, <3>2
    <3> QED
      BY <2>3, <3>1, <3>2 DEF Change
  <2> QED
    BY <2>2, <2>3
<1>3. ASSUME NEW s \in Shard, shard[s].pc = "reseal", Sealed(Root(s))'
      PROVE  Sealed(Root(s))
  <2>1. world'.drift = world.drift \/ \E x \in Changeable : Change(x)
    BY <1>0 DEF Types, RequestCancel, Expire, started
  <2>2. CASE world'.drift = world.drift
    BY <1>3, <2>2 DEF Sealed, Valid, Root
  <2>3. ASSUME NEW x \in Changeable, Change(x) PROVE Sealed(Root(s))
    <3>1. \/ world'.drift = world.drift \cup {x}
          \/ world'.drift = world.drift \ {x} /\ x \notin {Root(s), Tools}
      BY <1>0, <1>3, <2>3 DEF Types, Change
    <3> QED
      BY <1>3, <3>1 DEF Sealed, Valid
  <2> QED
    BY <2>1, <2>2, <2>3
<1>4. Types' /\ Started' /\ Once'
  BY <1>0, <1>1, <1>2 DEF Types, Started, Once, manifest
<1> QED
  BY <1>1, <1>3, <1>4, Beside

\* A crash loses the threads and the verdict, and leaves the directory.
LEMMA CrashInv == IInv /\ (Dies \/ RunAgain) => IInv'
<1> SUFFICES ASSUME IInv, Dies \/ RunAgain PROVE IInv'
  OBVIOUS
<1>0. Types /\ Started /\ Once /\ Threading /\ Verdict /\ PassRanOnFrozenInputs
  BY DEF IInv
<1>1. /\ UNCHANGED <<partition, inherited, starter, world, clean, dir>>
      /\ verdict' = NoResult /\ shard' = IdleShards /\ worker' \in {"boot", "dead"}
      /\ worker # "none"
  BY DEF Dies, RunAgain, Alive, others, manifest
<1>2. Types'
  BY <1>0, <1>1
  DEF Types, NoResult, NoRecord, IdleShards, Places, Verdicts, Threads, Record, ShardPlaces
<1>3. Once'
  <2>1. CASE Dies
    BY <1>0, <1>1, <2>1 DEF Once, Dies, Alive, Preparing, Deciding, Types, Places
  <2>2. CASE RunAgain
    BY <1>0, <1>1, <2>2 DEF Once, RunAgain, Preparing, Deciding
  <2> QED
    BY <2>1, <2>2
<1>4. Started' /\ Threading'
  BY <1>0, <1>1 DEF Started, Threading, Preparing
<1>5. Verdict' /\ PassRanOnFrozenInputs'
  BY <1>0, <1>1, ToldFrame DEF Verdict, Deciding, PassRanOnFrozenInputs
<1> QED
  BY <1>2, <1>3, <1>4, <1>5 DEF IInv

-----------------------------------------------------------------------------
(* The worker before the shards.                                           *)

\* A step of the worker before it has a verdict, or one that fails.
LEMMA PrepareInv ==
  IInv /\ (TakeLock \/ CheckInputs \/ OpenRunning \/ PublishRunning \/ Install \/ WorkerRaises)
    => IInv'
<1> SUFFICES ASSUME IInv, TakeLock \/ CheckInputs \/ OpenRunning \/ PublishRunning \/ Install
                           \/ WorkerRaises
             PROVE  IInv'
  OBVIOUS
<1>0. Types /\ Started /\ Once /\ Threading /\ Verdict /\ PassRanOnFrozenInputs
  BY DEF IInv
<1>1. /\ UNCHANGED <<partition, inherited, starter, world, clean, shard>>
      /\ dir'.result = dir.result /\ dir'.cancel = dir.cancel
      /\ worker \in {"boot", "check", "opening", "running", "install", "closing"}
  BY <1>0
  DEF Types, Directory, TakeLock, CheckInputs, OpenRunning, PublishRunning, Install,
      WorkerRaises, Fails, others, manifest
<1>2. dir' \in Directory
  <2>1. CASE Install
    <3>1. [i \in Index |-> IF i \in inherited THEN [state |-> "passed", bytes |-> InheritedLog]
                           ELSE dir.record[i]] \in [Index -> Record]
      BY <1>0, JobAssumption DEF Types, Directory, Record, Terminals
    <3> QED
      BY <1>0, <2>1, <3>1 DEF Types, Directory, Install, Record
  <2> QED
    BY <1>0, <2>1
    DEF Types, Directory, TakeLock, CheckInputs, OpenRunning, PublishRunning, WorkerRaises
<1>3. worker' \in Places \ {"none", "boot", "terminal", "settling"} /\ verdict' \in Verdicts
  BY <1>0
  DEF Types, Places, Preparing, Deciding, Verdicts, Terminals, TakeLock, CheckInputs, OpenRunning,
      PublishRunning, Install, WorkerRaises, Fails
<1>4. Types'
  BY <1>0, <1>1, <1>2, <1>3 DEF Types
<1>5. Started'
  BY <1>0, <1>1, <1>3 DEF Started
<1>6. Once'
  <2>1. CASE TakeLock
    BY <1>0, <1>1, <2>1 DEF Types, Directory, Once, TakeLock, Preparing, Deciding
  <2>2. ASSUME CheckInputs \/ OpenRunning \/ PublishRunning \/ Install \/ WorkerRaises
        PROVE  /\ worker \in Preparing \cup {"closing"} /\ dir'.lock = dir.lock
               /\ worker' \in Preparing \cup {"shards", "result"}
               /\ dir'.state \in {dir.state, "running"}
    BY <1>0, <2>2
    DEF Types, Directory, CheckInputs, OpenRunning, PublishRunning, Install, WorkerRaises, Fails,
        Preparing
  <2> QED
    BY <1>0, <1>1, <2>1, <2>2 DEF Once, Preparing, Deciding, Terminals
<1>7. PassRanOnFrozenInputs'
  <2>1. \A i \in Index \ inherited : dir'.record[i] = dir.record[i]
    <3>1. CASE Install
      BY <1>0, <3>1 DEF Types, Directory, Install
    <3>2. CASE ~Install
      BY <1>0, <3>2
      DEF Types, Directory, TakeLock, CheckInputs, OpenRunning, PublishRunning, WorkerRaises
    <3> QED
      BY <3>1, <3>2
  <2> QED
    BY <1>0, <1>1, <2>1 DEF PassRanOnFrozenInputs
<1>8. Threading'
  <2>1. CASE Install
    <3>1. shard = IdleShards /\ worker' = "shards" /\ inherited \subseteq Index
      BY <1>0, <2>1, JobAssumption DEF Install, Threading, Preparing, Types
    <3>2. \A i \in inherited : dir'.record[i].state = "passed"
      BY <1>0, <2>1, <3>1 DEF Install, Types, Directory
    <3>3. \A s \in Shard : /\ shard'[s].pc = "queued" /\ shard'[s].results = {}
                           /\ shard'[s].outcome = "none"
      BY <1>1, <3>1 DEF IdleShards
    <3>4. ASSUME NEW s \in Shard PROVE Progress(s)' /\ Running(s)' /\ Ended(s)'
      BY <3>3 DEF Progress, Running, Ended, Counts
    <3> QED
      BY <1>1, <3>1, <3>2, <3>4 DEF Threading, Preparing
  <2>2. ASSUME ~Install
        PROVE  worker' \in Preparing \cup {"dead", "result"} /\ (worker' = "result" \/ worker # "closing")
    BY <1>0, <2>2
    DEF TakeLock, CheckInputs, OpenRunning, PublishRunning, WorkerRaises, Fails, Preparing
  <2> QED
    BY <1>0, <1>1, <2>1, <2>2 DEF Threading, Preparing
<1>9. Verdict'
  <2>1. ASSUME worker' \in Deciding
        PROVE  worker' = "result" /\ verdict'.state = "failed" /\ verdict'.raised
    BY <1>0, <2>1
    DEF Types, Verdicts, TakeLock, CheckInputs, OpenRunning, PublishRunning, Install,
        WorkerRaises, Fails, Deciding
  <2>2. ASSUME dir'.result.state # "none"
        PROVE  Told(dir'.result, dir', partition', inherited')
    <3>1. TakeLock
      BY <1>0, <1>1, <2>2
      DEF Once, Preparing, CheckInputs, OpenRunning, PublishRunning, Install, WorkerRaises
    <3>2. dir'.record = dir.record
      BY <1>0, <3>1 DEF Types, Directory, TakeLock
    <3> QED
      BY <1>0, <1>1, <2>2, <3>2, ToldFrame DEF Verdict
  <2> QED
    BY <2>1, <2>2 DEF Verdict, Told, Deciding
<1> QED
  BY <1>4, <1>5, <1>6, <1>7, <1>8, <1>9 DEF IInv

-----------------------------------------------------------------------------
(* The worker after the shards.                                            *)

\* A successful verdict that becomes a cancelled one stays truthful.
LEMMA CancelledIsTold ==
  ASSUME NEW v \in Verdicts, NEW d, NEW p, NEW inh, Told(v, d, p, inh), ~v.raised,
         v.state \in {"passed", "partial"}, d.cancel
  PROVE  Told([v EXCEPT !.state = "cancelled"], d, p, inh)
<1> DEFINE w == [v EXCEPT !.state = "cancelled"]
<1>1. w.state = "cancelled" /\ ~w.raised /\ w.results = v.results
  BY DEF Verdicts
<1>2. Of(w, d, "passed") = Of(v, d, "passed") /\ Of(w, d, "failed") = Of(v, d, "failed")
  BY <1>1 DEF Of
<1>3. v.results \subseteq Index /\ v.results \subseteq Assigned(p) \cup inh
  BY DEF Verdicts, Told, Faithful
<1>4. v.results \subseteq Of(v, d, "passed")
  BY <1>3 DEF Told, Faithful
<1>5. Of(v, d, "failed") = {}
  BY <1>4 DEF Of
<1> HIDE DEF w
<1>6. Told(w, d, p, inh)
  BY <1>1, <1>2, <1>3, <1>5 DEF Told, Faithful
<1> QED
  BY <1>6 DEF w

LEMMA SettleInv ==
  IInv /\ (Close \/ PublishResult \/ OpenTerminal \/ PublishTerminal) => IInv'
<1> SUFFICES ASSUME IInv, Close \/ PublishResult \/ OpenTerminal \/ PublishTerminal PROVE IInv'
  OBVIOUS
<1>0. Types /\ Started /\ Once /\ Threading /\ Verdict /\ PassRanOnFrozenInputs
  BY DEF IInv
<1>1. /\ UNCHANGED <<partition, inherited, starter, world, clean, shard>>
      /\ dir'.record = dir.record /\ dir'.cancel = dir.cancel /\ dir'.lock = dir.lock
      /\ dir' \in Directory
      /\ worker \in Deciding /\ worker' \in {"result", "terminal", "settling", "exited", "dead"}
  BY <1>0
  DEF Types, Directory, Close, PublishResult, OpenTerminal, PublishTerminal, Fails, others,
      manifest, Deciding, Verdict, Told, Verdicts, NoResult
<1>2. Told(verdict, dir, partition, inherited) /\ verdict.state \in Terminals
  BY <1>0, <1>1 DEF Verdict, Told, Types, Verdicts
<1>3. Types'
  BY <1>0, <1>1
  DEF Types, Places, Deciding, Verdicts, Terminals, Close, PublishResult, OpenTerminal,
      PublishTerminal, Fails
<1>4. Started' /\ Threading' /\ PassRanOnFrozenInputs'
  BY <1>0, <1>1 DEF Started, Threading, Preparing, Deciding, PassRanOnFrozenInputs
<1>5. Once'
  BY <1>0, <1>1
  DEF Types, Directory, Once, Preparing, Deciding, Close, PublishResult, OpenTerminal,
      PublishTerminal, Fails
<1>6. Verdict'
  <2>1. CASE Close
    <3>1. /\ dir' = dir /\ worker' = "result" /\ dir.result.state = "none"
          /\ verdict.state \in {"passed", "partial"} /\ ~verdict.raised
      BY <1>0, <2>1 DEF Close, Fails, Once, Verdict
    <3>2. Told(verdict', dir', partition', inherited')
      <4>1. CASE ~Sealed(Snapshot)
        BY <1>0, <2>1, <4>1 DEF Close, Fails, Told, Types, Verdicts
      <4>2. CASE Sealed(Snapshot) /\ dir.cancel
        <5>1. verdict' = [verdict EXCEPT !.state = "cancelled"]
          BY <2>1, <4>2 DEF Close
        <5> QED
          BY <1>0, <1>1, <1>2, <3>1, <4>2, <5>1, CancelledIsTold DEF Types
      <4>3. CASE Sealed(Snapshot) /\ ~dir.cancel
        <5>1. verdict' = verdict
          BY <1>0, <2>1, <4>3 DEF Close, Types, Verdicts
        <5> QED
          BY <1>1, <1>2, <3>1, <5>1
      <4> QED
        BY <4>1, <4>2, <4>3
    <3> QED
      BY <3>1, <3>2 DEF Verdict
  <2>2. CASE PublishResult
    <3>1. dir'.result = verdict /\ verdict' = verdict /\ worker' = "terminal"
      BY <1>0, <2>2 DEF PublishResult, Types, Directory
    <3> QED
      BY <1>1, <1>2, <3>1, ToldFrame DEF Verdict
  <2>3. CASE OpenTerminal \/ PublishTerminal
    <3>1. /\ dir'.result = dir.result /\ verdict' = verdict
          /\ worker \in {"terminal", "settling"} /\ worker' \in {"settling", "exited", "dead"}
      BY <1>0, <2>3 DEF OpenTerminal, PublishTerminal, Types, Directory
    <3>2. dir.result = verdict
      BY <1>0, <3>1 DEF Verdict
    <3>3. Told(verdict', dir', partition', inherited')
      BY <1>1, <1>2, <3>1, ToldFrame
    <3> QED
      BY <3>1, <3>2, <3>3 DEF Verdict
  <2> QED
    BY <2>1, <2>2, <2>3
<1> QED
  BY <1>3, <1>4, <1>5, <1>6 DEF IInv

-----------------------------------------------------------------------------
(* The end of the threads.                                                 *)

\* What the results of all shards say once every thread is done and none of
\* them raised.
LEMMA AllDone ==
  ASSUME IInv, worker = "shards", \A s \in Shard : shard[s].pc = "done",
         \A s \in Shard : shard[s].outcome # "raised"
  PROVE  LET results == UNION { shard[s].results : s \in Shard }
         IN /\ inherited \subseteq results /\ results \subseteq Assigned(partition) \cup inherited
            /\ results \subseteq Index
            /\ \A s \in Shard : shard[s].outcome \in Ran
            /\ \A i \in inherited : dir.record[i].state = "passed"
            /\ \A i \in results : \/ dir.record[i].state = "passed"
                                  \/ \E s \in Shard : dir.record[i].state = shard[s].outcome
            /\ \A s \in Shard : (shard[s].outcome = "failed") =>
                                 \E i \in results : dir.record[i].state = "failed"
            /\ \A s \in Shard : (shard[s].outcome # "passed") => dir.cancel
<1> DEFINE results == UNION { shard[s].results : s \in Shard }
<1>0. /\ Types /\ \A i \in inherited : dir.record[i].state = "passed"
      /\ \A s \in Shard : Progress(s) /\ Ended(s) /\ Counts(s)
  BY DEF IInv, Threading, Counts
<1>1. inherited \subseteq results
  <2> SUFFICES ASSUME NEW i \in inherited PROVE \E s \in Shard : i \in shard[s].results
    OBVIOUS
  <2>1. i \in Index
    BY <1>0, JobAssumption DEF Types
  <2>2. i % Shards \in Shard /\ i \in Group(i % Shards)
    BY <2>1, GroupOf
  <2> QED
    BY <1>0, <2>2 DEF Progress
<1>2. \A s \in Shard : shard[s].results \subseteq Mine(s)
  BY <1>0 DEF Progress
<1>3. results \subseteq Assigned(partition) \cup inherited /\ results \subseteq Index
  BY <1>2 DEF Mine, Group
<1>4. ASSUME NEW s \in Shard
      PROVE  /\ shard[s].outcome \in Ran
             /\ \A i \in shard[s].results : dir.record[i].state \in {"passed", shard[s].outcome}
             /\ (shard[s].outcome = "failed") =>
                  \E i \in results : dir.record[i].state = "failed"
             /\ (shard[s].outcome # "passed") => dir.cancel
  <2>1. shard[s] \in Threads
    BY <1>0 DEF Types
  <2> QED
    BY <1>0, <2>1 DEF Progress, Ended, Threads
<1> QED
  BY <1>0, <1>1, <1>3, <1>4

\* If all commands are among the results of shards that did not raise, their
\* logs fit into the budget.
LEMMA LogsFit ==
  ASSUME IInv, worker = "shards", \A s \in Shard : shard[s].pc = "done",
         \A s \in Shard : shard[s].outcome # "raised",
         UNION { shard[s].results : s \in Shard } = Index
  PROVE  Total(dir.record, Index) <= LogBytes
<1>1. Types /\ \A s \in Shard : Progress(s) /\ Counts(s)
  BY DEF IInv, Threading, Counts
<1>2. ASSUME NEW s \in Shard PROVE Total(dir.record, Group(s)) <= Allowance(s)
  <2>1. \A r \in Shard : shard[r].results \subseteq Group(r)
    BY <1>1 DEF Progress, Mine
  <2>2. Group(s) \subseteq Index
    BY DEF Group
  <2>3. ASSUME NEW i \in Group(s) PROVE i \in shard[s].results
    <3>1. PICK r \in Shard : i \in shard[r].results
      BY <2>2
    <3>2. r = s
      BY <2>1, <3>1, GroupsDisjoint
    <3> QED
      BY <3>1, <3>2
  <2>4. shard[s].results = Group(s)
    BY <2>1, <2>3
  <2> QED
    BY <1>1, <2>4 DEF Progress
<1> QED
  BY <1>1, <1>2, RecordsSized, Budget

LEMMA JoinInv == IInv /\ Join => IInv'
<1> SUFFICES ASSUME IInv, Join PROVE IInv'
  OBVIOUS
<1>0. Types /\ Started /\ Once /\ Threading /\ Verdict /\ PassRanOnFrozenInputs
  BY DEF IInv
<1> DEFINE outcomes == { shard[s].outcome : s \in Shard }
           results == UNION { shard[s].results : s \in Shard }
<1>1. /\ UNCHANGED <<partition, inherited, starter, world, clean, shard, dir>>
      /\ worker = "shards" /\ \A s \in Shard : shard[s].pc = "done"
  BY DEF Join, others, manifest
<1>2. PICK state \in Outcomes(outcomes) :
        IF "raised" \in outcomes
           \/ (state = "passed" /\ results # Assigned(partition) \cup inherited)
        THEN Fails(NoResult)
        ELSE LET final == IF state = "passed" /\ results # Index THEN "partial" ELSE state
             IN /\ worker' = IF final \in {"passed", "partial"} THEN "closing" ELSE "result"
                /\ verdict' = [NoResult EXCEPT !.state = final, !.results = results]
  BY DEF Join
<1>3. ASSUME worker' \in {"closing", "result"}, verdict' \in Verdicts,
             Told(verdict', dir, partition, inherited),
             worker' = "closing" => verdict'.state \in {"passed", "partial"} /\ ~verdict'.raised
      PROVE  IInv'
  <2>1. Types' /\ Started' /\ Once' /\ Threading' /\ PassRanOnFrozenInputs'
    BY <1>0, <1>1, <1>3
    DEF Types, Places, Deciding, Started, Once, Threading, Preparing, PassRanOnFrozenInputs
  <2>2. Verdict'
    BY <1>0, <1>1, <1>3 DEF Verdict, Once
  <2> QED
    BY <2>1, <2>2 DEF IInv
<1>4. CASE Fails(NoResult)
  <2>1. /\ worker' = "result" /\ verdict' \in Verdicts
        /\ verdict'.state = "failed" /\ verdict'.raised
    BY <1>4 DEF Fails, NoResult, Verdicts, Terminals
  <2> QED
    BY <1>3, <2>1 DEF Told
<1>5. ASSUME ~Fails(NoResult) PROVE IInv'
  <2> DEFINE final == IF state = "passed" /\ results # Index THEN "partial" ELSE state
  <2>1. /\ \A s \in Shard : shard[s].outcome # "raised"
        /\ (state = "passed") => (results = Assigned(partition) \cup inherited)
        /\ worker' = IF final \in {"passed", "partial"} THEN "closing" ELSE "result"
        /\ verdict' = [NoResult EXCEPT !.state = final, !.results = results]
    BY <1>2, <1>5
  <2>2. /\ inherited \subseteq results /\ results \subseteq Assigned(partition) \cup inherited
        /\ results \subseteq Index
        /\ \A s \in Shard : shard[s].outcome \in Ran
        /\ \A i \in inherited : dir.record[i].state = "passed"
        /\ \A i \in results : \/ dir.record[i].state = "passed"
                              \/ \E s \in Shard : dir.record[i].state = shard[s].outcome
        /\ \A s \in Shard : (shard[s].outcome = "failed") =>
                             \E i \in results : dir.record[i].state = "failed"
        /\ \A s \in Shard : (shard[s].outcome # "passed") => dir.cancel
    BY <1>1, <2>1, AllDone
  <2>3. results = Index => Total(dir.record, Index) <= LogBytes
    BY <1>1, <2>1, LogsFit
  <2> HIDE DEF results
  <2>4. /\ state \in {"passed", "cancelled"} \cup Concrete
        /\ (state \notin {"passed", "partial"}) => \E s \in Shard : shard[s].outcome = state
        /\ (state = "passed") => \A s \in Shard : shard[s].outcome = "passed"
        /\ (\E s \in Shard : shard[s].outcome = "failed") => state \in Concrete
    <3>1. CASE outcomes \cap Concrete # {}
      <4>1. state \in outcomes \cap Concrete
        BY <1>2, <3>1 DEF Outcomes
      <4> QED
        BY <4>1 DEF Concrete
    <3>2. CASE outcomes \cap Concrete = {} /\ "cancelled" \in outcomes
      <4>1. state = "cancelled"
        BY <1>2, <3>2 DEF Outcomes
      <4> QED
        BY <3>2, <4>1 DEF Concrete
    <3>3. CASE outcomes \cap Concrete = {} /\ "cancelled" \notin outcomes
      <4>1. state = "passed"
        BY <1>2, <3>3 DEF Outcomes
      <4>2. \A s \in Shard : shard[s].outcome \in Ran \ (Concrete \cup {"cancelled"})
        BY <2>2, <3>3
      <4> QED
        BY <4>1, <4>2 DEF Ran, Concrete
    <3> QED
      BY <3>1, <3>2, <3>3
  <2>5. /\ verdict'.state = final /\ ~verdict'.raised /\ verdict'.results = results
        /\ verdict' \in Verdicts
    BY <2>1, <2>2, <2>4 DEF NoResult, Verdicts, Terminals, Concrete
  <2>6. Faithful(verdict', dir, partition, inherited)
    <3> DEFINE passes == Of(verdict', dir, "passed")
               failures == Of(verdict', dir, "failed")
    <3>1. passes \subseteq results /\ inherited \subseteq passes
      BY <2>2, <2>5 DEF Of
    <3>2. (failures # {}) => \E s \in Shard : shard[s].outcome = "failed"
      BY <2>2, <2>5 DEF Of
    <3>3. (state = "failed") => (failures # {})
      BY <2>2, <2>4, <2>5 DEF Of
    <3>4. (state = "passed") => (passes = results)
      BY <2>2, <2>4, <2>5 DEF Of
    <3>5. (state \notin {"passed", "partial"}) => dir.cancel
      BY <2>2, <2>4
    <3>6. final = state \/ (final = "partial" /\ state = "passed" /\ results # Index)
      OBVIOUS
    <3>7. (final = "passed") => (state = "passed" /\ results = Index)
      BY <2>4 DEF Concrete
    <3>8. (final = "partial") => (state = "passed" /\ results # Index)
      BY <2>4 DEF Concrete
    <3>9. (final \in Concrete) = (state \in Concrete)
      BY <3>6 DEF Concrete
    <3> HIDE DEF passes, failures, final
    <3>10. /\ final \notin {"passed", "partial"} => dir.cancel
           /\ failures # {} => final \in Concrete
           /\ final = "failed" => failures # {}
           /\ final = "passed" => passes = Index /\ Total(dir.record, Index) <= LogBytes
           /\ final = "partial" => passes = Assigned(partition) \cup inherited /\ passes # Index
      BY <2>1, <2>3, <2>4, <3>2, <3>3, <3>4, <3>5, <3>6, <3>7, <3>8, <3>9
    <3> QED
      BY <2>2, <2>5, <3>1, <3>10 DEF Faithful, passes, failures
  <2> QED
    BY <1>3, <2>1, <2>4, <2>5, <2>6 DEF Told, Concrete
<1> QED
  BY <1>4, <1>5

-----------------------------------------------------------------------------
(* The steps of a shard.                                                   *)

\* The places and values of a thread that an action reads.
LEMMA ThreadFacts ==
  ASSUME IInv, NEW s \in Shard, worker = "shards"
  PROVE  /\ Types /\ Progress(s) /\ Running(s) /\ Ended(s) /\ shard[s] \in Threads
         /\ \A i \in inherited : dir.record[i].state = "passed"
         /\ Group(s) \subseteq Index /\ inherited \subseteq Index
BY JobAssumption DEF IInv, Threading, Types, Group

\* A step of one shard disturbs no other: it writes one record of its own group.
LEMMA ShardStep ==
  ASSUME IInv, NEW s \in Shard, worker = "shards", UNCHANGED still,
         NEW t \in Threads, shard' = [shard EXCEPT ![s] = t],
         dir' \in Directory, dir'.result = dir.result, dir'.state = dir.state,
         dir'.lock = dir.lock, dir.cancel => dir'.cancel,
         \A i \in Index \ Group(s) : dir'.record[i] = dir.record[i],
         \A i \in inherited : dir'.record[i] = dir.record[i],
         clean' \subseteq Index, clean \subseteq clean', PassRanOnFrozenInputs',
         Progress(s)', Running(s)', Ended(s)'
  PROVE  IInv'
<1>0. Types /\ Started /\ Once /\ Threading /\ Verdict
  BY DEF IInv
<1>1. /\ partition' = partition /\ inherited' = inherited /\ starter' = starter
      /\ worker' = "shards" /\ verdict' = verdict /\ world' = world
      /\ shard'[s] = t /\ \A r \in Shard \ {s} : shard'[r] = shard[r]
  BY <1>0 DEF still, manifest, Types
<1>2. Types' /\ Started' /\ Once'
  BY <1>0, <1>1 DEF Types, Started, Once, Preparing, Deciding
<1>3. ASSUME NEW r \in Shard \ {s} PROVE Progress(r)' /\ Running(r)' /\ Ended(r)'
  <2>1. Progress(r) /\ Running(r) /\ Ended(r)
    BY <1>0 DEF Threading
  <2>2. \A i \in shard[r].results : dir'.record[i] = dir.record[i]
    BY <2>1, GroupsDisjoint DEF Progress, Mine, Group
  <2>3. Sealed(Root(r))' => Sealed(Root(r))
    BY <1>1 DEF Sealed, Valid
  <2> QED
    BY <1>0, <1>1, <2>1, <2>2, <2>3, ShardFrame DEF manifest
<1>4. Threading'
  BY <1>0, <1>1, <1>3 DEF Threading, Preparing
<1>5. Verdict'
  BY <1>0, <1>1 DEF Verdict, Once, Deciding
<1> QED
  BY <1>2, <1>4, <1>5 DEF IInv

\* A step of one shard that writes no record.
LEMMA ShardMoves ==
  ASSUME IInv, NEW s \in Shard, worker = "shards", UNCHANGED still,
         NEW t \in Threads, shard' = [shard EXCEPT ![s] = t],
         NEW c \in BOOLEAN, dir' = [dir EXCEPT !.cancel = @ \/ c],
         clean' \subseteq Index, clean \subseteq clean',
         Progress(s)', Running(s)', Ended(s)'
  PROVE  IInv'
<1>1. /\ dir' \in Directory /\ dir'.record = dir.record /\ dir'.result = dir.result
      /\ dir'.state = dir.state /\ dir'.lock = dir.lock /\ (dir.cancel => dir'.cancel)
  BY DEF IInv, Types, Directory
<1>2. PassRanOnFrozenInputs'
  BY <1>1 DEF IInv, PassRanOnFrozenInputs, still, manifest
<1> QED
  BY <1>1, <1>2, ShardStep

\* A thread ends: it has a reason, and the cancel file if the others must stop.
LEMMA EndsInv ==
  ASSUME IInv, NEW s \in Shard, worker = "shards", shard[s].pc # "done",
         NEW outcome \in Ran \cup {"raised"}, NEW cancels \in BOOLEAN,
         Ends(s, outcome, cancels),
         outcome # "raised" => shard[s].pc # "queued",
         outcome # "passed" => dir.cancel \/ cancels,
         outcome = "passed" => shard[s].results = Mine(s),
         outcome = "failed" => \E i \in shard[s].results : dir.record[i].state = "failed",
         \A i \in shard[s].results : dir.record[i].state \in {"passed", outcome}
  PROVE  IInv'
<1> DEFINE t == [shard[s] EXCEPT !.pc = "done", !.outcome = outcome]
<1>0. /\ Types /\ Progress(s) /\ Ended(s) /\ shard[s] \in Threads
  BY ThreadFacts
<1>1. /\ t \in Threads /\ t.pc = "done" /\ t.outcome = outcome /\ t.results = shard[s].results
  BY <1>0 DEF Threads, ShardPlaces
<1>2. /\ shard' = [shard EXCEPT ![s] = t] /\ shard'[s] = t
      /\ UNCHANGED still /\ clean' = clean
      /\ dir' = [dir EXCEPT !.cancel = @ \/ cancels]
  BY <1>0 DEF Ends, Types
<1>3. /\ partition' = partition /\ inherited' = inherited
      /\ dir'.record = dir.record /\ dir'.cancel = (dir.cancel \/ cancels)
  BY <1>0, <1>2 DEF still, manifest, Types, Directory
<1> HIDE DEF t
<1>4. Progress(s)'
  <2>1. Counts(s)' => Counts(s)
    BY <1>0, <1>1, <1>2 DEF Counts, Ended
  <2> QED
    BY <1>0, <1>1, <1>2, <1>3, <2>1 DEF Progress, Mine
<1>5. Running(s)' /\ Ended(s)'
  BY <1>0, <1>1, <1>2, <1>3 DEF Running, Ended, Mine, Ran
<1> QED
  BY <1>0, <1>1, <1>2, <1>4, <1>5, ShardMoves DEF Types

\* A shard starts on its commands, with what it inherits counted.
LEMMA EnterInv == ASSUME IInv, NEW s \in Shard, Enter(s) PROVE IInv'
<1> DEFINE t == [shard[s] EXCEPT !.pc = "next", !.results = Imported(s)]
<1>0. /\ Types /\ Progress(s) /\ Ended(s) /\ shard[s] \in Threads
      /\ worker = "shards" /\ shard[s].pc = "queued" /\ Group(s) \subseteq Index
      /\ \A i \in inherited : dir.record[i].state = "passed"
  BY ThreadFacts DEF Enter, At
<1>1. CASE Ends(s, "raised", TRUE)
  <2>1. \A i \in shard[s].results : dir.record[i].state \in {"passed", "raised"}
    BY <1>0 DEF Progress
  <2> QED
    BY <1>0, <1>1, <2>1, EndsInv
<1>2. ASSUME ~Ends(s, "raised", TRUE) PROVE IInv'
  <2>1. /\ BytesOf(inherited \cap Group(s)) <= Allowance(s)
        /\ shard' = [shard EXCEPT ![s].pc = "next", ![s].results = Imported(s)]
        /\ UNCHANGED <<still, dir, clean>>
    BY <1>2 DEF Enter
  <2>2. /\ t \in Threads /\ t.pc = "next" /\ t.results = inherited \cap Group(s)
        /\ t.outcome = "none"
    BY <1>0 DEF Threads, ShardPlaces, Imported, Ended
  <2>3. shard' = [shard EXCEPT ![s] = t] /\ shard'[s] = t
    BY <1>0, <2>1 DEF Types
  <2>4. partition' = partition /\ inherited' = inherited /\ dir' = dir
    BY <2>1 DEF still, manifest
  <2> HIDE DEF t
  <2>5. Total(dir.record, t.results) <= Allowance(s)
    BY <2>1, <2>2, Bytes
  <2>6. Progress(s)'
    BY <1>0, <2>2, <2>3, <2>4, <2>5 DEF Progress, Mine, Counts
  <2>7. Running(s)' /\ Ended(s)'
    BY <2>2, <2>3 DEF Running, Ended
  <2>8. dir' = [dir EXCEPT !.cancel = @ \/ FALSE]
    BY <1>0, <2>4 DEF Types, Directory
  <2> QED
    BY <1>0, <2>1, <2>2, <2>3, <2>6, <2>7, <2>8, ShardMoves DEF Types
<1> QED
  BY <1>1, <1>2

\* The shard chooses its next command.
LEMMA LeastTodo ==
  ASSUME Types, NEW s \in Shard, Todo(s) # {}
  PROVE  Min(Todo(s)) \in Todo(s)
<1>1. Todo(s) \subseteq Nat
  BY IndexFinite DEF Todo, Group
<1>2. \E x \in Todo(s) : \A y \in Todo(s) : x <= y
  BY <1>1, HasLeast
<1> QED
  BY <1>2 DEF Min

\* The steps that move a thread through one command and leave the directory
\* and the results alone.
LEMMA Advance ==
  ASSUME IInv, NEW s \in Shard, worker = "shards", NEW t \in Threads,
         shard' = [shard EXCEPT ![s] = t], UNCHANGED <<still, dir>>,
         clean' \subseteq Index, clean \subseteq clean',
         shard[s].pc \in {"next", "check", "seal", "exec", "reseal"},
         t.pc \in {"check", "seal", "exec", "reseal", "publish"},
         t.results = shard[s].results, t.outcome = shard[s].outcome,
         t.current \in Todo(s), Running(s)'
  PROVE  IInv'
<1>0. /\ Types /\ Progress(s) /\ Ended(s)
  BY ThreadFacts
<1>1. /\ partition' = partition /\ inherited' = inherited /\ dir' = dir /\ shard'[s] = t
  BY <1>0 DEF still, manifest, Types
<1>2. Progress(s)'
  BY <1>0, <1>1 DEF Progress, Mine, Counts, Todo
<1>3. Ended(s)'
  BY <1>0, <1>1 DEF Ended
<1>4. dir' = [dir EXCEPT !.cancel = @ \/ FALSE]
  BY <1>0, <1>1 DEF Types, Directory
<1> QED
  BY <1>2, <1>3, <1>4, ShardMoves

LEMMA BeginInv == ASSUME IInv, NEW s \in Shard, Begin(s) PROVE IInv'
<1> DEFINE t == [shard[s] EXCEPT !.pc = "check", !.current = Min(Todo(s))]
<1>0. /\ Types /\ shard[s] \in Threads /\ worker = "shards" /\ shard[s].pc = "next"
      /\ Todo(s) # {} /\ UNCHANGED <<still, dir, clean>>
      /\ shard' = [shard EXCEPT ![s].pc = "check", ![s].current = Min(Todo(s))]
  BY ThreadFacts DEF Begin, At
<1>1. Min(Todo(s)) \in Todo(s) /\ Min(Todo(s)) \in Nat
  BY <1>0, LeastTodo, IndexFinite DEF Todo, Group
<1>2. /\ t \in Threads /\ t.pc = "check" /\ t.current = Min(Todo(s))
      /\ t.results = shard[s].results /\ t.outcome = shard[s].outcome
  BY <1>0, <1>1 DEF Threads, ShardPlaces
<1>3. shard' = [shard EXCEPT ![s] = t] /\ shard'[s] = t
  BY <1>0 DEF Types
<1> HIDE DEF t
<1>4. Running(s)'
  BY <1>2, <1>3 DEF Running
<1> QED
  BY <1>0, <1>1, <1>2, <1>3, <1>4, Advance DEF Types

\* A thread that goes on with its command.
LEMMA GoesInv ==
  ASSUME IInv, NEW s \in Shard, worker = "shards", NEW pc, Goes(s, pc),
         \/ shard[s].pc = "check" /\ pc = "seal"
         \/ shard[s].pc = "seal" /\ pc = "exec"
         \/ /\ shard[s].pc = "reseal" /\ pc = "publish"
            /\ (shard[s].run.state = "passed") => Sealed(Root(s))
  PROVE  IInv'
<1> DEFINE t == [shard[s] EXCEPT !.pc = pc]
<1>0. /\ Types /\ Progress(s) /\ Running(s) /\ shard[s] \in Threads
      /\ UNCHANGED <<still, dir, clean>> /\ shard' = [shard EXCEPT ![s].pc = pc]
  BY ThreadFacts DEF Goes
<1>1. /\ t \in Threads /\ t.pc = pc /\ t.current = shard[s].current /\ t.run = shard[s].run
      /\ t.results = shard[s].results /\ t.outcome = shard[s].outcome
  BY <1>0 DEF Threads, ShardPlaces
<1>2. shard' = [shard EXCEPT ![s] = t] /\ shard'[s] = t
  BY <1>0 DEF Types
<1> HIDE DEF t
<1>3. Running(s)'
  BY <1>0, <1>1, <1>2 DEF Running
<1>4. t.current \in Todo(s)
  BY <1>0, <1>1 DEF Progress
<1> QED
  BY <1>0, <1>1, <1>2, <1>3, <1>4, Advance DEF Types

\* Cancellation, the deadline and the log allowance end a shard whose commands
\* so far have all passed.
LEMMA CheckInv == ASSUME IInv, NEW s \in Shard, Check(s) PROVE IInv'
<1>0. /\ worker = "shards" /\ shard[s].pc = "check" /\ Progress(s)
  BY ThreadFacts DEF Check, At
<1>1. \A i \in shard[s].results : dir.record[i].state = "passed"
  BY <1>0 DEF Progress
<1>2. CASE dir.cancel /\ Ends(s, "cancelled", FALSE)
  BY <1>0, <1>1, <1>2, EndsInv DEF Ran
<1>3. CASE Ends(s, "timed_out", TRUE)
  BY <1>0, <1>1, <1>3, EndsInv DEF Ran
<1>4. CASE Ends(s, "log_limit", TRUE)
  BY <1>0, <1>1, <1>4, EndsInv DEF Ran
<1>5. CASE Goes(s, "seal")
  BY <1>0, <1>5, GoesInv
<1> QED
  BY <1>2, <1>3, <1>4, <1>5 DEF Check

\* A command has run: what it printed fits, and if it passed on unchanged
\* inputs the history says so.
LEMMA ExecutedInv ==
  ASSUME IInv, NEW s \in Shard, NEW state \in Ran, NEW n \in Nat, Executed(s, state, n),
         n = 0 \/ n <= Room(s),
         clean' \subseteq Index, clean \subseteq clean',
         state = "passed" /\ Sealed(Root(s)) => shard[s].current \in clean'
  PROVE  IInv'
<1> DEFINE t == [shard[s] EXCEPT !.pc = "reseal", !.run = [state |-> state, bytes |-> n]]
<1>0. /\ Types /\ Progress(s) /\ Running(s) /\ Ended(s) /\ shard[s] \in Threads
      /\ worker = "shards" /\ shard[s].pc = "exec" /\ UNCHANGED <<still, dir>>
      /\ shard' = [shard EXCEPT ![s].pc = "reseal", ![s].run = [state |-> state, bytes |-> n]]
  BY ThreadFacts DEF Executed, At
<1>1. /\ t \in Threads /\ t.pc = "reseal" /\ t.current = shard[s].current
      /\ t.run.state = state /\ t.run.bytes = n
      /\ t.results = shard[s].results /\ t.outcome = shard[s].outcome
  BY <1>0 DEF Threads, ShardPlaces, Record, Ran, Terminals
<1>2. shard' = [shard EXCEPT ![s] = t] /\ shard'[s] = t /\ world' = world /\ dir' = dir
  BY <1>0 DEF Types, still
<1>3. Total(dir.record, shard[s].results) + n <= Allowance(s)
  <2>1. Total(dir.record, shard[s].results) <= Allowance(s)
    BY <1>0 DEF Progress, Counts, Ended
  <2>2. Total(dir.record, shard[s].results) \in Nat /\ Allowance(s) \in Nat
    BY <1>0, RecordsSized, Shares DEF Threads
  <2>3. Room(s) = Allowance(s) - Total(dir.record, shard[s].results)
    BY Bytes DEF Room
  <2> QED
    BY <2>1, <2>2, <2>3
<1> HIDE DEF t
<1>4. Running(s)'
  BY <1>1, <1>2, <1>3 DEF Running, Sealed, Valid
<1>5. t.current \in Todo(s)
  BY <1>0, <1>1 DEF Progress
<1> QED
  BY <1>0, <1>1, <1>2, <1>4, <1>5, Advance DEF Types

\* Whatever ends the command.
LEMMA RunInv ==
  ASSUME IInv, NEW s \in Shard, Stopped(s) \/ Flooded(s) \/ Exits(s)
  PROVE  IInv'
<1>0. Types /\ clean \subseteq Index
  BY DEF IInv, Types
<1>1. ASSUME NEW state \in Ran \ {"passed"}, Executed(s, state, 0), UNCHANGED clean PROVE IInv'
  BY <1>0, <1>1, ExecutedInv
<1>2. ASSUME NEW n \in LogSizes, n <= Room(s), Executed(s, "passed", n),
             clean' = IF Sealed(Root(s)) THEN clean \cup {shard[s].current} ELSE clean
      PROVE  IInv'
  <2>1. worker = "shards" /\ shard[s].pc = "exec"
    BY <1>2 DEF Executed, At
  <2>2. shard[s].current \in Index
    BY <2>1, ThreadFacts DEF Progress, Todo, Group
  <2>3. n \in Nat /\ "passed" \in Ran
    BY JobAssumption DEF Ran
  <2>4. clean' \subseteq Index /\ clean \subseteq clean'
    BY <1>0, <1>2, <2>2
  <2> QED
    BY <1>2, <2>3, <2>4, ExecutedInv
<1> QED
  BY <1>1, <1>2 DEF Stopped, Flooded, Exits, Ran

\* A record is published and counted with the results.
LEMMA PublishInv == ASSUME IInv, NEW s \in Shard, Publish(s) PROVE IInv'
<1> DEFINE c == shard[s].current
           run == shard[s].run
           t == [shard[s] EXCEPT !.pc = IF run.state = "passed" THEN "next" ELSE "stop",
                                 !.results = @ \cup {c}]
<1>0. /\ Types /\ Progress(s) /\ Running(s) /\ Ended(s) /\ shard[s] \in Threads
      /\ worker = "shards" /\ shard[s].pc = "publish" /\ UNCHANGED <<still, clean>>
      /\ dir' = [dir EXCEPT !.record[c] = run]
      /\ shard' = [shard EXCEPT ![s].pc = IF run.state = "passed" THEN "next" ELSE "stop",
                                ![s].results = @ \cup {c}]
  BY ThreadFacts DEF Publish, At
<1>1. /\ c \in Index /\ c \in Group(s) /\ c \in Assigned(partition) /\ c \notin inherited
      /\ c \notin shard[s].results /\ run.state \in Ran /\ run \in Record
      /\ shard[s].results \subseteq Index
  BY <1>0 DEF Progress, Running, Todo, Group, Threads
<1>2. /\ t \in Threads /\ t.pc = (IF run.state = "passed" THEN "next" ELSE "stop")
      /\ t.current = c /\ t.run = run /\ t.results = shard[s].results \cup {c}
      /\ t.outcome = "none"
  BY <1>0, <1>1 DEF Threads, ShardPlaces, Ended
<1>3. shard' = [shard EXCEPT ![s] = t] /\ shard'[s] = t
  BY <1>0 DEF Types
<1>4. /\ dir' \in Directory /\ dir'.result = dir.result /\ dir'.state = dir.state
      /\ dir'.lock = dir.lock /\ dir'.cancel = dir.cancel /\ dir'.record[c] = run
      /\ \A i \in Index \ {c} : dir'.record[i] = dir.record[i]
  BY <1>0, <1>1 DEF Types, Directory, Record
<1>5. partition' = partition /\ inherited' = inherited /\ world' = world /\ clean' = clean
  BY <1>0 DEF still, manifest
<1> HIDE DEF t, run, c
<1>6. PassRanOnFrozenInputs'
  BY <1>0, <1>4, <1>5 DEF IInv, PassRanOnFrozenInputs, Running, run, c
<1>7. Total(dir'.record, t.results) <= Allowance(s)
  <2>1. Total(dir'.record, shard[s].results) = Total(dir.record, shard[s].results)
    <3>1. Sized(dir.record, shard[s].results)
      BY <1>0, <1>1, RecordsSized
    <3>2. \A i \in shard[s].results : dir'.record[i].bytes = dir.record[i].bytes
      BY <1>1, <1>4
    <3> QED
      BY <3>1, <3>2, TotalSame
  <2>2. Total(dir'.record, {c}) = run.bytes /\ Sized(dir'.record, {c})
    BY <1>1, <1>4, TotalSingle DEF Record
  <2>3. Sized(dir'.record, shard[s].results)
    BY <1>0, <1>1, <1>4, RecordsSized DEF Sized
  <2>4. Total(dir'.record, t.results) = Total(dir'.record, shard[s].results) + run.bytes
    BY <1>1, <1>2, <2>2, <2>3, TotalUnion
  <2>5. Total(dir.record, shard[s].results) + run.bytes <= Allowance(s)
    BY <1>0 DEF Running, run
  <2> QED
    BY <2>1, <2>4, <2>5
<1>8. Progress(s)'
  <2>1. \A i \in t.results :
          dir'.record[i].state \in {"passed"} \cup (IF t.pc = "stop" THEN {run.state} ELSE {})
    BY <1>0, <1>1, <1>2, <1>4 DEF Progress
  <2>2. t.results \subseteq Group(s) \cap (Assigned(partition) \cup inherited)
    BY <1>0, <1>1, <1>2 DEF Progress, Mine
  <2>3. inherited \cap Group(s) \subseteq t.results
    BY <1>0, <1>2 DEF Progress, Counts, Ended
  <2> QED
    BY <1>2, <1>3, <1>5, <1>7, <2>1, <2>2, <2>3 DEF Progress, Mine
<1>9. Running(s)'
  BY <1>1, <1>2, <1>3, <1>4 DEF Running
<1>10. Ended(s)'
  BY <1>2, <1>3 DEF Ended
<1>11. /\ \A i \in Index \ Group(s) : dir'.record[i] = dir.record[i]
       /\ \A i \in inherited : dir'.record[i] = dir.record[i]
  BY <1>0, <1>1, <1>4, JobAssumption DEF Types
<1> QED
  BY <1>0, <1>2, <1>3, <1>4, <1>5, <1>6, <1>8, <1>9, <1>10, <1>11, ShardStep DEF Types

\* The end of a shard: after its last command, at a failure, or at an exception.
LEMMA EndInv ==
  ASSUME IInv, NEW s \in Shard, Stop(s) \/ Leave(s) \/ Rejects(s) \/ Raises(s)
  PROVE  IInv'
<1>0. /\ worker = "shards" /\ Types /\ Progress(s) /\ Running(s) /\ Ended(s)
  BY ThreadFacts DEF Stop, Leave, Rejects, Raises, At
<1>1. CASE Stop(s)
  <2>1. shard[s].pc = "stop" /\ Ends(s, shard[s].run.state, TRUE)
    BY <1>1 DEF Stop, At
  <2>2. /\ shard[s].run.state \in Ran \ {"passed"}
        /\ \A i \in shard[s].results : dir.record[i].state \in {"passed", shard[s].run.state}
        /\ \E i \in shard[s].results : dir.record[i].state = shard[s].run.state
    BY <1>0, <2>1 DEF Progress, Running
  <2> QED
    BY <1>0, <2>1, <2>2, EndsInv DEF Ran
<1>2. CASE Leave(s)
  <2>1. /\ shard[s].pc = "next" /\ Todo(s) = {}
        /\ Ends(s, IF dir.cancel THEN "cancelled" ELSE "passed", FALSE)
    BY <1>2 DEF Leave, At
  <2>2. \A i \in shard[s].results : dir.record[i].state = "passed"
    BY <1>0, <2>1 DEF Progress
  <2>3. shard[s].results = Mine(s)
    BY <1>0, <2>1 DEF Progress, Ended, Counts, Mine, Todo
  <2>4. CASE dir.cancel
    BY <1>0, <2>1, <2>2, <2>4, EndsInv DEF Ran
  <2>5. CASE ~dir.cancel
    BY <1>0, <2>1, <2>2, <2>3, <2>5, EndsInv DEF Ran
  <2> QED
    BY <2>4, <2>5
<1>3. CASE Rejects(s) \/ Raises(s)
  <2>1. /\ shard[s].pc \in {"next", "seal", "exec", "reseal", "publish"}
        /\ Ends(s, "raised", TRUE)
    BY <1>3 DEF Rejects, Raises, At
  <2>2. \A i \in shard[s].results : dir.record[i].state = "passed"
    BY <1>0, <2>1 DEF Progress
  <2> QED
    BY <1>0, <2>1, <2>2, EndsInv
<1> QED
  BY <1>1, <1>2, <1>3

LEMMA ShardInv ==
  ASSUME IInv, NEW s \in Shard, Runs(s) \/ Exits(s) \/ Flooded(s) \/ Raises(s)
  PROVE  IInv'
<1>1. CASE Check(s) \/ SealBefore(s) \/ SealAfter(s)
  <2>1. CASE Check(s)
    BY <2>1, CheckInv
  <2>2. CASE SealBefore(s)
    BY <2>2, GoesInv DEF SealBefore, At
  <2>3. CASE SealAfter(s)
    BY <2>3, GoesInv DEF SealAfter, At
  <2> QED
    BY <1>1, <2>1, <2>2, <2>3
<1>2. CASE Enter(s) \/ Begin(s) \/ Publish(s)
  BY <1>2, EnterInv, BeginInv, PublishInv
<1>3. CASE Stopped(s) \/ Exits(s) \/ Flooded(s)
  BY <1>3, RunInv
<1>4. CASE Stop(s) \/ Leave(s) \/ Rejects(s) \/ Raises(s)
  BY <1>4, EndInv
<1> QED
  BY <1>1, <1>2, <1>3, <1>4 DEF Runs

-----------------------------------------------------------------------------
(* The theorems.                                                           *)

\* Every step keeps the inductive invariant.
LEMMA StepInv == IInv /\ [Next]_vars => IInv'
<1> SUFFICES ASSUME IInv, [Next]_vars PROVE IInv'
  OBVIOUS
<1>1. CASE Start \/ StartRaises
  BY <1>1, StarterInv
<1>2. CASE Main \/ WorkerRaises
  BY <1>2, PrepareInv, JoinInv, SettleInv DEF Main
<1>3. ASSUME NEW s \in Shard, Runs(s) \/ Exits(s) \/ Flooded(s) \/ Raises(s) PROVE IInv'
  BY <1>3, ShardInv
<1>4. CASE RequestCancel \/ Expire \/ \E x \in Changeable : Change(x)
  BY <1>4, OutsideInv
<1>5. CASE Dies \/ RunAgain
  BY <1>5, CrashInv
<1>6. CASE UNCHANGED vars
  <2>1. /\ partition' = partition /\ inherited' = inherited /\ starter' = starter
        /\ worker' = worker /\ verdict' = verdict /\ shard' = shard /\ dir' = dir
        /\ world' = world /\ clean' = clean
    BY <1>6 DEF vars
  <2>2. Types' /\ Started' /\ Once' /\ PassRanOnFrozenInputs'
    BY <2>1 DEF IInv, Types, Started, Once, PassRanOnFrozenInputs
  <2>3. \A s \in Shard : Sealed(Root(s))' => Sealed(Root(s))
    BY <2>1 DEF Sealed, Valid
  <2> QED
    BY <2>1, <2>2, <2>3, Beside DEF manifest
<1> QED
  BY <1>1, <1>2, <1>3, <1>4, <1>5, <1>6 DEF Next, Finished

\* The inductive invariant holds in every state of the job, its threads, its
\* crashes and its operator.
THEOREM Invariance == Spec => []IInv
BY InitInv, StepInv, PTL DEF Spec

\* The variables keep their types, and every thread is in one of its places.
THEOREM TypeCorrect == Spec => []TypeOK
<1>1. IInv => TypeOK
  BY DEF IInv, Types, TypeOK, Starters, Places, Preparing, Deciding, Threads, ShardPlaces
<1> QED
  BY <1>1, Invariance, PTL

\* A record that says passed was left by a command that exited with 0 while its
\* inputs were those of the manifest, whatever was changed, killed or cancelled.
THEOREM FrozenInputs == Spec => []PassRanOnFrozenInputs
BY Invariance, PTL DEF IInv

-----------------------------------------------------------------------------
(* The evidence, and the promise of DetachedJobSpec.                       *)

\* Evidence, with the directory as a parameter.
Said(d) == d.state \in Terminals /\ d.result.state = d.state
EvidenceOf(d) ==
  LET usable == Said(d) /\ ~d.result.raised
  IN [state |-> IF Said(d) THEN d.state ELSE "none",
      raised |-> Said(d) /\ d.result.raised,
      passes |-> IF usable THEN Of(d.result, d, "passed") ELSE {},
      failures |-> IF usable THEN Of(d.result, d, "failed") ELSE {}]

LEMMA EvidenceIs == Evidence = EvidenceOf(dir) /\ Evidence' = EvidenceOf(dir')
BY DEF Evidence, EvidenceOf, Said, Of

\* What is told of the result is the truth of the evidence.
LEMMA EvidenceTruth ==
  ASSUME NEW d \in Directory, NEW p, NEW inh, Said(d), Told(d.result, d, p, inh)
  PROVE  /\ Truthful(EvidenceOf(d), p, inh) /\ EvidenceOf(d) \in Evidences
         /\ EvidenceOf(d).state = d.result.state /\ EvidenceOf(d).raised = d.result.raised
         /\ ~d.result.raised =>
              /\ EvidenceOf(d).passes = Of(d.result, d, "passed")
              /\ EvidenceOf(d).failures = Of(d.result, d, "failed")
              /\ Faithful(d.result, d, p, inh)
<1> DEFINE e == EvidenceOf(d)
<1>1. d.result \in Verdicts /\ d.state = d.result.state /\ d.state \in Terminals
  BY DEF Directory, Verdicts, Said
<1>2. /\ e.state = d.result.state /\ e.raised = d.result.raised
      /\ e \in Evidences
  BY <1>1 DEF EvidenceOf, Evidences, Of, Verdicts
<1>3. CASE d.result.raised
  <2>1. e = [state |-> "failed", raised |-> TRUE, passes |-> {}, failures |-> {}]
    BY <1>1, <1>3 DEF EvidenceOf, Told, Verdicts
  <2>2. Truthful(e, p, inh)
    BY <2>1 DEF Truthful
  <2> QED
    BY <1>2, <1>3, <2>2
<1>4. CASE ~d.result.raised
  <2>1. /\ Faithful(d.result, d, p, inh)
        /\ e.passes = Of(d.result, d, "passed") /\ e.failures = Of(d.result, d, "failed")
    BY <1>1, <1>4 DEF EvidenceOf, Told
  <2>2. /\ e.passes \subseteq d.result.results /\ e.failures \subseteq d.result.results
        /\ e.passes \cap e.failures = {}
    BY <2>1 DEF Of
  <2> HIDE DEF e
  <2>3. e.failures \subseteq Assigned(p) \ e.passes
    BY <2>1, <2>2 DEF Faithful
  <2>4. e.passes \subseteq inh \cup Assigned(p) /\ inh \subseteq e.passes
    BY <2>1, <2>2 DEF Faithful
  <2>5. Truthful(e, p, inh)
    BY <1>1, <1>2, <1>4, <2>1, <2>3, <2>4 DEF Truthful, Faithful, Concrete, Terminals
  <2> QED
    BY <1>2, <2>1, <2>5 DEF e
<1> QED
  BY <1>3, <1>4

\* What the directory says is told.
LEMMA ResultIsTold ==
  ASSUME IInv, Said(dir)
  PROVE  dir \in Directory /\ Told(dir.result, dir, partition, inherited)
BY DEF IInv, Types, Verdict, Said, Terminals

\* A concrete failure of one shard is the state of the job, never hidden behind
\* the cancellation of the others that it caused.
THEOREM FailureShows == Spec => []FailureIsNotHidden
<1>1. IInv => FailureIsNotHidden
  <2> SUFFICES ASSUME IInv, Evidence.failures # {} PROVE Evidence.state \in Concrete
    BY DEF FailureIsNotHidden
  <2>1. Said(dir) /\ ~dir.result.raised
    BY EvidenceIs DEF EvidenceOf
  <2> QED
    BY <2>1, EvidenceIs, EvidenceTruth, ResultIsTold DEF Faithful
<1> QED
  BY <1>1, Invariance, PTL

\* A passed run that nothing changed or cancelled afterwards is collected: what
\* its shards were allowed to print adds up to no more than the budget.
THEOREM PassedCollects == Spec => []PassedRunCollects
<1>1. IInv => PassedRunCollects
  <2> SUFFICES ASSUME IInv, Evidence.state = "passed", ~dir.cancel, world.drift = {}
               PROVE  Collectable
    BY DEF PassedRunCollects
  <2>1. Said(dir)
    BY EvidenceIs DEF EvidenceOf
  <2>2. dir.result.state = "passed"
    BY <2>1, EvidenceIs, EvidenceTruth, ResultIsTold
  <2>3. ~dir.result.raised
    BY <2>1, <2>2, ResultIsTold DEF Told
  <2>4. ~Evidence.raised /\ Evidence.passes = Index /\ Total(dir.record, Index) <= LogBytes
    BY <2>1, <2>2, <2>3, EvidenceIs, EvidenceTruth, ResultIsTold DEF Faithful
  <2> QED
    BY <2>4, Bytes DEF Collectable
<1> QED
  BY <1>1, Invariance, PTL

\* The evidence does not change while state.json, or what it names, does not.
LEMMA SameEvidence ==
  ASSUME NEW d, NEW e,
         \/ d.state \notin Terminals /\ e.state \notin Terminals
         \/ e.state = d.state /\ e.result = d.result /\ e.record = d.record
  PROVE  EvidenceOf(e) = EvidenceOf(d)
BY DEF EvidenceOf, Said, Of

\* Only the publication of state.json, by the worker at its end or by a start
\* that fails, changes the evidence; no one takes a cancellation back.
LEMMA OthersAreQuiet ==
  ASSUME IInv, Next, ~PublishTerminal, ~PublishFailure
  PROVE  /\ EvidenceOf(dir') = EvidenceOf(dir) /\ (dir.cancel => dir'.cancel)
         /\ partition' = partition /\ inherited' = inherited
<1>0. Types /\ Started /\ Once
  BY DEF IInv
<1>1. CASE Start \/ StartRaises
  <2>1. /\ partition' = partition /\ inherited' = inherited /\ (dir.cancel => dir'.cancel)
        /\ dir'.result = dir.result /\ dir'.record = dir.record
        /\ dir'.state = dir.state
           \/ (dir'.state = "pending" /\ starter = "allocated")
    BY <1>0, <1>1
    DEF Types, Directory, Start, StartRaises, PublishPending, Launch, PublishLaunch, OpenFailure,
        started, manifest
  <2>2. (starter = "allocated") => (dir.state \notin Terminals)
    BY <1>0 DEF Started, Once
  <2> QED
    BY <2>1, <2>2, SameEvidence DEF Terminals
<1>2. CASE Main \/ WorkerRaises
  <2>1. /\ partition' = partition /\ inherited' = inherited /\ dir'.cancel = dir.cancel
        /\ \/ dir'.state = dir.state /\ dir'.result = dir.result /\ dir'.record = dir.record
           \/ /\ worker \in {"running", "install", "result"}
              /\ dir'.state \in {dir.state, "running"}
    BY <1>0, <1>2
    DEF Types, Directory, Main, TakeLock, CheckInputs, OpenRunning, PublishRunning, Install, Join,
        Close, PublishResult, OpenTerminal, WorkerRaises, others, manifest
  <2>2. (worker \in {"running", "install", "result"}) => (dir.state \notin Terminals)
    BY <1>0 DEF Once
  <2> QED
    BY <2>1, <2>2, SameEvidence DEF Terminals
<1>3. ASSUME NEW s \in Shard, Runs(s) \/ Exits(s) \/ Flooded(s) \/ Raises(s)
      PROVE  /\ EvidenceOf(dir') = EvidenceOf(dir) /\ (dir.cancel => dir'.cancel)
             /\ partition' = partition /\ inherited' = inherited
  <2>1. /\ UNCHANGED still /\ worker = "shards"
        /\ dir'.state = dir.state /\ (dir.cancel => dir'.cancel)
    <3>1. CASE Publish(s)
      BY <1>0, <3>1 DEF Types, Directory, Publish, At
    <3>2. CASE worker = "shards" /\ \E outcome : \E cancels \in BOOLEAN : Ends(s, outcome, cancels)
      BY <1>0, <3>2 DEF Types, Directory, Ends
    <3>3. CASE UNCHANGED <<still, dir>> /\ worker = "shards"
      BY <3>3
    <3> QED
      BY <1>3, <3>1, <3>2, <3>3
      DEF Runs, Enter, Begin, Check, SealBefore, Stopped, SealAfter, Stop, Leave, Rejects, Raises,
          Exits, Flooded, Executed, Goes, At
  <2>2. dir.state \notin Terminals
    BY <1>0, <2>1 DEF Once
  <2> QED
    BY <2>1, <2>2, SameEvidence DEF still, manifest
<1>4. CASE RequestCancel \/ Expire \/ \E x \in Changeable : Change(x)
  <2>1. /\ dir'.state = dir.state /\ dir'.result = dir.result /\ dir'.record = dir.record
        /\ (dir.cancel => dir'.cancel) /\ partition' = partition /\ inherited' = inherited
    BY <1>0, <1>4 DEF Types, Directory, RequestCancel, Expire, Change, started, manifest
  <2> QED
    BY <2>1, SameEvidence
<1>5. CASE Dies \/ RunAgain \/ Finished
  BY <1>5 DEF Dies, RunAgain, Finished, others, manifest, vars
<1> QED
  BY <1>1, <1>2, <1>3, <1>4, <1>5 DEF Next

\* The promise speaks of the same commands and the same evidence.
LEMMA SameTerms ==
  /\ Promise!Index = Index /\ Promise!Parts = Parts /\ Promise!NoEvidence = NoEvidence
  /\ Promise!Evidences = Evidences
  /\ \A e, p, inh : Promise!Truthful(e, p, inh) <=> Truthful(e, p, inh)
<1>1. Promise!Index = Index /\ Promise!Parts = Parts /\ Promise!NoEvidence = NoEvidence
  BY DEF Promise!Index, Index, Promise!Parts, Parts, Promise!NoEvidence, NoEvidence
<1>2. Promise!Terminals = Terminals
  BY DEF Promise!Terminals, Terminals
<1>3. Promise!Evidences = Evidences
  BY <1>1, <1>2 DEF Promise!Evidences, Evidences
<1>4. \A p : Promise!Assigned(p) = Assigned(p)
  BY <1>1 DEF Promise!Assigned, Assigned
<1>5. \A e, p, inh : Promise!Truthful(e, p, inh) <=> Truthful(e, p, inh)
  BY <1>1, <1>4 DEF Promise!Truthful, Truthful
<1> QED
  BY <1>1, <1>3, <1>5

\* A job, with its threads, its crashes and its operator, publishes at most one
\* truthful result; a start that raises may hide it.
THEOREM Refinement == Spec => PublishesTruthfully
<1>1. Init => Promise!Init
  <2> SUFFICES ASSUME Init PROVE Promise!Init
    OBVIOUS
  <2>1. dir.state \notin Terminals /\ dir.cancel = FALSE
    BY DEF Init, Terminals
  <2>2. Evidence = NoEvidence
    BY <2>1, EvidenceIs DEF EvidenceOf, Said, NoEvidence
  <2> QED
    BY <2>1, <2>2, SameTerms, JobAssumption DEF Init, Promise!Init
<1>2. IInv /\ IInv' /\ [Next]_vars => [Promise!Next]_(Promise!vars)
  <2> SUFFICES ASSUME IInv, IInv', [Next]_vars PROVE [Promise!Next]_(Promise!vars)
    OBVIOUS
  <2>0. /\ Types /\ Started /\ Once /\ Verdict
        /\ dir.cancel \in BOOLEAN /\ dir'.cancel \in BOOLEAN
    BY DEF IInv, Types, Directory
  <2>1. CASE PublishTerminal
    <3>1. /\ worker = "settling" /\ dir'.state = verdict.state /\ dir'.result = dir.result
          /\ dir'.record = dir.record /\ dir'.cancel = dir.cancel
          /\ partition' = partition /\ inherited' = inherited
      BY <2>0, <2>1 DEF PublishTerminal, Types, Directory, others, manifest
    <3>2. dir.result = verdict /\ Told(verdict, dir, partition, inherited)
      BY <2>0, <3>1 DEF Verdict, Deciding
    <3>3. Evidence = NoEvidence
      BY <2>0, <3>1, EvidenceIs DEF Once, EvidenceOf, Said, NoEvidence
    <3>4. Said(dir')
      BY <2>0, <3>1, <3>2 DEF Said, Told, Types, Verdicts
    <3>5. /\ Truthful(Evidence', partition', inherited') /\ Evidence' \in Evidences
          /\ Evidence'.raised = dir'.result.raised /\ Evidence'.state = dir'.result.state
      <4>1. dir' \in Directory /\ Told(dir'.result, dir', partition', inherited')
        BY <3>1, <3>2, ToldFrame DEF IInv, Types
      <4> QED
        BY <3>4, <4>1, EvidenceTruth, EvidenceIs
    <3>6. ~dir'.result.raised /\ dir'.result.state \notin {"passed", "partial"} => dir.cancel
      BY <3>1, <3>2 DEF Told, Faithful
    <3> QED
      BY <3>1, <3>3, <3>5, <3>6, SameTerms DEF Promise!Next, Promise!Publish
  <2>2. CASE PublishFailure
    <3>1. /\ starter = "recording" /\ dir'.state = "prepare" /\ dir'.cancel = dir.cancel
          /\ partition' = partition /\ inherited' = inherited
      BY <2>0, <2>2 DEF PublishFailure, Types, Directory, started, manifest
    <3>2. Evidence' = NoEvidence
      BY <3>1, EvidenceIs DEF EvidenceOf, Said, NoEvidence, Terminals
    <3>3. CASE Evidence = NoEvidence
      BY <3>1, <3>2, <3>3 DEF Promise!vars
    <3>4. CASE Evidence # NoEvidence
      <4>1. dir.state \in Terminals
        BY <3>4, EvidenceIs DEF EvidenceOf, Said, NoEvidence
      <4>2. dir.cancel
        BY <2>0, <3>1, <4>1 DEF Started, Once
      <4> QED
        BY <3>1, <3>2, <3>4, <4>2, SameTerms DEF Promise!Next, Promise!Withdraw
    <3> QED
      BY <3>3, <3>4
  <2>3. CASE Next /\ ~PublishTerminal /\ ~PublishFailure
    <3>1. /\ Evidence' = Evidence /\ (dir.cancel => dir'.cancel)
          /\ partition' = partition /\ inherited' = inherited
      BY <2>3, OthersAreQuiet, EvidenceIs
    <3>2. CASE dir'.cancel = dir.cancel
      BY <3>1, <3>2 DEF Promise!vars
    <3>3. CASE dir'.cancel = TRUE
      BY <3>1, <3>3 DEF Promise!Next, Promise!Cancel
    <3> QED
      BY <2>0, <3>1, <3>2, <3>3
  <2>4. CASE UNCHANGED vars
    BY <2>4, EvidenceIs DEF vars, Promise!vars
  <2> QED
    BY <2>1, <2>2, <2>3, <2>4
<1> QED
  BY <1>1, <1>2, Invariance, PTL DEF Spec, PublishesTruthfully, Promise!Spec

\* What DetachedCampaign relies on, whatever the job went through: evidence that
\* can be seen is true of the job's partition and of what it inherited.
THEOREM EvidenceIsTruthful ==
  Spec => [](Evidence # NoEvidence => Truthful(Evidence, partition, inherited))
<1>1. IInv => (Evidence # NoEvidence => Truthful(Evidence, partition, inherited))
  <2>1. Evidence # NoEvidence => Said(dir)
    BY EvidenceIs DEF EvidenceOf, NoEvidence
  <2> QED
    BY <2>1, EvidenceIs, EvidenceTruth, ResultIsTold
<1> QED
  BY <1>1, Invariance, PTL

\* Once result.json exists, no crash, restart, second worker or late thread
\* changes it or any record it speaks of: readers at different times may see no
\* evidence, but never two that differ.
ResultIsFinal ==
  [][dir.result.state # "none" => (dir'.result = dir.result /\ dir'.record = dir.record)]_vars

THEOREM ResultStays == Spec => ResultIsFinal
<1> DEFINE Stays ==
      dir.result.state # "none" => (dir'.result = dir.result /\ dir'.record = dir.record)
<1>1. IInv /\ [Next]_vars => [Stays]_vars
  <2> SUFFICES ASSUME IInv, Next, dir.result.state # "none"
               PROVE  dir'.result = dir.result /\ dir'.record = dir.record
    BY DEF vars
  <2>1. Types /\ worker \notin Preparing \cup {"shards", "closing", "result"}
    BY DEF IInv, Once
  <2>2. ~CheckInputs /\ ~OpenRunning /\ ~PublishRunning /\ ~Install /\ ~Join /\ ~Close
        /\ ~PublishResult /\ ~WorkerRaises
    BY <2>1
    DEF CheckInputs, OpenRunning, PublishRunning, Install, Join, Close, PublishResult,
        WorkerRaises, Preparing
  <2>3. ASSUME NEW s \in Shard PROVE ~(Runs(s) \/ Exits(s) \/ Flooded(s) \/ Raises(s))
    BY <2>1
    DEF Runs, Enter, Begin, Check, SealBefore, Stopped, SealAfter, Publish, Stop, Leave, Rejects,
        Raises, Exits, Flooded, Executed, At
  <2>4. CASE Start \/ StartRaises
    <3>1. DOMAIN dir = {"cancel", "lock", "state", "tmp", "result", "record"}
      BY <2>1 DEF Types, Directory
    <3>2. CASE Launch \/ PublishLaunch
      BY <3>2 DEF Launch, PublishLaunch, started
    <3>3. CASE PublishPending \/ PublishFailure
      BY <2>1, <3>1, <3>3 DEF Types, Directory, PublishPending, PublishFailure
    <3>4. CASE OpenFailure
      BY <2>1, <3>1, <3>4 DEF Types, Directory, OpenFailure
    <3>5. CASE StartRaises
      BY <2>1, <3>1, <3>5 DEF Types, Directory, StartRaises
    <3> QED
      BY <2>4, <3>2, <3>3, <3>4, <3>5 DEF Start
  <2>5. CASE TakeLock \/ OpenTerminal \/ PublishTerminal
    BY <2>1, <2>5 DEF Types, Directory, TakeLock, OpenTerminal, PublishTerminal
  <2>6. CASE RequestCancel \/ Expire \/ (\E x \in Changeable : Change(x)) \/ Dies \/ RunAgain
             \/ Finished
    BY <2>1, <2>6
    DEF Types, Directory, RequestCancel, Expire, Change, Dies, RunAgain, Finished, started,
        others, vars
  <2> QED
    BY <2>2, <2>3, <2>4, <2>5, <2>6 DEF Next, Main
<1> QED
  BY <1>1, Invariance, PTL DEF Spec, ResultIsFinal

-----------------------------------------------------------------------------
(* The run of a worker is finite.                                          *)

\* The most steps that the main thread can still take, the threads' aside.
MainAhead ==
  CASE worker = "boot" -> 10
    [] worker = "check" -> 9
    [] worker = "opening" -> 8
    [] worker = "running" -> 7
    [] worker = "install" -> 6
    [] worker = "shards" -> 5
    [] worker = "closing" -> 4
    [] worker = "result" -> 3
    [] worker = "terminal" -> 2
    [] worker = "settling" -> 1
    [] OTHER -> 0

\* The most steps that a shard's thread can still take: to enter, six for each
\* command it still has to run, and two to report and end.
ShardAhead(s) ==
  LET pc == shard[s].pc
      left == 6 * Cardinality(Todo(s))
  IN CASE pc = "queued" -> 6 * Cardinality(Group(s) \cap Assigned(partition)) + 3
       [] pc = "next" -> left + 2
       [] pc = "check" -> left + 1
       [] pc = "seal" -> left
       [] pc = "exec" -> left - 1
       [] pc = "reseal" -> left - 2
       [] pc = "publish" -> left - 3
       [] pc = "stop" -> 1
       [] OTHER -> 0

\* The thread of one shard comes nearer to its end, and no other is disturbed.
ShardNears(s) ==
  /\ worker' = worker /\ ShardAhead(s)' < ShardAhead(s)
  /\ \A r \in Shard \ {s} : shard'[r] = shard[r] /\ ShardAhead(r)' = ShardAhead(r)

\* Whoever moves, a run of the worker stays as it is or comes nearer to its end,
\* by a step of its main thread, of one shard or of whoever kills it; a run
\* begins only where there is none.
RunsAreFinite ==
  [][\/ worker' = worker /\ shard' = shard
     \/ worker' # worker /\ MainAhead' < MainAhead
     \/ \E s \in Shard : ShardNears(s)
     \/ ~Alive /\ worker' = "boot"]_vars

\* The commands a shard still has to run are finitely many.
LEMMA TodoIsFinite ==
  ASSUME NEW s, NEW S, S \subseteq Group(s)
  PROVE  IsFiniteSet(S) /\ Cardinality(S) \in Nat
BY IndexFinite, FS_Subset, FS_CardinalityType DEF Group

\* A shard that has a command has one to count.
LEMMA ShardIsAhead ==
  ASSUME IInv, NEW s \in Shard, worker = "shards"
  PROVE  /\ ShardAhead(s) \in Nat /\ Cardinality(Todo(s)) \in Nat
         /\ (shard[s].pc \in {"check", "seal", "exec", "reseal", "publish"}) =>
              (Cardinality(Todo(s)) >= 1)
<1>1. shard[s] \in Threads /\ Progress(s)
  BY ThreadFacts
<1>2. Todo(s) \subseteq Group(s) /\ Group(s) \cap Assigned(partition) \subseteq Group(s)
  BY DEF Todo
<1>3. /\ Cardinality(Group(s) \cap Assigned(partition)) \in Nat
      /\ IsFiniteSet(Todo(s)) /\ Cardinality(Todo(s)) \in Nat
  BY <1>2, TodoIsFinite
<1>4. ASSUME shard[s].pc \in {"check", "seal", "exec", "reseal", "publish"}
      PROVE  Cardinality(Todo(s)) >= 1
  <2>1. Todo(s) # {}
    BY <1>1, <1>4 DEF Progress
  <2>2. Cardinality(Todo(s)) # 0
    BY <1>3, <2>1, FS_EmptySet
  <2> QED
    BY <1>3, <2>2
<1>5. ShardAhead(s) \in Nat
  BY <1>3, <1>4 DEF ShardAhead
<1> QED
  BY <1>3, <1>4, <1>5

\* What counts for a shard is its own thread.
LEMMA Undisturbed ==
  ASSUME NEW s \in Shard, UNCHANGED manifest, NEW r \in Shard, shard'[r] = shard[r]
  PROVE  ShardAhead(r)' = ShardAhead(r)
BY DEF ShardAhead, Todo, manifest

\* A step of one thread that brings it nearer its end does no more.
LEMMA ShardAlone ==
  ASSUME IInv, NEW s \in Shard, UNCHANGED still, NEW t \in Threads,
         shard' = [shard EXCEPT ![s] = t], ShardAhead(s)' < ShardAhead(s)
  PROVE  ShardNears(s)
<1>1. UNCHANGED manifest /\ worker' = worker /\ \A r \in Shard \ {s} : shard'[r] = shard[r]
  BY DEF IInv, Types, still
<1>2. \A r \in Shard \ {s} : ShardAhead(r)' = ShardAhead(r)
  BY <1>1, Undisturbed
<1> QED
  BY <1>1, <1>2 DEF ShardNears

\* A thread ends.
LEMMA EndsNearer ==
  ASSUME IInv, NEW s \in Shard, worker = "shards", shard[s].pc # "done",
         NEW outcome \in Ran \cup {"raised"}, NEW cancels, Ends(s, outcome, cancels)
  PROVE  ShardNears(s)
<1> DEFINE t == [shard[s] EXCEPT !.pc = "done", !.outcome = outcome]
<1>1. shard \in [Shard -> Threads] /\ shard[s] \in Threads
  BY ThreadFacts DEF Types
<1>2. t \in Threads /\ t.pc = "done"
  BY <1>1 DEF Threads, ShardPlaces
<1>3. shard' = [shard EXCEPT ![s] = t] /\ shard'[s] = t /\ UNCHANGED still
  BY <1>1 DEF Ends
<1> HIDE DEF t
<1>4. ShardAhead(s)' = 0
  BY <1>2, <1>3 DEF ShardAhead
<1>5. ShardAhead(s) > 0
  <2>1. shard[s].pc \in ShardPlaces \ {"done"}
    BY <1>1 DEF Threads
  <2>2. /\ Cardinality(Todo(s)) \in Nat
        /\ (shard[s].pc \in {"check", "seal", "exec", "reseal", "publish"}) =>
             (Cardinality(Todo(s)) >= 1)
        /\ Cardinality(Group(s) \cap Assigned(partition)) \in Nat
    BY ShardIsAhead, TodoIsFinite
  <2> QED
    BY <2>1, <2>2 DEF ShardAhead, ShardPlaces
<1> QED
  BY <1>2, <1>3, <1>4, <1>5, ShardAlone

\* The places a thread passes through with one command, in their order.
After(pc) ==
  CASE pc = "next" -> "check"
    [] pc = "check" -> "seal"
    [] pc = "seal" -> "exec"
    [] pc = "exec" -> "reseal"
    [] pc = "reseal" -> "publish"

LEMMA GoesNearer ==
  ASSUME IInv, NEW s \in Shard, worker = "shards", UNCHANGED still,
         shard[s].pc \in {"next", "check", "seal", "exec", "reseal"},
         NEW t \in Threads, shard' = [shard EXCEPT ![s] = t],
         t.pc = After(shard[s].pc), t.results = shard[s].results
  PROVE  ShardNears(s)
<1>1. shard'[s] = t /\ partition' = partition /\ inherited' = inherited
  BY DEF IInv, Types, still, manifest
<1>2. Todo(s)' = Todo(s)
  BY <1>1 DEF Todo
<1>3. Cardinality(Todo(s)) \in Nat
  BY ShardIsAhead
<1>4. ShardAhead(s)' < ShardAhead(s)
  BY <1>1, <1>2, <1>3 DEF ShardAhead, After
<1> QED
  BY <1>4, ShardAlone

\* A shard enters with what it inherits counted, or ends.
LEMMA EnterNearer == ASSUME IInv, NEW s \in Shard, Enter(s) PROVE ShardNears(s)
<1> DEFINE t == [shard[s] EXCEPT !.pc = "next", !.results = Imported(s)]
<1>0. /\ shard \in [Shard -> Threads] /\ shard[s] \in Threads /\ Group(s) \subseteq Index
      /\ worker = "shards" /\ shard[s].pc = "queued"
  BY ThreadFacts DEF Enter, At, Types
<1>1. CASE Ends(s, "raised", TRUE)
  BY <1>0, <1>1, EndsNearer
<1>2. ASSUME ~Ends(s, "raised", TRUE) PROVE ShardNears(s)
  <2>1. /\ shard' = [shard EXCEPT ![s].pc = "next", ![s].results = Imported(s)]
        /\ UNCHANGED still
    BY <1>2 DEF Enter
  <2>2. t \in Threads /\ t.pc = "next"
    BY <1>0 DEF Threads, ShardPlaces, Imported
  <2>3. shard' = [shard EXCEPT ![s] = t] /\ shard'[s] = t /\ partition' = partition
    BY <1>0, <2>1 DEF still, manifest
  <2> HIDE DEF t
  <2> DEFINE G == Group(s) \cap Assigned(partition)
  <2>4. IsFiniteSet(G) /\ Cardinality(G) \in Nat /\ Todo(s)' \subseteq G
    BY <2>3, TodoIsFinite DEF Todo, Group
  <2>5. Cardinality(Todo(s)') <= Cardinality(G) /\ Cardinality(Todo(s)') \in Nat
    BY <2>4, FS_Subset, FS_CardinalityType
  <2>6. ShardAhead(s) = 6 * Cardinality(G) + 3
    BY <1>0 DEF ShardAhead
  <2>7. ShardAhead(s)' = 6 * Cardinality(Todo(s)') + 2
    BY <2>2, <2>3 DEF ShardAhead
  <2>8. ShardAhead(s)' < ShardAhead(s)
    BY <2>4, <2>5, <2>6, <2>7
  <2> QED
    BY <2>1, <2>2, <2>3, <2>8, ShardAlone
<1> QED
  BY <1>1, <1>2

\* A published command is done with.
LEMMA PublishNearer == ASSUME IInv, NEW s \in Shard, Publish(s) PROVE ShardNears(s)
<1> DEFINE t == [shard[s] EXCEPT !.pc = IF shard[s].run.state = "passed" THEN "next" ELSE "stop",
                                 !.results = @ \cup {shard[s].current}]
<1>0. /\ shard \in [Shard -> Threads] /\ shard[s] \in Threads /\ worker = "shards"
      /\ shard[s].pc = "publish" /\ shard[s].current \in Todo(s) /\ Todo(s) \subseteq Index
  BY ThreadFacts DEF Publish, At, Progress, Types, Todo, Group
<1>1. /\ t \in Threads /\ t.pc \in {"next", "stop"}
      /\ t.results = shard[s].results \cup {shard[s].current}
  BY <1>0 DEF Threads, ShardPlaces
<1>2. /\ shard' = [shard EXCEPT ![s] = t] /\ shard'[s] = t /\ UNCHANGED still
      /\ partition' = partition /\ inherited' = inherited
  BY <1>0 DEF Publish, still, manifest
<1> HIDE DEF t
<1>3. Todo(s)' = Todo(s) \ {shard[s].current}
  BY <1>1, <1>2 DEF Todo
<1>4. IsFiniteSet(Todo(s)) /\ Cardinality(Todo(s)) \in Nat /\ Cardinality(Todo(s)) >= 1
  BY <1>0, ShardIsAhead, TodoIsFinite DEF Todo
<1>5. Cardinality(Todo(s)') = Cardinality(Todo(s)) - 1
  BY <1>0, <1>3, <1>4, FS_RemoveElement
<1>6. ShardAhead(s) = 6 * Cardinality(Todo(s)) - 3
  BY <1>0 DEF ShardAhead
<1>7. ShardAhead(s)' \in {6 * Cardinality(Todo(s)') + 2, 1}
  BY <1>1, <1>2 DEF ShardAhead
<1>8. ShardAhead(s)' < ShardAhead(s)
  BY <1>4, <1>5, <1>6, <1>7
<1> QED
  BY <1>1, <1>2, <1>8, ShardAlone

\* Whatever a thread does brings it nearer to its end.
LEMMA ShardsNearer ==
  ASSUME IInv, NEW s \in Shard, Runs(s) \/ Exits(s) \/ Flooded(s) \/ Raises(s)
  PROVE  ShardNears(s)
<1>0. /\ worker = "shards" /\ shard \in [Shard -> Threads] /\ shard[s] \in Threads
  <2>1. worker = "shards"
    BY DEF Runs, Enter, Begin, Check, SealBefore, Stopped, SealAfter, Publish, Stop, Leave,
           Rejects, Raises, Exits, Flooded, Executed, At
  <2> QED
    BY <2>1, ThreadFacts DEF Types
<1>1. CASE Enter(s)
  BY <1>1, EnterNearer
<1>2. CASE Publish(s)
  BY <1>2, PublishNearer
<1>3. CASE Begin(s)
  <2> DEFINE t == [shard[s] EXCEPT !.pc = "check", !.current = Min(Todo(s))]
  <2>1. Todo(s) # {} /\ shard[s].pc = "next" /\ UNCHANGED still
    BY <1>3 DEF Begin, At
  <2>2. Min(Todo(s)) \in Nat
    <3>1. Types
      BY DEF IInv
    <3> QED
      BY <2>1, <3>1, LeastTodo, IndexFinite DEF Todo, Group
  <2>3. t \in Threads /\ t.pc = After("next") /\ t.results = shard[s].results
    BY <1>0, <2>2 DEF Threads, ShardPlaces, After
  <2>4. shard' = [shard EXCEPT ![s] = t]
    BY <1>0, <1>3 DEF Begin
  <2> HIDE DEF t
  <2> QED
    BY <1>0, <2>1, <2>3, <2>4, GoesNearer
<1>4. ASSUME NEW pc, At(s, shard[s].pc), Goes(s, pc), pc = After(shard[s].pc),
             shard[s].pc \in {"check", "seal", "reseal"}
      PROVE  ShardNears(s)
  <2> DEFINE t == [shard[s] EXCEPT !.pc = pc]
  <2>1. pc \in ShardPlaces
    BY <1>4 DEF After, ShardPlaces
  <2>2. t \in Threads /\ t.pc = pc /\ t.results = shard[s].results
    BY <1>0, <2>1 DEF Threads
  <2>3. shard' = [shard EXCEPT ![s] = t] /\ UNCHANGED still
    BY <1>0, <1>4 DEF Goes
  <2> HIDE DEF t
  <2> QED
    BY <1>0, <1>4, <2>2, <2>3, GoesNearer
<1>5. ASSUME NEW state \in Ran, NEW bytes \in Nat, Executed(s, state, bytes)
      PROVE  ShardNears(s)
  <2> DEFINE t == [shard[s] EXCEPT !.pc = "reseal", !.run = [state |-> state, bytes |-> bytes]]
  <2>1. t \in Threads /\ t.pc = After("exec") /\ t.results = shard[s].results
    BY <1>0 DEF Threads, ShardPlaces, After, Record, Ran, Terminals
  <2>2. shard' = [shard EXCEPT ![s] = t] /\ UNCHANGED still /\ shard[s].pc = "exec"
    BY <1>0, <1>5 DEF Executed, At
  <2> HIDE DEF t
  <2> QED
    BY <1>0, <2>1, <2>2, GoesNearer
<1>6. ASSUME NEW outcome \in Ran \cup {"raised"}, NEW cancels, Ends(s, outcome, cancels),
             shard[s].pc # "done"
      PROVE  ShardNears(s)
  BY <1>0, <1>6, EndsNearer
<1>7. CASE Check(s) \/ SealBefore(s) \/ SealAfter(s)
  <2>1. CASE Check(s) /\ ~Goes(s, "seal")
    BY <1>6, <2>1 DEF Check, At, Ran
  <2>2. CASE (Check(s) /\ Goes(s, "seal")) \/ SealBefore(s) \/ SealAfter(s)
    BY <1>4, <2>2 DEF Check, SealBefore, SealAfter, At, After
  <2> QED
    BY <1>7, <2>1, <2>2
<1>8. CASE Stopped(s) \/ Flooded(s) \/ Exits(s)
  <2>1. LogSizes \subseteq Nat
    BY JobAssumption
  <2> QED
    BY <1>5, <1>8, <2>1 DEF Stopped, Flooded, Exits, Ran
<1>9. CASE Stop(s)
  <2>1. Running(s)
    BY <1>0, ThreadFacts
  <2>2. shard[s].run.state \in Ran /\ shard[s].pc # "done"
    BY <1>9, <2>1 DEF Running, Stop, At
  <2> QED
    BY <1>6, <1>9, <2>2 DEF Stop
<1>10. CASE Leave(s) \/ Rejects(s) \/ Raises(s)
  BY <1>6, <1>10 DEF Leave, Rejects, Raises, At, Ran
<1> QED
  BY <1>1, <1>2, <1>3, <1>7, <1>8, <1>9, <1>10 DEF Runs

\* The main thread moves on.
LEMMA MainNearer ==
  ASSUME IInv, Main \/ WorkerRaises
  PROVE  worker' # worker /\ MainAhead' < MainAhead
<1>1. CASE TakeLock \/ CheckInputs \/ OpenRunning
  BY <1>1 DEF TakeLock, CheckInputs, OpenRunning, Fails, MainAhead
<1>2. CASE PublishRunning \/ Install \/ PublishResult \/ OpenTerminal \/ PublishTerminal
  BY <1>2 DEF PublishRunning, Install, PublishResult, OpenTerminal, PublishTerminal, MainAhead
<1>3. CASE Join
  <2>1. worker = "shards" /\ worker' \in {"closing", "result"}
    BY <1>3 DEF Join, Fails
  <2> QED
    BY <2>1 DEF MainAhead
<1>4. CASE Close \/ WorkerRaises
  BY <1>4 DEF Close, WorkerRaises, Fails, MainAhead
<1> QED
  BY <1>1, <1>2, <1>3, <1>4 DEF Main

\* The run of a worker is finite, for any number of commands, shards and
\* threads: what WorkerSettles needs of the code beside fair threads, a passing
\* deadline and commands that end when they are stopped.
THEOREM Finite ==
  Spec => /\ [](worker = "shards" => \A s \in Shard : ShardAhead(s) \in Nat)
          /\ RunsAreFinite
<1> DEFINE Nears ==
      \/ worker' = worker /\ shard' = shard
      \/ worker' # worker /\ MainAhead' < MainAhead
      \/ \E s \in Shard : ShardNears(s)
      \/ ~Alive /\ worker' = "boot"
<1>1. IInv => (worker = "shards" => \A s \in Shard : ShardAhead(s) \in Nat)
  BY ShardIsAhead
<1>2. IInv /\ [Next]_vars => [Nears]_vars
  <2> SUFFICES ASSUME IInv, Next PROVE Nears
    OBVIOUS
  <2>1. CASE Start \/ StartRaises
    <3>1. starter = "pending" => worker = "none"
      BY DEF IInv, Started
    <3> QED
      BY <2>1, <3>1
      DEF Start, StartRaises, PublishPending, Launch, PublishLaunch, OpenFailure, PublishFailure,
          started, Alive
  <2>2. CASE Main \/ WorkerRaises
    BY <2>2, MainNearer
  <2>3. CASE \E s \in Shard : Runs(s) \/ Exits(s) \/ Flooded(s) \/ Raises(s)
    BY <2>3, ShardsNearer
  <2>4. CASE RequestCancel \/ Expire \/ (\E x \in Changeable : Change(x)) \/ Finished
    <3>1. worker' = worker /\ shard' = shard
      BY <2>4 DEF RequestCancel, Expire, Change, Finished, started, vars
    <3> QED
      BY <3>1
  <2>5. CASE RunAgain
    BY <2>5 DEF RunAgain, Alive
  <2>6. CASE Dies
    <3>1. worker \in Places
      BY DEF IInv, Types
    <3> QED
      BY <2>6, <3>1 DEF Dies, Alive, MainAhead, Places, Preparing, Deciding
  <2> HIDE DEF Nears
  <2> QED
    BY <2>1, <2>2, <2>3, <2>4, <2>5, <2>6 DEF Next
<1> QED
  BY <1>1, <1>2, Invariance, PTL DEF Spec, RunsAreFinite

=============================================================================

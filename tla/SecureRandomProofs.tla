-------------------------- MODULE SecureRandomProofs --------------------------
(***************************************************************************)
(* For any number of processes, any interval and any generations: no       *)
(* output repeats, the use of a seed is bounded, and every engine is torn  *)
(* down once.                                                              *)
(*                                                                         *)
(* That no output repeats is not inductive: it must be known of a process  *)
(* that may generate at its caller's current generation (Serves) that no   *)
(* other such process holds the same seed (Apart) and that it is ahead of  *)
(* every output made from that seed, by whichever process (Ahead).  The    *)
(* bound on a seed's use needs the draws of an engine to be covered by the *)
(* wrapper's count of requests (Counted), which a failed reseed that used  *)
(* its entropy only makes larger.                                          *)
(***************************************************************************)
EXTENDS SecureRandom, FiniteSetTheorems, TLAPS

\* The wrapper of p would let a generate with the current generation through.
Serves(p) ==
  engine[p] # NoEngine /\ ~wrapper[p].fork /\ wrapper[p].runtime = current[p]

\* Seeds in use and seeds of outputs were drawn before.
Drawn ==
  /\ \A p \in Processes : engine[p].seed <= seeds
  /\ \A o \in outputs : o.seed <= seeds

Counted ==
  /\ \A p \in Processes : engine[p].draw <= wrapper[p].requests
  /\ \A o \in outputs : o.draw < ReseedInterval

Apart ==
  \A p, q \in Processes :
    p # q /\ Serves(p) /\ Serves(q) => engine[p].seed # engine[q].seed

Ahead ==
  \A p \in Processes : Serves(p) =>
    \A o \in outputs : o.seed = engine[p].seed => o.draw < engine[p].draw

IInv == TypeOK /\ EngineEndsOnce /\ Drawn /\ Counted /\ Apart /\ Ahead

-------------------------------------------------------------------------------
\* The invariant holds at the start: no process has a wrapper yet.
LEMMA InitInv == Init => IInv
<1> SUFFICES ASSUME Init PROVE IInv
  OBVIOUS
<1> USE RandomAssumption DEF Init
<1>1. TypeOK
  BY DEF TypeOK, Wrappers, NoWrapper, NoEngine, EngineStates, Fates
<1>2. EngineEndsOnce
  BY DEF EngineEndsOnce
<1>3. Drawn /\ Counted
  BY DEF Drawn, Counted, NoEngine, NoWrapper
<1>4. Apart /\ Ahead
  BY DEF Apart, Ahead, Serves
<1> QED
  BY <1>1, <1>2, <1>3, <1>4 DEF IInv

\* latch_permanent, from whichever call: the engine goes, so p serves no more.
LEMMA LatchInv ==
  ASSUME IInv, NEW p \in Processes, Usable(p), Latch(p)  PROVE IInv'
<1> USE RandomAssumption DEF IInv, Latch, TakeEngine, TearDown
<1>1. TypeOK'
  BY DEF TypeOK, Wrappers, NoEngine, EngineStates, Fates
<1>2. EngineEndsOnce'
  BY DEF EngineEndsOnce, TypeOK, Usable, Wrappers
<1>3. Drawn' /\ Counted'
  BY DEF Drawn, Counted, TypeOK, NoEngine, Wrappers
<1>4. \A q \in Processes : Serves(q)' => q # p /\ Serves(q)
  BY DEF Serves, TypeOK, Wrappers
<1>5. \A q \in Processes : q # p => engine'[q] = engine[q]
  BY DEF TypeOK
<1>6. Apart' /\ Ahead'
  BY <1>4, <1>5 DEF Apart, Ahead
<1> QED
  BY <1>1, <1>2, <1>3, <1>6

\* A newer generation is adopted: p is flagged, so it serves no more.
LEMMA AdoptInv ==
  ASSUME IInv, NEW p \in Processes, NEW r \in Presented(p), AdoptRuntime(p, r)  PROVE IInv'
<1> USE RandomAssumption DEF IInv, AdoptRuntime, NewRuntime
<1>1. r = current[p]
  BY DEF Presented, TypeOK, Wrappers
<1>2. TypeOK'
  <2>1. NewRuntime(p, r) \in Wrappers
    BY <1>1 DEF TypeOK, Wrappers
  <2>2. wrapper' \in [Processes -> Wrappers]
    BY <2>1 DEF TypeOK
  <2>3. \A q \in Processes : wrapper'[q].runtime <= current[q]
    BY <1>1 DEF TypeOK, Wrappers
  <2> QED
    BY <2>2, <2>3 DEF TypeOK
<1>3. EngineEndsOnce'
  BY DEF EngineEndsOnce, TypeOK, Wrappers
<1>4. Drawn' /\ Counted'
  BY DEF Drawn, Counted, TypeOK, Wrappers
<1>5. \A q \in Processes : Serves(q)' => Serves(q)
  BY DEF Serves, TypeOK, Wrappers
<1>6. Apart' /\ Ahead'
  BY <1>5 DEF Apart, Ahead
<1> QED
  BY <1>2, <1>3, <1>4, <1>6

\* A call that is let through is made at the wrapper's own generation.
LEMMA LetThrough ==
  ASSUME TypeOK, NEW p \in Processes, SameRuntime(p)
  PROVE  wrapper[p].runtime = current[p] /\ engine[p] # NoEngine
BY DEF TypeOK, SameRuntime, Usable, Presented, Wrappers

\* A generate that is let through serves, and its engine state is unused.
LEMMA Unused ==
  ASSUME IInv, NEW p \in Processes, MayGenerate(p)
  PROVE  Serves(p) /\ engine[p] \in EngineStates /\ engine[p] \notin outputs
<1>1. Serves(p)
  BY LetThrough DEF MayGenerate, Serves, IInv
<1>2. engine[p] \in EngineStates
  BY <1>1 DEF IInv, TypeOK, Serves
<1>3. engine[p] \notin outputs
  BY <1>1, <1>2 DEF IInv, Ahead, EngineStates
<1> QED
  BY <1>1, <1>2, <1>3

\* An output moves its engine past the state the output was made from.
LEMMA GenerateInv ==
  ASSUME IInv, NEW p \in Processes, Generate(p)  PROVE IInv'
<1> USE RandomAssumption DEF IInv, Generate
<1>1. Serves(p) /\ engine[p] \in EngineStates
  BY Unused
<1>2. wrapper[p].requests < ReseedInterval
  BY DEF MayGenerate
<1>3. /\ engine'[p] = [seed |-> engine[p].seed, draw |-> engine[p].draw + 1]
      /\ \A q \in Processes : q # p => engine'[q] = engine[q]
  BY <1>1 DEF TypeOK, EngineStates
<1>4. /\ \A q \in Processes : q # p => wrapper'[q] = wrapper[q]
      /\ wrapper'[p] = [wrapper[p] EXCEPT !.requests = @ + 1]
  BY DEF TypeOK
<1>5. TypeOK'
  <2>1. engine'[p] \in EngineStates
    BY <1>1, <1>3 DEF EngineStates
  <2>2. engine' \in [Processes -> EngineStates \cup {NoEngine}]
    BY <1>3, <2>1 DEF TypeOK
  <2>3. wrapper' \in [Processes -> Wrappers]
    BY <1>2 DEF TypeOK, Wrappers
  <2>4. \A q \in Processes : wrapper'[q].runtime <= current[q]
    BY <1>4 DEF TypeOK, Wrappers
  <2> QED
    BY <1>1, <2>2, <2>3, <2>4 DEF TypeOK
<1>6. EngineEndsOnce'
  <2>1. engine'[p] # NoEngine
    BY <1>1, <1>3 DEF NoEngine, EngineStates
  <2>2. \A q \in Processes : wrapper'[q].state = wrapper[q].state
    BY <1>4 DEF TypeOK, Wrappers
  <2> QED
    BY <1>1, <1>3, <2>1, <2>2 DEF EngineEndsOnce, Serves
<1>7. Drawn'
  <2>1. \A q \in Processes : engine'[q].seed = engine[q].seed
    BY <1>3
  <2>2. \A o \in outputs' : o \in outputs \/ o = engine[p]
    OBVIOUS
  <2> QED
    BY <2>1, <2>2 DEF Drawn
<1>8. Counted'
  BY <1>1, <1>2, <1>3, <1>4 DEF Counted, TypeOK, Wrappers, EngineStates
<1>9. \A q \in Processes : Serves(q)' => Serves(q)
  BY <1>1, <1>3, <1>4 DEF Serves, TypeOK, Wrappers
<1>10. Apart'
  BY <1>3, <1>9 DEF Apart
<1>11. Ahead'
  BY <1>1, <1>3, <1>9 DEF Ahead, Apart, EngineStates, TypeOK
<1> QED
  BY <1>5, <1>6, <1>7, <1>8, <1>10, <1>11

-------------------------------------------------------------------------------
\* New entropy for the engine of p, by a reseed or an instantiation: its seed is
\* above every seed in use, so p may serve from now on.
LEMMA FreshSeed ==
  ASSUME IInv, NEW p \in Processes, NEW w \in Wrappers,
         seeds < MaxSeeds, seeds' = seeds + 1,
         engine' = [engine EXCEPT ![p] = Seeded(seeds + 1)],
         wrapper' = [wrapper EXCEPT ![p] = w],
         w.state = "Open", w.runtime <= current[p],
         fate' \in [Processes -> Fates], fate'[p] = "Live",
         \A q \in Processes : q # p => fate'[q] = fate[q],
         UNCHANGED <<current, outputs>>
  PROVE  IInv'
<1> USE RandomAssumption DEF IInv
<1>1. /\ engine'[p] = [seed |-> seeds + 1, draw |-> 0]
      /\ wrapper'[p] = w
      /\ \A q \in Processes : q # p => engine'[q] = engine[q] /\ wrapper'[q] = wrapper[q]
  BY DEF TypeOK, Seeded
<1>2. seeds \in Nat /\ seeds + 1 \in 1..MaxSeeds
  BY DEF TypeOK
<1>3. TypeOK'
  <2>1. Seeded(seeds + 1) \in EngineStates
    BY <1>2 DEF Seeded, EngineStates
  <2>2. engine' \in [Processes -> EngineStates \cup {NoEngine}]
    BY <2>1 DEF TypeOK
  <2>3. wrapper' \in [Processes -> Wrappers]
    BY DEF TypeOK
  <2>4. \A q \in Processes : wrapper'[q].runtime <= current[q]
    BY <1>1 DEF TypeOK
  <2> QED
    BY <1>2, <2>2, <2>3, <2>4 DEF TypeOK
<1>4. EngineEndsOnce'
  BY <1>1, <1>2 DEF EngineEndsOnce, NoEngine
<1>5. Drawn'
  <2>1. \A q \in Processes : engine[q].seed \in Nat
    BY DEF TypeOK, EngineStates, NoEngine
  <2>2. \A o \in outputs : o.seed \in Nat
    BY DEF TypeOK, EngineStates
  <2> QED
    BY <1>1, <1>2, <2>1, <2>2 DEF Drawn
<1>6. Counted'
  BY <1>1 DEF Counted, Wrappers
<1>7. \A q \in Processes : q # p => (Serves(q)' <=> Serves(q))
  BY <1>1 DEF Serves
<1>8. \A q \in Processes : q # p => engine'[q].seed # engine'[p].seed
  <2>1. \A q \in Processes : engine[q].seed \in Nat
    BY DEF TypeOK, EngineStates, NoEngine
  <2> QED
    BY <1>1, <1>2, <2>1 DEF Drawn
<1>9. Apart'
  BY <1>1, <1>7, <1>8 DEF Apart
<1>10. Ahead'
  <2>1. \A o \in outputs : o.seed # engine'[p].seed
    BY <1>1, <1>2 DEF Drawn, TypeOK, EngineStates
  <2> QED
    BY <1>1, <1>7, <2>1 DEF Ahead
<1> QED
  BY <1>3, <1>4, <1>5, <1>6, <1>9, <1>10

\* A reseed that succeeds clears the flag and the count along with the new seed.
LEMMA ReseedInv ==
  ASSUME IInv, NEW p \in Processes, Reseed(p)  PROVE IInv'
<1> DEFINE w == Reseeded(p)
<1>1. wrapper[p] \in Wrappers /\ engine[p] # NoEngine /\ wrapper[p].state = "Open"
  BY LetThrough DEF Reseed, SameRuntime, Usable, IInv, TypeOK
<1>2. w \in Wrappers /\ w.state = "Open" /\ w.runtime <= current[p]
  <2>1. wrapper[p].runtime <= current[p] /\ 0 \in 0..ReseedInterval
    BY RandomAssumption DEF IInv, TypeOK
  <2>2. Reseeded(p) \in Wrappers
    BY <1>1, <2>1 DEF Reseeded, Wrappers
  <2>3. Reseeded(p).state = wrapper[p].state /\ Reseeded(p).runtime = wrapper[p].runtime
    BY <1>1 DEF Reseeded, Wrappers
  <2> QED
    BY <1>1, <2>1, <2>2, <2>3
<1>3. fate' \in [Processes -> Fates] /\ fate'[p] = "Live"
  BY <1>1 DEF Reseed, IInv, TypeOK, EngineEndsOnce
<1>4. wrapper' = [wrapper EXCEPT ![p] = w]
  BY DEF Reseed
<1> QED
  BY <1>2, <1>3, <1>4, FreshSeed DEF Reseed

\* A reseed that failed may have changed the seed; the count and the flag stay.
LEMMA ReseedRetryableInv ==
  ASSUME IInv, NEW p \in Processes, ReseedRetryable(p)  PROVE IInv'
<1>1. wrapper[p] \in Wrappers /\ engine[p] # NoEngine /\ wrapper[p].state = "Open"
  BY LetThrough DEF ReseedRetryable, SameRuntime, Usable, IInv, TypeOK
<1>2. wrapper' = [wrapper EXCEPT ![p] = wrapper[p]] /\ wrapper' = wrapper
  BY DEF ReseedRetryable, AfterFailedReseed, IInv, TypeOK
<1>3. CASE UNCHANGED <<engine, seeds>>
  <2>1. UNCHANGED vars
    BY <1>2, <1>3 DEF ReseedRetryable, vars
  <2> QED
    BY <2>1 DEF vars, IInv, TypeOK, EngineEndsOnce, Drawn, Counted, Apart, Ahead, Serves
<1>4. CASE /\ seeds < MaxSeeds /\ seeds' = seeds + 1
           /\ engine' = [engine EXCEPT ![p] = Seeded(seeds + 1)]
  <2>1. fate' \in [Processes -> Fates] /\ fate'[p] = "Live"
    BY <1>1 DEF ReseedRetryable, IInv, TypeOK, EngineEndsOnce
  <2>2. wrapper[p].runtime <= current[p]
    BY DEF IInv, TypeOK
  <2> QED
    BY <1>1, <1>2, <1>4, <2>1, <2>2, FreshSeed DEF ReseedRetryable
<1> QED
  BY <1>3, <1>4 DEF ReseedRetryable

\* Instantiation gives p a wrapper at its current generation, or nothing.
LEMMA InstantiateInv ==
  ASSUME IInv, NEW p \in Processes, Instantiate(p)  PROVE IInv'
<1> DEFINE w == [state |-> "Open", runtime |-> current[p], requests |-> 0, fork |-> FALSE]
<1>1. engine[p] = NoEngine /\ seeds < MaxSeeds /\ seeds' = seeds + 1
  BY DEF Instantiate, IInv, EngineEndsOnce
<1>2. CASE /\ wrapper' = [wrapper EXCEPT ![p] = w]
           /\ engine' = [engine EXCEPT ![p] = Seeded(seeds + 1)]
           /\ fate' = [fate EXCEPT ![p] = "Live"]
  <2>1. w \in Wrappers /\ w.state = "Open" /\ w.runtime <= current[p]
    BY RandomAssumption DEF Wrappers, IInv, TypeOK
  <2>2. /\ fate' \in [Processes -> Fates] /\ fate'[p] = "Live"
        /\ \A q \in Processes : q # p => fate'[q] = fate[q]
    BY <1>2 DEF IInv, TypeOK, Fates
  <2>3. UNCHANGED <<current, outputs>>
    BY DEF Instantiate
  <2> QED
    BY <1>1, <1>2, <2>1, <2>2, <2>3, FreshSeed
<1>3. CASE fate' = [fate EXCEPT ![p] = "Ended"] /\ UNCHANGED <<wrapper, engine>>
  <2>1. TypeOK'
    BY <1>1, <1>3, RandomAssumption DEF Instantiate, IInv, TypeOK, Fates
  <2>2. EngineEndsOnce'
    BY <1>1, <1>3 DEF IInv, TypeOK, EngineEndsOnce
  <2>3. Drawn'
    BY <1>1, <1>3 DEF Instantiate, IInv, Drawn, TypeOK, EngineStates, NoEngine
  <2>4. Counted' /\ Apart' /\ Ahead'
    BY <1>3 DEF Instantiate, IInv, Counted, Apart, Ahead, Serves
  <2> QED
    BY <2>1, <2>2, <2>3, <2>4 DEF IInv
<1> QED
  BY <1>2, <1>3 DEF Instantiate

\* uninstantiate and Drop leave p without an engine.
LEMMA EngineGone ==
  ASSUME IInv, NEW p \in Processes, NEW w \in Wrappers, w.runtime <= current[p],
         wrapper' = [wrapper EXCEPT ![p] = w],
         \/ engine[p] # NoEngine /\ TakeEngine(p)
         \/ engine[p] = NoEngine /\ UNCHANGED <<engine, fate>>,
         UNCHANGED <<current, seeds, outputs>>
  PROVE  IInv'
<1> USE DEF IInv
<1>1. /\ engine'[p] = NoEngine
      /\ wrapper'[p] = w
      /\ \A q \in Processes : q # p => engine'[q] = engine[q] /\ wrapper'[q] = wrapper[q]
  BY DEF TypeOK, TakeEngine
<1>2. TypeOK'
  <2>1. /\ engine' \in [Processes -> EngineStates \cup {NoEngine}]
        /\ fate' \in [Processes -> Fates]
        /\ wrapper' \in [Processes -> Wrappers]
    BY DEF TypeOK, TakeEngine, TearDown, Fates
  <2>2. \A q \in Processes : wrapper'[q].runtime <= current[q]
    BY <1>1 DEF TypeOK
  <2> QED
    BY <2>1, <2>2 DEF TypeOK
<1>3. EngineEndsOnce'
  <2>1. fate'[p] # "Twice" /\ fate'[p] # "Live"
    BY DEF EngineEndsOnce, TakeEngine, TearDown, TypeOK
  <2>2. \A q \in Processes : q # p => fate'[q] = fate[q]
    BY DEF TakeEngine, TearDown, TypeOK
  <2> QED
    BY <1>1, <2>1, <2>2 DEF EngineEndsOnce
<1>4. Drawn' /\ Counted'
  BY <1>1 DEF Drawn, Counted, TypeOK, NoEngine, Wrappers
<1>5. \A q \in Processes : Serves(q)' => q # p /\ Serves(q)
  BY <1>1 DEF Serves
<1>6. Apart' /\ Ahead'
  BY <1>1, <1>5 DEF Apart, Ahead
<1> QED
  BY <1>2, <1>3, <1>4, <1>6

LEMMA UninstantiateInv ==
  ASSUME IInv, NEW p \in Processes, Uninstantiate(p)  PROVE IInv'
<1> DEFINE w == [wrapper[p] EXCEPT !.state = "Consumed"]
<1>1. w \in Wrappers /\ w.runtime <= current[p]
  BY DEF IInv, TypeOK, Wrappers
<1>2. engine[p] # NoEngine /\ TakeEngine(p) /\ wrapper' = [wrapper EXCEPT ![p] = w]
  BY DEF Uninstantiate, Usable, EngineTaken
<1> QED
  BY <1>1, <1>2, EngineGone DEF Uninstantiate

LEMMA DropInv ==
  ASSUME IInv, NEW p \in Processes, Drop(p)  PROVE IInv'
<1>1. NoWrapper \in Wrappers /\ NoWrapper.runtime <= current[p]
  BY RandomAssumption DEF IInv, TypeOK, Wrappers, NoWrapper
<1>2. \/ engine[p] # NoEngine /\ TakeEngine(p)
      \/ engine[p] = NoEngine /\ UNCHANGED <<engine, fate>>
  BY DEF Drop
<1> QED
  BY <1>1, <1>2, EngineGone DEF Drop

\* A copy is behind the generation of the process it wakes up in, so it does
\* not serve; the original is as it was.
LEMMA ForkInv ==
  ASSUME IInv, NEW p \in Processes, NEW q \in Processes, Fork(p, q)  PROVE IInv'
<1> USE RandomAssumption DEF IInv, Fork
<1>1. /\ current'[q] = current[p] + 1 /\ wrapper'[q] = wrapper[p]
      /\ engine'[q] = engine[p] /\ fate'[q] = fate[p]
      /\ \A s \in Processes : s # q =>
           /\ current'[s] = current[s] /\ wrapper'[s] = wrapper[s]
           /\ engine'[s] = engine[s] /\ fate'[s] = fate[s]
  BY DEF TypeOK
<1>2. TypeOK'
  <2>1. current' \in [Processes -> 0..MaxRuntime]
    BY DEF TypeOK
  <2>2. /\ wrapper' \in [Processes -> Wrappers] /\ fate' \in [Processes -> Fates]
        /\ engine' \in [Processes -> EngineStates \cup {NoEngine}]
    BY DEF TypeOK
  <2>3. \A s \in Processes : wrapper'[s].runtime <= current'[s]
    BY <1>1 DEF TypeOK, Wrappers
  <2> QED
    BY <2>1, <2>2, <2>3 DEF TypeOK
<1>3. EngineEndsOnce'
  BY <1>1 DEF EngineEndsOnce
<1>4. Drawn' /\ Counted'
  BY <1>1 DEF Drawn, Counted
<1>5. ~Serves(q)'
  <2>1. wrapper[p].runtime <= current[p] /\ wrapper[p].runtime \in Nat /\ current[p] \in Nat
    BY DEF TypeOK, Wrappers
  <2> QED
    BY <1>1, <2>1 DEF Serves
<1>6. \A s \in Processes : Serves(s)' => s # q /\ Serves(s)
  BY <1>1, <1>5 DEF Serves
<1>7. Apart' /\ Ahead'
  BY <1>1, <1>6 DEF Apart, Ahead
<1> QED
  BY <1>2, <1>3, <1>4, <1>7

-------------------------------------------------------------------------------
LEMMA NextInv == IInv /\ [Next]_vars => IInv'
<1> SUFFICES ASSUME IInv, [Next]_vars  PROVE IInv'
  OBVIOUS
<1>1. CASE UNCHANGED vars
  BY <1>1 DEF vars, IInv, TypeOK, EngineEndsOnce, Drawn, Counted, Apart, Ahead, Serves
<1>2. ASSUME NEW p \in Processes, Step(p)  PROVE IInv'
  <2>1. CASE Instantiate(p)
    BY <2>1, InstantiateInv
  <2>2. CASE WrongRuntime(p)
    BY <2>2, LatchInv, AdoptInv DEF WrongRuntime, RollBack
  <2>3. CASE MarkFork(p)
    BY <2>3, LatchInv, AdoptInv DEF MarkFork
  <2>4. CASE Generate(p)
    BY <2>4, GenerateInv
  <2>5. CASE GenerateFails(p)
    BY <2>5, LatchInv DEF GenerateFails, MayGenerate, SameRuntime
  <2>6. CASE Reseed(p)
    BY <2>6, ReseedInv
  <2>7. CASE ReseedRetryable(p)
    BY <2>7, ReseedRetryableInv
  <2>8. CASE ReseedFails(p)
    BY <2>8, LatchInv DEF ReseedFails, SameRuntime
  <2>9. CASE Uninstantiate(p)
    BY <2>9, UninstantiateInv
  <2>10. CASE Drop(p)
    BY <2>10, DropInv
  <2> QED
    BY <1>2, <2>1, <2>2, <2>3, <2>4, <2>5, <2>6, <2>7, <2>8, <2>9, <2>10 DEF Step
<1>3. ASSUME NEW p \in Processes, NEW q \in Processes, Fork(p, q)  PROVE IInv'
  BY <1>3, ForkInv
<1> QED
  BY <1>1, <1>2, <1>3 DEF Next

\* The inductive invariant holds in every behaviour.
THEOREM Invariance == Spec => []IInv
<1>1. Init => IInv
  BY InitInv
<1>2. IInv /\ [Next]_vars => IInv'
  BY NextInv
<1> QED
  BY <1>1, <1>2, PTL DEF Spec

\* Types, the ceiling on requests and the order of generations.
THEOREM TypeCorrect == Spec => []TypeOK
<1>1. IInv => TypeOK
  BY DEF IInv
<1> QED
  BY <1>1, Invariance, PTL

\* Engines are torn down once: no wrapper is dropped over a destroyed engine and
\* none is forgotten in a wrapper that can no longer be used.
THEOREM EndsOnce == Spec => []EngineEndsOnce
<1>1. IInv => EngineEndsOnce
  BY DEF IInv
<1> QED
  BY <1>1, Invariance, PTL

\* No more outputs than the interval come from one seed, over all the processes.
THEOREM SeedUse == Spec => []SeedUseBounded
<1>1. IInv => SeedUseBounded
  <2> SUFFICES ASSUME IInv, NEW n \in 1..MaxSeeds
               PROVE  Cardinality({o \in outputs : o.seed = n}) <= ReseedInterval
    BY DEF SeedUseBounded
  <2> DEFINE S == {o \in outputs : o.seed = n}
             T == 0..(ReseedInterval - 1)
             f == [o \in S |-> o.draw]
  <2>1. IsFiniteSet(T) /\ Cardinality(T) = ReseedInterval
    BY FS_Interval, RandomAssumption
  <2>2. f \in Injection(S, T)
    <3>1. \A o \in S : o \in EngineStates /\ o.draw < ReseedInterval /\ o.seed = n
      BY DEF IInv, TypeOK, Counted
    <3>2. \A o \in S : o.draw \in T
      BY <3>1, RandomAssumption DEF EngineStates
    <3>3. \A a, b \in S : a.draw = b.draw => a = b
      BY <3>1 DEF EngineStates
    <3> HIDE DEF S, T
    <3> QED
      BY <3>2, <3>3 DEF Injection, IsInjective
  <2> HIDE DEF S, T, f
  <2>3. IsFiniteSet(S) /\ Cardinality(S) <= Cardinality(T)
    BY <2>1, <2>2, FS_Injection
  <2> QED
    BY <2>1, <2>3 DEF S
<1> QED
  BY <1>1, Invariance, PTL

\* No output is released from an engine state that gave one before, whatever was
\* forked, restored, reseeded or refused in between.
THEOREM NeverRepeats == Spec => NoOutputRepeats
<1> DEFINE Fresh == \A p \in Processes : Releases(p) => engine[p] \notin outputs
<1>1. IInv /\ [Next]_vars => [Fresh]_vars
  <2> SUFFICES ASSUME IInv, Next, NEW p \in Processes, Releases(p)
               PROVE  engine[p] \notin outputs
    OBVIOUS
  <2>0. wrapper[p] \in Wrappers /\ wrapper[p].requests \in Nat
    BY RandomAssumption DEF IInv, TypeOK, Wrappers
  <2>1. CASE \E x, q \in Processes : Fork(x, q)
    <3> PICK x \in Processes, q \in Processes : Fork(x, q)
      BY <2>1
    <3>1. wrapper'[p] = wrapper[p] \/ ~Alive(p)
      BY DEF Fork, IInv, TypeOK
    <3> QED
      BY <2>0, <3>1 DEF Releases
  <2>2. ASSUME NEW x \in Processes, Step(x)  PROVE engine[p] \notin outputs
    <3>1. CASE Generate(x)
      <4>1. x = p
        BY <2>0, <3>1 DEF Generate, Releases, IInv, TypeOK
      <4> QED
        BY <3>1, <4>1, Unused DEF Generate
    <3>2. CASE \/ Instantiate(x) \/ Reseed(x) \/ Drop(x)
      <4>1. wrapper'[p] = wrapper[p] \/ wrapper'[p].requests = 0
        <5>1. wrapper[x] \in Wrappers
          BY DEF IInv, TypeOK
        <5>2. Reseeded(x).requests = 0
          BY <5>1 DEF Reseeded, Wrappers
        <5>3. CASE Instantiate(x)
          BY <5>3 DEF Instantiate, IInv, TypeOK
        <5>4. CASE Reseed(x)
          BY <5>2, <5>4 DEF Reseed, IInv, TypeOK
        <5>5. CASE Drop(x)
          BY <5>5 DEF Drop, NoWrapper, IInv, TypeOK
        <5> QED
          BY <3>2, <5>3, <5>4, <5>5
      <4> QED
        BY <2>0, <4>1 DEF Releases
    <3>3. CASE ReseedRetryable(x)
      BY <2>0, <3>3 DEF ReseedRetryable, AfterFailedReseed, Releases, IInv, TypeOK
    <3>4. CASE \/ Latch(x) \/ Uninstantiate(x)
      BY <2>0, <3>4 DEF Latch, Uninstantiate, Releases, IInv, TypeOK, Wrappers
    <3>5. CASE \E r \in Presented(x) : AdoptRuntime(x, r)
      BY <2>0, <3>5 DEF AdoptRuntime, NewRuntime, Releases, IInv, TypeOK, Wrappers
    <3> QED
      BY <2>2, <3>1, <3>2, <3>3, <3>4, <3>5
         DEF Step, WrongRuntime, RollBack, MarkFork, GenerateFails, ReseedFails
  <2> QED
    BY <2>1, <2>2 DEF Next
<1> QED
  BY <1>1, Invariance, PTL DEF Spec, NoOutputRepeats
===============================================================================

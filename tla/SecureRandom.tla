----------------------------- MODULE SecureRandom -----------------------------
(***************************************************************************)
(* Initialized secure randomness (brynja-core/src/secure_random.rs) in a   *)
(* program that forks, is cloned, or is restored from a snapshot.          *)
(*                                                                         *)
(* The wrapper is memory, so Fork duplicates it with everything the engine *)
(* knows; what keeps two copies apart is the runtime generation the caller *)
(* presents with every call.  An engine is abstracted to what decides its  *)
(* next output: the entropy it was last given and the draws made since.    *)
(* Two outputs are independent exactly when these differ.  A rejected call *)
(* that changes nothing (a wrong purpose, strength or length, a reseed     *)
(* that is due, an unusable wrapper) is not a step, and neither is a       *)
(* generate that fails in a retryable way or unwinds: it releases nothing  *)
(* and leaves every field as it was.                                       *)
(***************************************************************************)
EXTENDS Naturals, FiniteSets

CONSTANTS
  Processes,       \* the processes the program may split into
  First,           \* the one it starts as
  ReseedInterval,  \* SecureRandomConfig::reseed_interval
  MaxRuntime,      \* the last RandomRuntimeGeneration, u64::MAX in the code
  MaxSeeds         \* bound: how often fresh entropy is drawn

ASSUME RandomAssumption ==
  /\ First \in Processes
  /\ ReseedInterval \in Nat \ {0}
  /\ MaxRuntime \in Nat \ {0}
  /\ MaxSeeds \in Nat

VARIABLES
  current,   \* per process: the generation its caller presents, 0 before it exists
  wrapper,   \* per process: the SecureRandom value it holds
  engine,    \* per process: the engine inside that wrapper
  fate,      \* history, per process: how the engine it held last came to its end
  seeds,     \* entropy drawn so far
  outputs    \* history: the engine states outputs were released from

vars == <<current, wrapper, engine, fate, seeds, outputs>>

\* "Live", or "Ended" by a teardown: uninstantiate, which completes, reports a
\* failure that handle_destruction_failure then takes up, or unwinds in either.
Fates == {"None", "Live", "Ended", "Twice"}

Wrappers ==
  [state : {"None", "Open", "Failed", "Consumed"}, runtime : 0..MaxRuntime,
   requests : 0..ReseedInterval, fork : BOOLEAN]
EngineStates == [seed : 1..MaxSeeds, draw : Nat]

NoWrapper == [state |-> "None", runtime |-> 0, requests |-> 0, fork |-> FALSE]
NoEngine == [seed |-> 0, draw |-> 0]
Seeded(n) == [seed |-> n, draw |-> 0]

Alive(p) == current[p] > 0

\* ensure_usable.
Usable(p) == wrapper[p].state = "Open" /\ engine[p] # NoEngine

\* The generations the caller in p may present: the current one, or one so old
\* that it is behind the wrapper's.  To present an intermediate one is to hide
\* a fork from the wrapper, which the documented duty of the caller excludes.
Presented(p) == {current[p]} \cup 1..(wrapper[p].runtime - 1)

Init ==
  /\ current = [p \in Processes |-> IF p = First THEN 1 ELSE 0]
  /\ wrapper = [p \in Processes |-> NoWrapper]
  /\ engine = [p \in Processes |-> NoEngine]
  /\ fate = [p \in Processes |-> "None"]
  /\ seeds = 0 /\ outputs = {}

-------------------------------------------------------------------------------
\* The engine of p is torn down.
TearDown(p) == fate' = [fate EXCEPT ![p] = IF @ = "Live" THEN "Ended" ELSE "Twice"]

\* The engine of p is taken out of its Option and torn down.
TakeEngine(p) ==
  /\ TearDown(p)
  /\ engine' = [engine EXCEPT ![p] = NoEngine]

\* latch_permanent: the failure is recorded before the engine is torn down.
Latch(p) ==
  /\ wrapper' = [wrapper EXCEPT ![p].state = "Failed"]
  /\ TakeEngine(p)
  /\ UNCHANGED <<current, seeds, outputs>>

\* ensure_runtime, when the caller's generation is behind the wrapper's.
RollBack(p, r) == r < wrapper[p].runtime /\ Latch(p)

\* Fault: a newer generation is recorded but does not ask for a reseed.
NewRuntimeUnmarked(p, r) == [wrapper[p] EXCEPT !.runtime = r]

\* The wrapper of p once it has seen the newer generation r.
NewRuntime(p, r) == [wrapper[p] EXCEPT !.runtime = r, !.fork = TRUE]

\* ensure_runtime, when the caller's generation is ahead: the call itself fails.
AdoptRuntime(p, r) ==
  /\ r > wrapper[p].runtime
  /\ wrapper' = [wrapper EXCEPT ![p] = NewRuntime(p, r)]
  /\ UNCHANGED <<current, engine, fate, seeds, outputs>>

\* mark_fork, which refuses the generation it already has along with older ones.
MarkFork(p) ==
  /\ Usable(p)
  /\ \E r \in Presented(p) : \/ AdoptRuntime(p, r)
                             \/ r <= wrapper[p].runtime /\ Latch(p)

\* generate and reseed alike, when ensure_runtime turns the call away.
WrongRuntime(p) ==
  /\ Usable(p)
  /\ \E r \in Presented(p) : RollBack(p, r) \/ AdoptRuntime(p, r)

\* ensure_runtime, when it lets a call through.
SameRuntime(p) == Usable(p) /\ wrapper[p].runtime \in Presented(p)

-------------------------------------------------------------------------------
\* Fault: the ceiling on requests is off by one.
MayGenerateOnceMore(p) ==
  /\ SameRuntime(p)
  /\ ~wrapper[p].fork
  /\ wrapper[p].requests <= ReseedInterval

\* Every check of generate before the engine is asked.
MayGenerate(p) ==
  /\ SameRuntime(p)
  /\ ~wrapper[p].fork
  /\ wrapper[p].requests < ReseedInterval

\* generate, when the engine filled the whole region.
Generate(p) ==
  /\ MayGenerate(p)
  /\ outputs' = outputs \cup {engine[p]}
  /\ engine' = [engine EXCEPT ![p].draw = @ + 1]
  /\ wrapper' = [wrapper EXCEPT ![p].requests = @ + 1]
  /\ UNCHANGED <<current, fate, seeds>>

\* generate, when the engine fails for good or claims success for a region it
\* did not fill.
GenerateFails(p) == MayGenerate(p) /\ Latch(p)

\* Fault: a reseed that failed starts the count of requests afresh.
AfterFailedReseedAfresh(p) == [wrapper[p] EXCEPT !.requests = 0]

\* The wrapper after a reseed that failed in a retryable way or unwound.
AfterFailedReseed(p) == wrapper[p]

\* The wrapper of p once its engine took new entropy.
Reseeded(p) == [wrapper[p] EXCEPT !.requests = 0, !.fork = FALSE]

\* reseed, which is never held back by the fork flag or the count of requests.
\* One that fails without the engine having used the entropy is not a step.
Reseed(p) ==
  /\ SameRuntime(p)
  /\ seeds < MaxSeeds
  /\ wrapper' = [wrapper EXCEPT ![p] = Reseeded(p)]
  /\ seeds' = seeds + 1
  /\ engine' = [engine EXCEPT ![p] = Seeded(seeds + 1)]
  /\ UNCHANGED <<current, fate, outputs>>

\* A retryable failure, or an unwind, with or without the entropy already used.
ReseedRetryable(p) ==
  /\ SameRuntime(p)
  /\ wrapper' = [wrapper EXCEPT ![p] = AfterFailedReseed(p)]
  /\ \/ UNCHANGED <<engine, seeds>>
     \/ /\ seeds < MaxSeeds
        /\ seeds' = seeds + 1
        /\ engine' = [engine EXCEPT ![p] = Seeded(seeds + 1)]
  /\ UNCHANGED <<current, fate, outputs>>

ReseedFails(p) == SameRuntime(p) /\ Latch(p)

-------------------------------------------------------------------------------
\* instantiate.  A rejected configuration or a failed engine is torn down
\* before the error returns; one that unwinds is dropped without.
Instantiate(p) ==
  /\ Alive(p) /\ wrapper[p].state = "None"
  /\ seeds < MaxSeeds
  /\ seeds' = seeds + 1
  /\ \/ /\ wrapper' = [wrapper EXCEPT ![p] = [state |-> "Open", runtime |-> current[p],
                                              requests |-> 0, fork |-> FALSE]]
        /\ engine' = [engine EXCEPT ![p] = Seeded(seeds + 1)]
        /\ fate' = [fate EXCEPT ![p] = "Live"]
     \/ /\ fate' = [fate EXCEPT ![p] = "Ended"]
        /\ UNCHANGED <<wrapper, engine>>
  /\ UNCHANGED <<current, outputs>>

\* Fault: uninstantiate tears the engine down but leaves it in the wrapper.
EngineInPlace(p) ==
  /\ TearDown(p)
  /\ UNCHANGED engine

\* uninstantiate takes the engine out of the wrapper before anything can fail.
EngineTaken(p) == TakeEngine(p)

\* uninstantiate on an open wrapper; the wrapper itself is dropped on return.
Uninstantiate(p) ==
  /\ Usable(p)
  /\ wrapper' = [wrapper EXCEPT ![p].state = "Consumed"]
  /\ EngineTaken(p)
  /\ UNCHANGED <<current, seeds, outputs>>

\* Drop, of an open, a failed or a consumed wrapper.
Drop(p) ==
  /\ wrapper[p].state # "None"
  /\ wrapper' = [wrapper EXCEPT ![p] = NoWrapper]
  /\ IF engine[p] # NoEngine THEN TakeEngine(p) ELSE UNCHANGED <<engine, fate>>
  /\ UNCHANGED <<current, seeds, outputs>>

\* p becomes q with all its memory: a fork or clone where q is new, a restored
\* snapshot where q is p.  The caller in q learns of it and advances its
\* generation; next fails at the last one, and q then does without randomness.
Fork(p, q) ==
  /\ Alive(p) /\ (q = p \/ ~Alive(q))
  /\ current[p] < MaxRuntime
  /\ current' = [current EXCEPT ![q] = current[p] + 1]
  /\ wrapper' = [wrapper EXCEPT ![q] = wrapper[p]]
  /\ engine' = [engine EXCEPT ![q] = engine[p]]
  /\ fate' = [fate EXCEPT ![q] = fate[p]]
  /\ UNCHANGED <<seeds, outputs>>

Step(p) ==
  \/ Instantiate(p) \/ WrongRuntime(p) \/ MarkFork(p)
  \/ Generate(p) \/ GenerateFails(p)
  \/ Reseed(p) \/ ReseedRetryable(p) \/ ReseedFails(p)
  \/ Uninstantiate(p) \/ Drop(p)

Next == \E p \in Processes : Step(p) \/ \E q \in Processes : Fork(p, q)

Spec == Init /\ [][Next]_vars

-------------------------------------------------------------------------------
\* Every variable has its type; in particular no count of requests passes the
\* interval, and no wrapper is ahead of its caller's generation.
TypeOK ==
  /\ current \in [Processes -> 0..MaxRuntime]
  /\ wrapper \in [Processes -> Wrappers]
  /\ engine \in [Processes -> EngineStates \cup {NoEngine}]
  /\ fate \in [Processes -> Fates]
  /\ seeds \in 0..MaxSeeds
  /\ outputs \subseteq EngineStates
  /\ \A p \in Processes : wrapper[p].runtime <= current[p]

\* A call of p is answered with an output: it is counted.
Releases(p) == Alive(p) /\ wrapper'[p].requests > wrapper[p].requests

\* No output is released from an engine state that already gave one, in this
\* process or in any it was copied from or to: the runtime generation and the
\* fork flag together keep a copy silent until it has entropy of its own.
NoOutputRepeats == [][\A p \in Processes : Releases(p) => engine[p] \notin outputs]_vars

\* Outputs made from one seed number at most the interval, over all processes
\* that ever held a copy of it and whatever reseeds failed in between.
SeedUseBounded ==
  \A n \in 1..MaxSeeds : Cardinality({o \in outputs : o.seed = n}) <= ReseedInterval

\* An engine is torn down once and once only, whichever of a permanent failure,
\* uninstantiate and Drop comes first, and a wrapper that failed, was consumed
\* or is gone holds no engine.
EngineEndsOnce ==
  \A p \in Processes :
    /\ fate[p] # "Twice"
    /\ fate[p] = "Live" <=> engine[p] # NoEngine
    /\ wrapper[p].state # "Open" => engine[p] = NoEngine
===============================================================================

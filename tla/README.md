# brynja: a TLA+ verification of its lifecycles, parallel executors and detached jobs

brynja is a `no_std` Rust workspace for cryptography (`src/crates/*`, about 190 000 lines of
Rust) and the Python that verifies and releases it (`src/scripts`).  Most of its risk is not in the
arithmetic of its hashes and ciphers, which test vectors cover, but in the protocols around it: who
owns provider state when a callback fails or unwinds, which of several outstanding tokens may still
be used after a runtime change or a quarantine, whether worker threads can outlive the storage they
write to, and whether hours of detached verification add up to what their evidence says.  This
directory models those protocols, checks them with TLC on small instances, and proves their safety
with TLAPS for every value of the constants.

`PROJECT.json` maps every definition to the lines it models, and lists runs, mutants, hazards,
findings and theorems.

    tlc -workers 2 -config PendingOperation.cfg PendingOperation     # any run
    tlapm PendingOperationProofs.tla                                 # any *Proofs module

## 1. The system

| Part | Where | State it keeps | Operations | What is hard |
|---|---|---|---|---|
| Pending provider operations | `brynja-core/src/pending/` | request (limits, counters, work meter); operation (provider state, attempts, backpressure) | admit, begin, resume, cancel, discard, destroy, Drop | callbacks that fail or unwind between ownership changes; retries; destruction that fails |
| Backend health session | `backend_session.rs`, `backend_kat.rs` | a `Cell` with state, generation, runtime, fault, approval; armed guards; tokens | begin_initialization, complete, fail, guard Drop, runtime_changed, validation | guards, evidence and tokens used late and out of order; generation exhaustion |
| Selection and kernel entry | `backend_dispatch.rs`, `backend_execution.rs` | the dispatch a caller holds; an entry in progress | select_backend, authorize_backend, execute_kernel | authority read before the platform callback, used after it |
| Native-thread ParallelHash | `brynja-hash-parallel-std/src/{lib,worker}.rs`, `brynja-hash-parallel/src/scheduled.rs` | gate, plan, leaf storage, scoped worker threads, collector, cancellation flags | enter, admit, batch, spawn, work, join/merge, finish, release | threads finishing in any order, workers that panic, spawn failures, cancellation at any moment |
| Security decisions | `security_outcome/{state,outcome,resolution,domain}.rs` | Ready, Pending, AwaitingCommit or Terminal, with a generation | begin, resolve, commit, fail_terminal, armed Drops | a decision dropped or forgotten between two steps |
| External key authority | `security_outcome/external_key.rs` | generation, whether the destruction token was issued | begin, finish, abort, destruction_token, Drop | one destruction token per key; answers handed to another key |
| Security event queue | `security_event/queue.rs` | bounded ring, loss counter | record, push, pop | full queue and saturating loss |
| SecureRandom, raw entropy | `secure_random.rs`, `entropy.rs` | instantiation, reseed counter, runtime generation, permanent fault | instantiate, reseed, generate, mark_fork, uninstantiate | forks and clones between seeding and use |
| FIPS session | `fips_session.rs`, `fips_service.rs` | self-test state, generation | run_self_tests, complete, catastrophic_failure, service_indicator | indicators that outlive a failure |
| Workspaces, cursors, budgets, clock, sequence numbers | `workspace.rs`, `read.rs`, `write.rs`, `budget.rs`, ... | offsets and remaining amounts | reserve, checkpoint, charge, advance | boundaries and exhaustion |
| Secret ownership, provider registry | `secret_*.rs`, `provider*.rs` | type-level | volatile clearing; lookup | effects no model of states sees |
| Strict ParallelHash, protected thread group | `brynja-hash-parallel-std/src/strict_execution/`, `brynja-crypto-cpu-std/src/protected_memory/platform/thread.rs` | root and worker stacks, protected buffers, result slots, output loan, quarantine | compute, run, run_group, join_all, declassify, quarantine, Drop | joins and clearing when a thread cannot be created or panics; leaves of one wave that fail in different ways |
| Detached verification job | `scripts/release/detached_{job,shards,process,checkpoints}.py` | state, result and command records, cancel file, lock; shard threads | start, worker, cancel, collect | crashes between two files; shards that end in any order; inputs that change under a command |
| Detached verification campaign | `scripts/release/detached_{job,checkpoints,recovery,history}.py` | manifests of all jobs, what each inherits | start with --resume and --recover, install, collect | evidence that is altered or outdated after others were built on it |
| Windows enclave scheduler | `brynja-crypto-cpu-std/src/windows_enclave/native/parallel_concurrent/` | issued jobs, completions, closed flag | next, dispatch, complete, finish | completions out of order and after closing |
| Hash, MAC and KDF engines | `brynja-hash-*`, `brynja-mac-*`, `brynja-crypto`, `brynja-crypto-cpu` | buffers, sponge phases, counters | absorb, finalize, squeeze, verify | buffering at block boundaries; arithmetic |
| Framing and DER | `brynja-protocol`, `brynja-pki` | cursors, nesting | parse, advance | lengths, limits, partial input |
| Legacy algorithms; placeholder protocol crates | `brynja-legacy-*`, `brynja-tls*`, `brynja-dtls`, ... | as their modern counterparts; none | | |
| Other assurance, scripts, tools, docs | `assurance/`, `scripts/`, `tools/`, ... | | | sequential checks of text files |

How the parts meet.  Provider calls go through *callbacks* of a trusted effect, made while the
lifecycle owns the state.  Health *sessions* are shared by reference: every guard and token borrows
the same `Cell` and may be used at any later time; dispatch reads two sessions and calls the
platform in the middle of an entry.  The ParallelHash executor is shared by *threads*, admits one of
them through a `try_lock` gate, and communicates with its workers by slots, joins and an atomic
flag.  A strict session is owned by one caller; its root and its workers are threads on stacks it
clears once they are joined, and another thread may cancel.  A detached job is an operator's command,
a worker process and its shard threads, which meet in the *files* of a job directory; jobs meet in the
evidence that later ones inherit from earlier ones.  The other lifecycles are sequential objects whose
`Drop` is one more operation.

Correctness, part by part.  *Pending operations*: state is destroyed exactly when a result says so,
what is not destroyed is noticed, every effect is paid for first, limits span retries.  *Sessions*:
health rests on a passed test of this generation, a token is usable only while nothing happened
since it was issued, quarantine is final.  *Dispatch*: no fallback but where the policy allows it,
and no kernel on stale authority.  *Executor*: the whole digest or nothing, no thread or leaf value
outlives a call, bounded workers, prompt cancellation, every call returns.  *Strict session*: the
same digest or nothing, no thread, frame or value left behind, quarantine kept after severe failures.
*Security decisions, external keys*: an open decision has exactly one holder who can end it, ready
means everything begun was committed, a key accepted as destroyed was destroyed once.  *Detached job*:
at most one result, true of what was run on frozen inputs, and always one unless killed.  *Campaign*:
what is collected was run and still counts.  *Event queue*: nothing lost uncounted.  *SecureRandom*: no output repeats across forks and restores,
a seed's use is bounded, every engine ends once.
*FIPS session*: no indicator survives a failure.  *Cursors, framing, DER*: bounds and agreement with
a reference definition.

## 2. The modules

| Module | Models | Composes |
|---|---|---|
| `PendingOperation` | one request or operation and the provider state made for it | |
| `BackendSession` | one health session with all its guards, evidence and tokens | |
| `BackendDispatch` | selection and kernel entry over two sessions | extends `BackendSession` (preferred) and instantiates it (scalar) |
| `ParallelHashSpec` | what a ParallelHash executor promises: abstract | |
| `ParallelHashExecutor` | the native-thread executor | implements `ParallelHashSpec` |
| `StrictParallelHash` | the strict sessions on protected stacks | implements `ParallelHashSpec` |
| `SecureRandom` | one generator and all its copies | |
| `SecurityAuthority` | several decision authorities and the keys on top of them | |
| `DetachedEvidence` | what a job's result says and when it is true | |
| `DetachedJobSpec` | what a job promises the readers of its directory: abstract | `DetachedEvidence` |
| `DetachedJob` | one job with its command, worker and shards | implements `DetachedJobSpec` |
| `DetachedCampaign` | jobs built on jobs | relies on `DetachedEvidence`, as `DetachedJob` provides it |

`PendingOperationProofs`, `ParallelHashExecutorProofs`, `StrictParallelHashProofs`,
`SecureRandomProofs`, `SecurityAuthorityProofs`, `DetachedJobProofs` and `DetachedCampaignProofs` hold
the proofs about the module they are named for, `BackendProofs` those about `BackendSession` and
`BackendDispatch`; `MCBackend`, `MCSecureRandom`, `MCDetachedJob` and `MCDetachedCampaign` hold the symmetry
and the sets that their runs use.

Operators marked *Fault* in a comment are plausible bugs (a dropped guard, a missing reset).  They
are not part of any specification; each is what one property of one run is tried against.

### PendingOperation

A lifecycle call is sequential, but every call it makes into the effect may return any result or
unwind.  A step therefore ends where the next effect call begins, and `pc` names that call: `Idle`
(in the caller), `Activate` (begin), `Effect` (resume or cancel), `Destroy`, `Drop`, `Handle`
(`handle_drop_failure`), `Aborted`.  `held` is what the caller owns, `resource` the provider state
as it really is: `Inert` when prepared, `Active` once the effect activated it, also where the
effect then failed.  `request` and `attempts`/`backpressure` are the two places the code counts in;
begin moves the counters from one to the other, and recovery moves the request back.

Unwinding is modelled although the workspace's release profile aborts: a library follows the
consumer's panic strategy (`docs/panic-strategy.md`) and the tests in
`brynja-core/tests/pending_security.rs` unwind through it.  Left out: payloads and the
`DestructionCause`, which no branch reads, and `mem::forget`.

### BackendSession and BackendDispatch

One session is a record in a `Cell`; every armed guard (`guards`, by its testing generation), every
piece of known-answer evidence (`kats`) and every token handed out (`tokens`) may be used at any
later step, so all orders of late completion, drop and validation occur.  `MaxGeneration` stands
for `u64::MAX`, and exhaustion is reached within every run.  `epoch` is history: it counts the
runtime changes and quarantines, and gives *current* a meaning the code's generation comparison can
be tested against.  At this commit no production constructor issues a `BackendKatPass`; evidence is
modelled as what the trusted provider hands in.

`BackendDispatch` extends `BackendSession`, which is the preferred session there, and adds a scalar
one.  Both move between selection and use and inside `acquire_guard` (phase `Acquiring`), but not
while the kernel runs (phase `Running`): kernels are sealed and cannot reach a session.  Reasons the
platform refuses a guard for (CPU identity, migration, features) are one nondeterministic refusal.

### ParallelHashExecutor

`phase[c]` is where the thread of caller `c` is; it is one step from one read of shared state
(the gate, the token, a worker's result) to the next.  The gate serializes calls, so `op[c]`,
`worker[c]`, `slot[c]` are the locals of a call: its plan, counters and collector, its scoped
threads, and its leaf storage.  A leaf value is the sequence of input positions hashed into it, so
the released output shows what was absorbed and in which order.  Workers finish, fail or panic in
any order, leaving their slot complete, empty or partial; a spawn may fail or unwind (which poisons
the gate once `thread::scope` has waited); any thread may cancel a token at any time.  `early` and
`late` are history for the cancellation property.  `ParallelHashSpec` knows only gate, inputs,
results and outputs; the mapping gives it the lengths of the calls.

The 128- and 256-bit calls, their bit-string and XOF forms are the same control with other types;
one model stands for them.  Slicing, planning and batching are computed, not abstracted.

### SecureRandom

The wrapper is a value in memory, so a fork, a clone or a restored snapshot duplicates it, engine
included: `Fork(p, q)` copies everything `p` holds into a new process, or into `p` itself for a
restore, and advances the generation its caller presents (`current`).  `wrapper[p]` and `engine[p]`
are the fields of the code; `state` is `Failed` where `permanent_failure` is set and `Consumed`
between the body of `uninstantiate` and the drop of its `self`.  An engine is what decides its next
output: the entropy it was given last (`seed`) and the draws since.  `outputs` and `fate` are history.

Two things are assumed of the world outside.  Entropy given to instantiate or reseed is fresh.  And a
caller presents its current generation, as the documentation of `SecureRandom` requires, or one that
is behind the wrapper's (a rollback, which latches); one that hides a fork it was told of is beyond
what the wrapper can detect.  Calls that change nothing are not steps.

### StrictParallelHash

One module stands for `Session` (kind `Scalar`) and `CompiledSession`: the second adds backends that
fail and the quarantine, which is armed before anything runs and taken back by a harmless result.
`phase` is where the caller is; `thread[s]` and `stack[s]` are the thread on each protected stack and
the frames it has left there, 0 being the root's.  A call canonicalises on the root's thread, runs
its leaves in waves of worker threads, each wave created one thread after the other and joined as a
whole (`run_group`, `join_all`), and merges and squeezes on the root's thread again.  A leaf's value
is its index: what the input is cut into is the subject of `ParallelHashExecutor`, what was merged,
in which order and from which slot is the subject here.  `loan` is the `Output` a caller holds,
has dropped, or has forgotten.  `observed` is history.

One error `Backend` stands for the errors of a leaf's or the root's backend (invariant, execution,
batch, quarantined worker).  A `pthread_join` or an attribute destructor that fails aborts the
process, and is left out.  The refinement maps onto the same `ParallelHashSpec` with one caller.

### SecurityAuthority

`record[a]` is the `Cell` of an authority.  `values` are the affine objects a program holds (pending
decisions, keys, outcomes), `tokens` the destruction tokens and the answers they became.  Any value
may be dropped, which ends an open decision terminally, or forgotten with `mem::forget`, which leaves
the authority open for good; `forgotten` remembers those.  Values can be presented to any authority
or key, because nothing in their types ties them to one.  The table of which resolution a kind admits
is translated value by value.

### DetachedJob and DetachedCampaign

`DetachedJob` is the start command (`starter`), the worker's main thread (`worker`), one record per
shard thread, and the files (`dir`).  Writes that replace a file through a `.tmp` are two steps where
a second writer can meet the first (`state.json`), one step elsewhere.  The worker may be killed
between any two steps and be run again by hand; any writer or probe may raise.  `world` is the
deadline and the inputs that have changed; a change that begins and ends while one command runs is
seen by no check of the code and is left out.  `Evidence` is what a reader of the directory believes,
and it refines `DetachedJobSpec`.  Left out: the progress files, which carry no success; collect's
validation of the live checkout and its tolerance for lateness (`PassedRunCollects` states what
collect adds up); the bytes a command printed that did not pass, which nobody adds up.  Installing
what is inherited writes several files and is one step: what reads them starts after it.

`DetachedCampaign` abstracts a job's run to `Truthful`, the relation that `DetachedJob` implements,
and models in full what the manifests of later jobs take from earlier ones: which jobs may be
resumed or recovered, how passes are merged over several parents, how a recovered pass carries over
when commits and tools changed.  Which tool inventories are compatible is a given relation, assumed
reflexive and transitive where its code compares for equality.  `Unchanged` is an abstraction of
`verification_carry_forward.disposition`, which decides from the paths changed between two commits
whether a pass may be reused: which commits touch a command is given (`Touched`), and a range of
commits touches what any of them does.  The model reuses at least as freely as the code, except
where the code proves a whole range harmless (test-only reruns, decomposed Miri tasks) or where a
later commit undoes an earlier one: `CollectedWasRun` says nothing of reuse on those grounds.  The operator interferes: another commit, other tools, a late cancellation,
damaged evidence.  `ran` is history.  Left out: bounds on the depth (16) and budget (128) of ancestry;
checkouts that go back; two jobs whose workers run at the same time (`Open` = 1 in the run).  One
asymmetry of the code is visible in `Resumable` and `Archived`: a live resume accepts a passed parent
that was cancelled afterwards, `History.completed` refuses it.

## 3. The runs

| Run | States | Shows |
|---|---|---|
| `PendingOperation` | 39 072 | ownership, accounting, backpressure and destruction; calls return; a driven request ends |
| `FailedStartLeavesNoState` | violation | finding 1 |
| `DropDestroysOrReports` | violation | finding 2 |
| `Backend` | 2.11 million | health, tokens, quarantine and stale guards up to counter exhaustion; policies, approval and kernel entry over two moving sessions |
| `ParallelHashExecutor` | 33 660 | all of its properties, refinement and termination |
| `StrictParallelHash` | 58 142 | nothing left behind, quarantine, refinement of the same executor, termination |
| `StrictParallelHash_FailureQuarantines` | violation | finding 4 |
| `SecureRandom` | 604 789 | generators in forked and restored processes: repetition, reseeding, teardown |
| `SecurityAuthority` | 154 177 | decisions and keys of two authorities, with tokens and answers in the wrong hands |
| `DetachedJob` | 433 645 | a job against crashes, cancellation, deadline, floods and drift; it implements its promise and settles |
| `DetachedJob_PreparationFailure` | violation | finding 3 |
| `DetachedCampaign` | 597 291 | three jobs that resume and recover from one another |

Why the bounds are enough:

* `PendingOperation`: 4 attempts, 2 backpressure responses and 5 units of work with charges of 1 or
  2 let either attempts or work run out first, a begin be retried, pushed back twice and still
  become an operation that is pushed back again.  The proofs remove the bounds for safety.
* `Backend`: 7 generations are two full tests, a change of runtime after each (there and back), and
  exhaustion in all five places that advance the counter; the scalar session needs 3 to become
  healthy.  The preferred class is either accelerated or a validated module, runtimes are symmetric.
  Two operations, one of them unsupported by the accelerator, make every fallback reason occur.
* `ParallelHashExecutor`: with a block of 2, lengths 0, 1, 5 and 7 are no leaf, one short leaf,
  three leaves in two batches (the last one smaller and its leaf short) and four, over the limit of
  3.  Two callers are enough to contend for the gate, one shared token for every race with it.  The
  history `late` and all counters are bounded by the code itself.
* `SecureRandom`: three processes are a parent with two children or a child and a grandchild, three
  generations a fork followed by another or by a restore, up to the last value.  An interval of 2
  lets a copy be taken before, between and after the requests of a seed; `MaxSeeds` = 2 gives the
  parent and one copy entropy of their own, a failed reseed and a failed instantiation included.
  `CHECK_DEADLOCK` is off: callers may stop, and do when the entropy bound is reached.
* `StrictParallelHash`: three workers and five leaves are one full wave and one that is partly empty;
  the inputs are no leaf, one full wave, two waves, and one beyond the limit.  Two output parts let a
  failure or a cancellation come between them.  The violation needs one wave of two leaves.
* `SecurityAuthority`: two authorities are enough to hand everything to the wrong one; the five kinds
  are those the code treats differently; 4 generations are three decisions and exhaustion.
  `CHECK_DEADLOCK` is off because every authority may end terminal.
* `DetachedJob`: three commands on two shards leave one shard with two; the whole list and one of two
  parts, with and without an inherited pass whose log counts against a share; a log budget that does
  not divide evenly; one change, which may be taken back, of a shard's tree or of the tools.
* `DetachedCampaign`: three jobs are a chain, or two parts that a third resumes, or a failed job, its
  recovery and a resume of that; two commits of which the second touches one of two commands; two
  tool inventories; one interference.  `timed_out` stands for the three ways to be interrupted, and
  results without any pass are left out but for a job that raised.  The proofs have none of these
  bounds.  `CHECK_DEADLOCK` is off because a campaign ends.

Fairness.  `PendingOperation` assumes that a call in progress keeps running (`WF(Inside)`): effects
are bounded by contract and nothing else holds the thread.  `DrivenRequestEnds` also assumes a
caller that does not sit on what it owns (`WF(Begin)`, `WF(Resume)`), and says so by its
specification.  `ParallelHashExecutor` assumes that the threads the system scheduled run (`WF` of
each caller's `Step` and each worker's `Work`); leaf jobs are finite loops, the gate is a
`try_lock`, and the only waiting is joining.  `Enter`, `Cancel` and `Renew` have no fairness.
`StrictParallelHash` assumes the same of the caller's steps, the root's and each worker's; panics and
failed creations are choices, never owed.  `DetachedJob` assumes that the worker's main thread and
each shard are scheduled, and that time passes (`WF(Expire)`); nothing makes a command end, an
operator act, a killed worker come back.  Safety runs of the sessions, of `SecureRandom`,
`SecurityAuthority` and `DetachedCampaign` assume none.  Deadlock is checked where no exception is
named above; `Halted` (PendingOperation) is the aborted process, `Finished` (DetachedJob) a start that
raised before it launched anything.

## 4. The proofs

Assumptions are those of the modules: `LimitsAssumption` (limits positive, as their constructors
require), `SessionAssumption` (a nonempty counter and a class), `DispatchAssumption` (the same of the
scalar session; operations are given), `ExecutorAssumption` (positive block size, workers and leaf
limit; natural lengths; callers that are not the gate's own values), `StrictAssumption` (positive
workers and parts, natural lengths), `RandomAssumption` (a positive interval and last generation),
`AuthorityAssumption` (a last generation, and keys among the kinds), `JobAssumption` (at most eight
shards, no more workers than shards and a byte of budget per shard, where the code asks for 1024 in
all; partitions and inheritances of the command list), `CampaignAssumption` (tool
compatibility reflexive and transitive, results among the evidence there is).  Callers, tokens,
authorities and processes may be infinitely many.

* **PendingOperationProofs** (`Invariance`, then one theorem per property).  The checked invariants
  are not inductive: what may still be spent depends on where the call stands.  `Ownership` says
  which state exists at each control point, `Accounting` that the effects so far, plus one that is
  about to run, are covered by the attempts and work of whichever counter is in charge, `Pushback`
  the same for the responses handed out.  `Finite` is the part of the liveness properties that is
  safety: `StepsLeft` is a natural number, at admission five for each attempt and one more, and every
  step makes it smaller, because only an effect starts a new round and it uses an attempt up.
* **BackendProofs**.  For a session `TokenOrder` is the key: no token is ahead of the session, no
  two share a generation, and one at the generation of a healthy session is of its epoch.  Hence a
  token that validates is the current one, at any width of the counter, because it stops instead
  of wrapping.  The action properties follow from the invariant step by step.  For selection and
  entry, `PreferredIsSession` and `ScalarIsSession` show that a step of the composition is a step of
  each session or leaves it alone, so `PreferredIsSafe` carries all of a session's properties over.  On
  top come `HealthyIsApproved` (a healthy session shows the approval its class requires), `Issued`
  (the dispatch that is held was made from a token of the session it names) and `Entered` (only a
  dispatch of the accelerated backend is entered).  A kernel is then authorised by what is current,
  because no session moves while it runs.
* **ParallelHashExecutorProofs**.  `Inside` ties the gate to the one caller that is in a call.
  `SlotFacts` says when a worker exists and that a finished one left the leaf of its index;
  `PrefixFacts` that the absorbed leaves are a prefix of the input, `Covered(n, m)` long after
  `m` leaves.  `LeafCountBounds` and `NextLeaf` are the arithmetic: no leaf is empty, together
  they reach the end, and appending the next one extends the prefix.  From these follow
  `NothingOutlives`, `Bounded` (the running workers are a subset of one caller's slots), `Prompt`,
  and `Implements`: every step is a step of `ParallelHashSpec` or is not seen by it.  `Finite` counts
  down a call (six steps for each leaf and four more): no other caller, cancellation or worker ever
  gives it more to do, so no call waits on another to have an end.
* **SecureRandomProofs**.  That no output repeats follows from two facts about the processes that
  `Serves`, the ones a generate would be let through in: no two hold the same seed (`Apart`), and each
  is ahead of every output made from its seed by anyone (`Ahead`).  A fork keeps them because the copy
  is behind its caller's generation; adopting that generation because it raises the flag; a reseed
  because its seed is above all others (`Drawn`).  `Counted` (no engine has made more draws than its
  wrapper has counted) gives `SeedUse` by an injection of a seed's outputs into the interval.

* **StrictParallelHashProofs**.  The invariant says, phase by phase, which threads exist
  (`StackFacts`: those of the stacks started, and only while their wave is launched or joined), which
  leaves have values (`LeafFacts`: all below the wave, none beyond what was started), what was
  absorbed and squeezed (`DigestFacts`), what a session keeps between calls (`CleanFacts`), and that a
  compiled session stays armed while a failure seen so far can only end in an error that is not
  harmless (`ArmedFacts`).  `MissingAnswer` shows that the first leaf without a value did answer,
  which needs that every thread of a complete wave ended; `Implements` is the refinement, and
  `Finite` the same count for a strict call: every step but a cancellation makes it smaller, the
  ones in which a thread panics, cannot start or is never joined included.
* **SecurityAuthorityProofs**.  `DecisionsAreHeld` is inductive together with `Known` (tokens and
  answers are for decisions that were begun), `OneToken` (a decision has one token, and one answer to
  it) and `Settled` (a ready authority has committed every decision, a busy one all but the open
  one); `Destroyed` follows an accepted key back to the provider's answer.
* **DetachedJobProofs**.  `Once` says that only one worker ever passes the lock and what its death
  leaves; it makes the records and the result of a job the work of one run.  `Started`, `Progress`,
  `Running` and `Ended` follow a command from its check through its record to the outcome of its
  shard: what a shard lists as passed has a passing record, was clean when it ended, and keeps to the
  shard's share.  `Told` and `Faithful` say the same of the verdict and then of `result.json`.  That
  `PassedCollects` holds is a statement about a sum, which the model writes as a fold.  The fold is
  shown equal to the size of a set of numbered bytes, by the least set for which it would not be
  (`TotalIsCardinality`), and the shares are then added up shard by shard (`Budget`).  `Refinement`
  maps every step to one of `DetachedJobSpec` or to a stutter; `EvidenceIsTruthful` is what
  `DetachedCampaign` takes a job for, and `ResultStays` makes it final.  `Finite` orders the run of a
  worker by what its main thread has left to do and then by what each shard has (six steps for each
  command in `Todo`, which a published command leaves): every step of the worker is downward, and a
  cancellation, the deadline or a changed input moves nothing up.
* **DetachedCampaignProofs**.  Every started job is `Founded` (it refers to finished jobs
  only; each inherited command was run in one of them, with inputs and tools that reach this one; what
  its parents passed it has; no job in its resume chain failed a command; what it recovers is present) and `Sound` (its evidence is
  truthful, and its passes were run or inherited).  `Kept` carries `Founded` over every later step,
  transitivity of ancestry and of `Compatible` over every chain.  `PartsWhole` needs the arithmetic
  of indices modulo the count, for each count the code allows.

Only model-checked: the liveness properties (`EveryCallReturns`, `DrivenRequestEnds`,
`WorkerSettles`), because liveness under fairness and ENABLED are beyond the prover.  What is proved
of them is `Finite` in their modules: no infinite behaviour of one call, request or run exists; that
it is not stuck before its end, and that the scheduler lets it go on, is what TLC checks.  Every safety
invariant, action property and refinement that a run checks has a theorem.

## 5. Findings

All were met while translating the code; each has a run that shows the trace.

1. `PendingStart::Failed` is documented as *"No state was created and the request failed"*
   (`pending/outcome.rs:133`).  A begin whose activation fails after it made the state active, and
   whose mandatory destruction then fails, returns it while the state still exists.
2. `PendingOperation`'s documentation says *"Drop destroys provider state; failures use
   handle_drop_failure"* (`pending/lifecycle.rs:14`).  A destruction that unwinds inside Drop does
   neither: the state is lost with the frame and the handler is not reached.
3. A comment in `detached_job.start` says *"a preparation failure is never resumable as success"*
   (`detached_job.py:144`).  When `launch.json` cannot be written the worker already runs; past its
   last look at the cancel file it publishes a successful result all the same, and a later `--resume`
   does not ask for that file.
4. `CompiledSession` documents that *"invariant/backend/resource failures after arming"* quarantine
   permanently (`compiled.rs:27`).  The first result of a wave that is not a leaf names the call's
   error, so a lower-indexed leaf that saw the cancellation hides a later leaf's backend failure,
   and the session is usable again.

## 6. Not modelled, and the plan

Not to be modelled: permutations, compression functions, ciphers and CPU kernels (arithmetic best
covered by vectors); volatile clearing, the affine `RawEntropy` value included; immutable registries;
placeholder crates; legacy twins of modelled lifecycles; the rest of the scripts, which read text
files and print findings.  Those scripts and their tests are most of the repository's Python; the
modelled part of it is the detached verification, which alone has state that outlives a process.

Planned, most important first:

1. The Windows enclave scheduler (`EnclaveWaves`): the lock-free scheduler of the host composed with
   the native gate and the Rust gate in the enclave, calls crossing the boundary in any order, closing
   and teardown; refinement of a bag of jobs each completed at most once.
2. `FipsSession`: self-tests, catastrophic failure and the indicators that outlive them.
3. The event queue, hash buffering and sponge phases, record framing and DER as operators against
   reference definitions; MAC and HKDF lifecycles on top; workspaces, cursors and budgets.

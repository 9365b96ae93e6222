# TraceIQ: TLA+ models, checks and proofs

TraceIQ (`src/`, Go) receives traces, samples them, keeps the interesting ones
in a hot index and a cold block store, learns baselines, groups anomalies into
incidents, investigates them with a reasoning loop and, behind a gate, executes
remediation actions. This directory holds TLA+ models of that code, the TLC
configurations that check them and the TLAPS proofs about them.

`PROJECT.json` lists the runs, the mapping from definitions to source lines,
the hazards of the code and the theorems. This file explains them.

## 1. The system

Data path: `ingest` receivers normalise a batch, stamp its tenant and push it
onto one bounded queue per sink. The sinks are the `sampler`, which assembles
spans into traces and decides which to keep, and `topology`, which keeps the
live service graph. A ticker goroutine finalises idle traces; a bridge goroutine
in `cmd/traceiq` reads each decision and its trace and appends the kept ones to
the tiered store. RED samples go through a second bridge into the anomaly
baselines. Control path: anomaly events become incidents (`anomaly`), the `rca`
engine investigates an incident with tools and a reasoner, registers interest
predicates in the sampler while it does, and proposes remediation actions to the
`remediate` guard. `api` exposes all of this over HTTP and MCP.

Components, with the state each keeps and what makes it correct:

| Component | State | Operations | What is hard | What must be true |
|---|---|---|---|---|
| Remediation guard (`remediate/guard.go`) | actions, idempotency records, audit log | Propose, Approve, Reject, Execute, Verify, Rollback, ExpireDue | Execute calls four outside parties in a row; retries; expiry; a cluster others edit | nobody approves their own proposal; a mutation is attempted at most once, on the proposed object, after a snapshot and inside the budget |
| Tiered store (`store`, `store/sqlite`, `store/parquet`, `store/tiered`) | hot rows, WAL segments, sealed blocks, open blocks, block counter | Append, GetTrace, Seal, BindColdBlock, ReplayWAL, Open | a process kill between any two file operations; restart | an acknowledged trace stays readable; no row points at a missing block |
| Sampler assembly (`sampler/assembly.go`) | trace buffers per shard, decision WAL, RED accumulator | Consume, Tick, FlushAll, ReplayWAL, DrainRED | Consume races the sweep; late and duplicate spans | one decision per span and buffer; an undecided span is in the journal |
| Sampling policy (`sampler/policy.go`) | per-tenant rates, rare-path table, token bucket | Evaluate | shedding against the keep classes | errors are kept before anything is shed |
| Interest predicates (`sampler/predicate.go`) | copy-on-write snapshot | Match, Add, Remove, ExpireDue, Narrow | Match stores a stale copy over a concurrent change | a narrowing is not undone; no predicate keeps everything |
| Ingest (`ingest`) | bounded queues, byte counters | Ingest, push, drain, Start, Stop | check-then-act byte bound; one sink full; shutdown | an acknowledged batch reaches every sink |
| Wiring (`cmd/traceiq/system.go`) | goroutines and contexts | Start, bridges, Shutdown | order of cancellation and joins | nothing decided before shutdown is dropped |
| Topology (`topology/livegraph.go`) | edges, operations, last-new times | Consume, sweep, Snapshot, Flush | eviction while upserting | companion maps stay bounded with the edges |
| Anomaly grouper (`anomaly/grouper.go`) | incidents, fingerprints, closing times | Add, Suppress, Tick | deduplication onto closed incidents; the open cap | a suppressed incident gathers no events; an open one exists for each fresh anomaly |
| Baselines and detectors (`anomaly/baseline.go`, `detectors.go`) | per-series quantiles | Observe, Checkpoint, detect | cold start, eviction | no detection from a cold baseline |
| RCA engine (`rca/engine.go`, `budget.go`, `journal.go`) | investigations, journal, budgets, cancel functions | Investigate, Abort, Correct, Replay | Abort and Correct race the loop's last write | a terminal state is final; budgets are never exceeded |
| RCA reasoners and tools (`rca/llm_reasoner.go`, `tools.go`, `rules`) | none | NextStep, Conclude | model failure and fallback | one fallback, lower confidence |
| Incident memory (`memory`) | records, runbooks | Remember, Similar, Supersede | ranking of superseded records | a superseded record never outranks its successor |
| Correlator (`correlate`) | cache | Correlate | per-backend deadlines | a partial answer says it is partial |
| Audit log (`remediate/audit.go`) | per-tenant hash chain | Append, Verify | a gap or a fork in the chain | verification notices every change |
| API, evaluation, configuration, natural language, auth, shared types, web | little or none | request handlers, offline scoring, parsing | mostly conversion | |

`PROJECT.json` names the source files of each component and says, for those
that are not modelled, why.

## 2. What there is

| Module | Models | Proofs | Runs |
|---|---|---|---|
| `Guard`, `RemediationGate` (abstract) | the remediation guard | `GuardProofs` | `guard_*` |
| `TraceStore`, `TraceArchive` (abstract) | cold store, hot rows, start and shutdown of the process | `TraceStoreProofs` | `store_*` |
| `Assembly` | sampler assembly, its journal, the bridges, `Shutdown` | `AssemblyProofs` | `sampler_assembly` |
| `Investigation` | the RCA engine's loop, its budgets, journal, Abort, Correct, Replay | `InvestigationProofs` | `investigation` |
| `Pipeline` | the ingest server, its queues, `Start` and `Stop` | `PipelineProofs` | `intake`, `ingest_signal` |
| `Interest` | the interest predicates | `SamplingProofs` | `intake` |
| `KeepPolicy` | the keep policy and its token buckets | `SamplingProofs` | `intake` |
| `LiveGraph`, `EdgeWatch` (extends it) | the service graph; the detector at the end of its channel | `AnalysisProofs` | `analysis`, `new_edge` |
| `Grouper`, `Detection` | incidents; baselines and detectors | `AnalysisProofs` | `analysis` |
| `Memory` | incident memory | `AnalysisProofs` | `analysis` |
| `Correlator` | logs and metrics of a trace | `AnalysisProofs` | `analysis` |
| `Gateway` | REST, MCP and questions in natural language | `AnalysisProofs` | `analysis` |
| `HotIndex` | the hot tables, their sweep and roll-ups | `AnalysisProofs` | `analysis` |

`MC…` modules instantiate these for TLC. Two of them, `MCIntake` and
`MCAnalysis`, hold several modules that share no variable and meet in the code
only through calls whose results each module takes as inputs (what the topology
answers the grouper, what the authorizer grants, whether the adapter's files can
be read). Their variable `part` picks the one that a behaviour exercises; the
instances then add up instead of multiplying, and nothing is claimed about their
interleaving, since none is observable.

Conventions. An operator under a comment "Not the code: …" is a plausible bug of
the definition after it: no action uses it; it serves to see that the property
named for it in `PROJECT.json` (`mutants`) would notice. At the end of some modules,
under "What the documents say and the code does not do", stand statements the
code violates and that no run checks; the sections below name the counterexample.
Constants called `Max…` that the code does not have bound the exploration and
appear in guards only; each module marks them "for checking".

Proofs share `SumLemmas`: what the community modules' `SumFunctionOnSet` and
`SumFunction` are of a function changed, extended or cut at one place. These sums are
recursive functions on the subsets of a finite set; that they exist, and what they
are, comes from the well-foundedness of the strict subset relation, so
that a set of subsets takes the place of the operator parameter the library's induction theorems
have. `REDAccounted`, `PipelineSound`'s bytes and `HotSound`'s calls rest on it.
A theorem holds for every value of the constants that its module's named assumption
admits; TLC evaluates each assumption on the run of its module. The bounds "for checking"
stay in the guards, and no proof uses one except `store_archive`'s single process
(§4) and that the hot index has finitely many buckets (§8).

What only TLC does. Liveness and everything with ENABLED (`EveryTraceDecided`,
`ShutdownReturns`, `PipelineProgress`, `EveryInvestigationEnds`, `ShutdownBinds`);
and the violated statements of the findings. Every other property of a passing run
is a theorem.

Left for later, in order: one composition of Assembly, the
store bridge and TraceStore; the audit chain; the store's housekeeping once something
calls it.

## 3. Guard

`Guard.tla` models `remediate/guard.go` with `validate.go` and `executor.go` for
one tenant.

| Model | Code |
|---|---|
| `actions` | `guard.actions`; a record per action id with the fields the guards read |
| `idemP`, `idemX` | `guard.idem` for the propose and the execute endpoint |
| `Wired` | which of `Deps.Resolver` and `Deps.Snapshot` are not nil: the code skips the re-resolution and the snapshot where they are, as its tests do |
| `exec` | the `Execute` that holds `guard.mu`, with where it has got to |
| `now`, `pol`, `cluster` | `Deps.Now`, `Deps.Policies`, and the live objects (external) |
| `logged` | the state in the last audit event of each action |
| `calls`, `mutatedUID`, `peakCap` | history: executor calls, the object they reached, the largest cap ever in force |
| `Propose`, `Approve`, `ApproveLapsed`, `ApproveOverBudget`, `Reject`, `Verify`, `Rollback`, `ExpireDue` | the methods, atomic because each holds the mutex throughout |
| `ExecuteBegin`, `ExecuteLapsed`, `ExecuteResolve`, `ExecutePolicy`, `ExecuteSnapshot`, `ExecuteDo` | `Execute`, cut at each call that leaves the guard: between two of them the clock, the cluster and the policy may move |
| `Tick`, `EditTarget`, `ReplaceTarget`, `DeleteTarget`, `SetPolicy` | the outside world |

Abstractions. A target is a name; its uid and resource version are numbers, uid 0
standing for the empty one: a resolver may answer without a uid, and the comparison
at execution is then skipped (guard.go:448). A missing verifier is one that always
verifies, which `Verify`'s free outcome covers. A
request is its incident, type and target, since nothing else decides a branch; a
hash is the value hashed, which is collision-free. Calls that return an error
before assigning anything are stuttering steps. The executor is the contract of
`Executor.Do`: `dryrun` touches nothing, another executor applies the request to
the object of that name, may fail, and may have applied it although it fails.
In this repository `k8s.BuildArgv` is a stub that panics and `KubectlExecutor`
turns the panic into an error, so the runs that let an executor apply a change
are about the guard with a working executor, not about the stub.

`RemediationGate.tla` is what the guard promises when clocks, budgets and
clusters are forgotten: requested, authorised, attempted once, settled; closed at
any time before the attempt and never attempted afterwards. `Guard!Gate` maps
each action to its phase.

### Runs

All runs are of `MCGuard`, which adds the policies an admin switches between.
None assumes fairness: everything checked is safety. `CHECK_DEADLOCK FALSE`
because the clock and the resource versions are bounded (`MaxNow`,
`MaxVersion`) and the guard has nothing to do when every action is settled. The
symmetry sets are action ids, principals and keys: the code only compares them
for equality and no property names one; the run of a temporal property that is a
refinement uses no symmetry.

| Run | Question | Bounds and why they are enough |
|---|---|---|
| `guard_execution` | What holds of an execution wherever the world moves? Types, separation of duty, at most one call, snapshot first, authorised in flight, honest cache, audit agreement; and every step is a step of the gate | one action, two principals (so self-approval is possible), two keys (so a retry can use another), four clock ticks against lifetimes of two, three versions, one buildable type and one that is not, a resolver and a snapshotter wired. Several actions at the gate are the proof's matter (`GuardImplementsGate`) |
| `guard_budget` | Do the budget and the override ceiling hold when the admin lowers the cap? | three actions on one incident against caps 2 and 1; neither resolver nor snapshotter wired, so `Execute` takes the other branches |
| `guard_replaced` | see Findings | one action and one key, the smallest instance with the counterexample |

### Findings

- `guard_replaced`: the uid is compared before the policy, snapshot and executor
  calls, and the executor addresses the object by name; an object replaced in
  between is the one mutated (06-decision-register.md:2344 says it is not).

Also met, without a run of their own:

- `Propose` stores its idempotency record under the hash of the *completed*
  proposal (the id, target and time are stamped between the check at guard.go:207
  and the store at :274), so an identical replay is refused instead of answered
  (`ReplayReturnsCached`, the comment at :161; TLC violates it on the instance of
  `guard_replaced`).
- The clock is read once at the start of `Execute` (guard.go:421), so an approval
  that expires during the resolver, policy or snapshot call still reaches the
  executor. `NoCallOnceExpired` says what 06-decision-register.md:2436 does, that
  an expired one means zero calls, and is violated on the same instance.
- The allowlists are checked again at execution, unless reading the policy fails
  then: the check is skipped and the execution goes on (guard.go:466).
- `Rollback` compares the live version with the one before the guard's own
  mutation, so the rollback of a mutation that took effect is refused
  (guard.go:610).
- `ExpireDue` writes no audit event, which is why `AuditedStates` leaves
  `Expired` out; and `Approved` can go to `Failed`, and `Failed` to `RolledBack`,
  neither among the documented eleven transitions.

### Proofs

`GuardProofs.tla`, for any number of actions,
principals, keys, targets, policies and any lifetimes, from `GuardAssumption`
only (finite `ActionIDs`; policies well formed; positive lifetimes and budgets;
`None` is not an element of the other sets).

*The invariant.* None of the safety properties is inductive alone. That the
executor is called once needs that an action in flight has not been called; that
needs that its state is `Approved` or `Executing` according to how far the call
is; that needs that no other method runs meanwhile; and separation of duty at
the call needs the approver recorded when the action was approved.
`Inductive` collects this: `Consistent(a)` ties an action's state to its call
count, approver, snapshot and audit event, `FreshApproval(a)` bounds its expiry,
and the rest describes the call in flight. The types of the call in flight
(`exec.id` is an action) need the invariant and the invariant needs the types, so
`InductiveInvariant` proves them together.

*The step.* Most methods touch one action while no call is in flight
(`QuietStep`), and the steps of `Execute` touch only the action in flight
(`FlightStep`). Each lemma leaves, per action of the specification, one
obligation: that the touched action is still `Consistent`.

*Corollaries.* `TypeCorrect`, `DutySeparated`, `AtMostOnce`, `FlightSafe`,
`SnapshotFirst`, `CacheHonest`, `AuditTrail`. `GuardImplementsGate` shows that
every step is a gate step or a stutter. `BudgetsHold` proves the budget and the ceiling by counting: the largest cap ever
in force bounds the cap now and the actions that count; a proposal adds one
element to a set smaller than the cap, and every other step only shrinks it.
`CeilingHolds` is its second half.

## 4. TraceStore

`TraceStore.tla` models the tiered store as `cmd/traceiq` uses it: the cold
journal and blocks of `store/parquet`, the hot rows of `store/sqlite`, the
two-step `Append` and `GetTrace` of `store/tiered`, and the replay and the
sealing that `system.go` does at start and at shutdown.

| Model | Code |
|---|---|
| `wal`, `blocks`, `hot` | what is on disk: `wal/<id>.wal`, `blocks/<id>/` with its manifest, the SQLite row of a trace |
| `open`, `seq` | `Store.open` and `Store.blockSeq`, in memory; `linked` says whether the open handle still has a name on disk |
| `phase`, `starts` | where `newSystem`, serving and `Shutdown` have got to |
| `app` | the `Append` under way: journal, then hot row |
| `seal`, `todo` | the block being sealed (files, manifest, bind) and those still to visit |
| `replay` | the segment `ReplayWAL` is appending again |
| `acked`, `issued`, `reused`, `unbound` | history: acknowledged traces, block ids handed out, those handed out again, blocks whose rows could not be bound |
| `Append`, `AppendJournal`, `AppendHot`, `…Fails` | `tieredStore.Append`, `parquet.Store.Append` and `WriteBatch`, cut at each write |
| `Shutdown`, `SealTake`, `SealFiles`, `SealManifest`, `Bind`, `…Fails`, `Exit` | `system.Shutdown`, `Seal`, `BindColdBlock`, cut at each file |
| `Start`, `ReplayVisit`, `ReplayAppend`, `ReplayRemove`, `Serve` | `newSystem` and `ReplayWAL`, cut at each segment and record |
| `Kill` | the end of the process between any two of these, with a partial record or file left behind |

Abstractions. One tenant. A kill loses the memory of the process and nothing it
has written; power loss, and so `fsync`, is not modelled. The records of a segment
are a set: they are of one hour, so replay sends them all to one block, and
their order decides nothing; a partial record hides whatever is written
after it. What is in a trace is not modelled, only which trace. The store's
housekeeping (`SealDue`, `RunSealCycle`, `PruneWAL`, `ExpireBlocks`,
`SweepRetention`, tombstones) has no caller outside the tests and is left out,
which is why the component is listed as partly modelled.

`TraceArchive.tla` is what a caller of the store relies on: `GetTrace` finds what has
been put, from that step on, and nothing else. `ActsAsArchive` maps the archive's `put` to the
acknowledged traces and its `found` to those `GetTrace` finds; it is an invariant and a
step property in one, because neither an acknowledged trace that is not found nor a
found one that stops being found is a step of the archive.

### Runs

| Run | Question | Bounds and why they are enough |
|---|---|---|
| `store_archive` | Is the store an archive until its process is started again? Does a shutdown that is not killed bind every pending row of an open block whose own seal and bind succeed, whatever becomes of the other blocks? | two traces in two hours, so that there are two blocks to seal, and two tiers; a block that cannot be opened, journal writes, hot writes, seals and binds that fail; kills anywhere |
| `store_restarts` | Is an acknowledged trace on disk, and does a bound row resolve, over kills and restarts? | two traces of one hour, so that a segment holds two records and two tiers replay into one block; three starts: one to write, one to be killed inside replay, one to replay what that left; blocks that cannot be opened, binds and replays that fail |
| `store_overwrite` | see Findings | the smallest instance with the counterexample |

`Faults` names what may fail: "open", "write", "hot", "seal", "bind", "replay", and
"tear", a journal write that fails half-way. `MaxSeq` bounds the blocks one process
opens and `MaxStarts` the processes. `store_restarts` stops exploring at the first
block id handed out twice (`NoIdReused`): its properties speak only of stores
without one, and `reused` never shrinks. Its traces are symmetric; the run of
temporal properties uses no symmetry. `CHECK_DEADLOCK FALSE`: the store really
stops, after the last start.

*Fairness.* Only `store_archive` assumes any, for `ShutdownBinds`: weak fairness of
`SealStep`, because `Shutdown` is straight-line code, which goes on until it
returns or the process is killed. That traces arrive, or that a process is started
again, is never assumed.

### Findings

Durability holds while block ids are fresh, and the code does not keep them
fresh: `blockSeq` starts at zero in every process and is not advanced past what is on
disk. From this comes

- `store_overwrite`: a later process opens a block with the id of a sealed one
  and its seal overwrites the files; the traces in them are lost.

Also met, without a run of their own:

- A journal write that fails half-way ("tear") leaves a partial record in a block
  that stays open; what is acknowledged after it cannot be parsed, so a kill loses it.
  This is why the proofs below exclude "tear".
- Replay can open a block under the id of the very segment it is replaying and
  then remove that name, so that the open block's journal is unlinked and a second
  kill loses it.
- Replay moves records to a new block and leaves the hot row naming the old segment,
  so that `GetTrace` misses a trace that is on disk (DR-7's crash matrix says it
  becomes searchable). A process killed between the manifest and the bind leaves
  rows pending for good, since nothing calls `BindColdBlock` at start (DR-7 says it
  is run again); they stay readable from the segment, which is why `ActsAsArchive`
  and `DurableUnlessReused` are not affected.

### Proofs

`TraceStoreProofs.tla`, for any number of traces, hours, block ids and processes,
from `StoreAssumption` and `NoneAssumption` (`None` is no trace, no block id and no
open block).

- `RowsResolve`: a bound row names a sealed block with its trace, under every fault,
  kill and restart, while no id was handed out twice. `BoundRowsResolve` is not
  inductive: between the manifest and `Bind` the rows to be bound are pending, and
  what makes them resolvable is that the segment's records are those that went into
  the files. `Placed` says where the process is: an append has an open block, a seal
  belongs to `Shutdown`, and whatever is named or on disk has an id that was issued;
  `Binding` says what a pending and a bound row can count on. An id that was not
  issued before is what keeps a row from naming another process's block.
- `AcknowledgedEndures`: an acknowledged trace is on disk, in a sealed block or in a
  segment that can be read, over any number of kills and restarts, without "tear" and
  while no id was handed out twice. `Durable` adds what keeps it there: an open block's
  segment is the one on disk, readable to its end, and holds nothing the block does
  not; what replay has moved is in another segment before it removes the old one.
- `StoreImplementsArchive`: with one process (`MaxStarts <= 1`) and
  without "tear", every step is a step of `TraceArchive` or a stutter.
  `FirstProcess` collects what is special about it: nothing to replay, a counter past
  every id handed out, a row for every acknowledged trace and for no other, and pending
  rows that name the segment their trace is in.

*Only model-checked:* `ShutdownBinds`, which is liveness.

## 5. Assembly

`Assembly.tla` models the sampler's `Manager` with its in-memory journal and RED
accumulator, and the goroutines of `cmd/traceiq` around it. A goroutine is cut at
each mutex and each channel operation; between two of them any other may run.

| Model | Code |
|---|---|
| `buf`, `age` | `shardBuf.traces`, and how long ago `LastSeen` and `FirstSeen` were, up to the two timeouts |
| `journal` | `MemWAL`, by trace |
| `red`, `redOut`, `redDropped` | the accumulator's calls, the sample channel, `redSamplesDropped` |
| `consumer` | the one goroutine that drains the sampler's queue in `ingest`: it has buffered a span and has yet to count it, then to journal it |
| `sweep["ticker"]`, `sweep["shutdown"]` | `Tick` and `DrainRED` of the ticker, `FlushAll` and `DrainRED` of `Shutdown`: the shard, the buffers taken out, the one being finalized |
| `overdue` | what the clock that `Tick` read once at its start makes due; `Consume` renews a buffer's idleness but not its age |
| `decisions`, `tracesCh`, `bridge`, `feed` | the channels, `runStoreBridge` and `runBaselineFeed` with their draining variants |
| `phase` | how far `Shutdown` is: ingest stopped, flushing, bridges cancelled, joined |
| `delivered`, `accepted`, `decided`, `kept`, `appended`, `observed` | history |

Abstractions. One tenant, since the key is (tenant, trace id) throughout. What
the policy keeps is left open. All spans fall in one RED bucket, so that a flush
is one sample, and a sample is its number of calls. The store's `Append` and the
baseline's `Observe` return (an error is logged there and changes nothing here);
what `Append` does is TraceStore's subject. `ReplayWAL` and `SetRing` have no
caller outside the tests. That `ing.Stop` returns after the last `Consume` is
`StopIngest`'s guard; Pipeline shows it (`StopReturns` waits for every drain).

### Runs

`sampler_assembly` asks: is each accepted span decided once, and in the end; does a
trace go with its decision; do RED counts add up; does a shutdown return, and leave
nothing behind? Two traces of one shard, one span each, two deliveries, so that
both are open at once or one comes twice, as a duplicate or after its decision;
channels of one element, so that every send can block and a RED sample is dropped;
idle and hard timeouts of one and two steps.

*Fairness.* Weak fairness of every goroutine: each is a loop over locks that are
held briefly and channels that somebody reads, and the scheduler runs it. Strong
fairness of `TickerExit`: the `select` that sees both a tick and the cancelled
context chooses at random, so it takes the context in the end. Weak fairness of
time. Spans need not arrive and nobody need ask for a shutdown; `ShutdownReturns`
starts where ingest has stopped. `CHECK_DEADLOCK FALSE`: after a shutdown nothing
is left to run.

Met while modelling, without a run of their own:

- A span that comes after its trace was extracted opens a second buffer
  (assembly.go:211, :222). A batch sent again by a client is then buffered, counted
  in RED and decided again, possibly differently; ingest makes clients do so when
  one queue took the batch and the other refused it (ingest.go:257).
  `DuplicatesHarmless` says what F01-ingest.md:303 does, and TLC violates it.
- `finalize` truncates the journal under the trace's key after the shard's lock is
  released. A late span that is buffered and journaled in between belongs to a new,
  undecided buffer, and loses its record (`UndecidedJournaled`,
  06-decision-register.md:821). In the reverse order, in which `Consume` journals
  after the truncation (assembly.go:243), a record of a decided span stays for good.
  The journal is in memory today and nothing replays it; the interface is meant
  to be backed by a disk.

### Proofs

`AssemblyProofs.tla`, for any spans, traces, shards, timeouts and channel capacities,
from `AssemblyAssumption`.

*The invariant.* `IInv` says where everything may be at each place of the code.
`Shaped` gives for each place of a sweep what it holds (a shard number, the buffers taken,
one decision, a sample); `Phased` says which goroutines can still be running in each
phase of `Shutdown`, `Ended` and `Cleared` what a reader or the flush has left behind
when it ends; `Owned` says whose spans a buffer holds. On these stand three accounts:
`Accounted` counts every accepted span in one buffer, in one sweep's hands or as
decided; `Aligned` says that the traces under way (those in `tracesCh`, then the one whose
decision the ticker has sent) are that of the decision the bridge holds and those of the kept
decisions in the channel, in their order, which needs that the flush of a shutdown keeps nothing; `Flow` adds calls
over the accumulator, the sweeps' samples, the channel and the baselines.

*The theorems.* `SpansDecidedOnce`, `TracesPaired`, `CallsAccounted` and
`ShutdownLosesNothing` for the four invariants of the run. The last one follows from
`Cleared`: the flush visits every shard after the last `Consume`, and a bridge leaves its
draining loop only with both channels empty and both sweeps at rest.

*Only model-checked:* `EveryTraceDecided` and `ShutdownReturns`, which are liveness.

## 6. Intake

Three modules, instantiated together by `MCIntake`; the runs are `intake`
(everything) and `ingest_signal` (see below).

### Pipeline

`Pipeline.tla` models `internal/ingest` with the two queues of `system.go`.

| Model | Code |
|---|---|
| `handler` | one Export call each: `Ingest` and `push`, cut where the byte counter is read, the channel tried and the counter added to (`CheckBytes`, `Send`, `AddBytes`), waiting once for the timeout where the configuration blocks (`TimerFires`), or leaving with its client (`ClientGone`) |
| `Refused`, `Limited`, `Span`, `ResolvesTenant` | the conditions and the per-span limits before the queue; a span is its set of attributes, by key order and size |
| `queue`, `bytes`, `drainer` | `boundedQueue`: channel, counter and `drain`, which takes, consumes and subtracts (`Take`, `SinkConsume`), and flushes once its context ends (`SeesCancel`, `Flushed`) |
| `Signal`, `StopCalled`, `ReceiversStopped`, `StopReturns` | the signal's context, `Stop` |
| `consumed`, `acked`, `late` | history |

`PipelineSound` says: the byte counter is what is queued, less and plus what is
between two steps; concurrent producers overshoot the byte bound by at most one
batch each but one; what a sink gets is within the limits and flagged where cut; and
when `Stop` has returned, what was acknowledged before the signal has reached
every sink. `PipelineProgress`: every call is answered and `Stop` returns, under weak
fairness of handlers, drains and `Stop` only. Two exporters, two batches, two
queues of two elements and three bytes: both exporters can pass the byte check
together, a queue can be full by either bound, and a refused batch can be sent again.

`PipelineProofs` proves `PipelineSound` for any finite sets of exporters, batches and
queues, any capacities, limits and requests (`QueuesSound`; a byte bound of 0 is no bound). The
invariant `PInv` adds to the types: `Counted`, the counter in terms of the queue,
the drain's hands and the calls between `Send` and `AddBytes`; `Bounded`, which counts
what was checked and not yet sent as well, since that is what a second producer
overshoots by; `Alone`, one call per batch; `Carried`, a call's batch has come to every queue
before its own; `Closing`, who has ended by each phase of `Stop`, and that a drain that is
done has left nothing acknowledged before the signal. `PipelineProgress` is liveness
and left to TLC.

`ingest_signal` finds `AcceptedDelivered` violated: the drains' context derives from
the one the signal cancels (ingest.go:142), so a drain flushes and returns while
receivers still accept, and a batch acknowledged after that is never consumed; the
comments of `Stop` and `drain` say otherwise. Also met: a batch refused by the second
queue is already in the first, and comes twice when the client retries.

### Interest

`Interest.tla` models `sampler/predicate.go` and `interest_adapter.go`: `preds` is
the published snapshot, `Add` (with its eviction), `Remove`, `ExpireDue` and
`Narrow` replace it under the mutex, and `Match` is two steps, a scan of what it
loaded and the publication of its own copy with one more hit (`MatchScan`,
`MatchPublish`). `TenantBound` and `GoneForGood` are what the race puts at risk: the
copy must neither exceed the limit nor bring back what was removed meanwhile. Limit
two with three additions, two tenants. `SamplingProofs` proves both for every limit
and every history: identifiers name one predicate, and the copy belongs to the
tenant of the predicate it replaces (`NamesOne`, `CopyFaithful`), so that the
publication leaves the number per tenant and the set of identifiers alone.

Met while modelling: `Match` never looks at the tenant, so a predicate keeps other
tenants' traces (`OwnTenant`, 06-decision-register.md:365); a predicate on error
signatures, attributes or operations matches nothing, and one with no selector
(as the engine's recurrence predicate, which has no signatures) matches everything;
`ExpireDue` and `Narrow` have no caller in the program.

### KeepPolicy

`KeepPolicy.tla` models `sampler/policy.go` and `tokenbucket.go` for one tenant: the
class of a finalized trace, the token buckets of the rare and the floor class, the
window of decisions and the shedding above `max_keep_rate`. `ClassesMetered`: a
window holds at most a full bucket and a minute's refill of each metered class,
whatever the traffic. Two ticks to the window and four decisions in it, against
buckets of one token. `SamplingProofs` proves it for every window, capacity and traffic
(`KeepsMetered`). The bound on the whole window is not inductive: when its oldest
decisions leave, a bucket may be full again. `Meters` bounds each younger part of the
window, `k` ticks long, by a full bucket and `k` ticks' refill, less the tokens that are left:
a tick shifts the parts by one and refills, a keep takes a token for the decision
it adds. That needs the window sorted by age, because the code expires a prefix of it.

Met while modelling: an interest match on a slow or rare trace can be shed, since
its class is not "interest" (policy.go:370-372); one standing keep of a lower class
lets every higher class pass `max_keep_rate`; a rare signature counts as seen although
its trace was shed.

## 7. Investigation

`Investigation.tla` models `internal/rca`: `engine.go` with the journal, the budgets,
the rules reasoner and the model's reasoner as far as they decide where the loop goes.

| Model | Code |
|---|---|
| `pc`, `work` | one call of `Investigate` per identifier, and its local copy |
| `Begin`, `Contextualize`, `PushScope` | up to the loop |
| `LoopHead` | context, wall clock and the five budgets (steps, tool calls, uncached and cached tokens, cost), in the code's order |
| `RulesFold`, `RulesTest`, `RulesExhausted` | `rules.Reasoner.NextStep` with the tool call it asks for |
| `ModelProposes`, `ModelFails` | `LLMReasoner` with its preflight; every failure swaps to the rules or ends |
| `Conclude`, `JournalStatus`, `RemoveScope`, `PushRecurrence`, `StoreFinal`, `Unregister` | after the loop, one write at a time |
| `invs`, `cancels`, `cancelled`, `journal`, `predicates` | the engine's map, its cancel functions, contexts, `MemJournal`, the sampler's predicates |
| `Cancel`, `AbortRead`, `AbortJournal`, `AbortStore`, `Correct`, `Replay…` | the other callers, cut where a lock is released |

Scores are abstracted to the threshold of 0.75. Texts, prompts and evidence bodies
are left out. The in-memory journal never fails. `Begin`'s three writes are one step:
nobody knows the identifier yet.

The run `investigation`: one started investigation and one identifier for a replay,
two rules (one that may confirm weakly), a model that may settle the first of them
before the rules get to it (so that they can run out within the two tool calls), two
answers (uncached or cached tokens, at a price) against budgets between two and four,
so that each can be the one that ends it; one correction. Fairness: a call that has begun goes on (each question and tool call has
a deadline); nobody is obliged to begin one, and the wall clock is not assumed to run
out.

| Property | Would fail if |
|---|---|
| `BudgetsHeld` | a check at the head of the loop left room for more than one iteration, or answers were possible that cost no step |
| `JournalAgrees` | the two writes of a status, by the loop and by Abort, told different stories |
| `SwappedNeverConcludes` | the cap on a fallen-back investigation were lost on the way to a reader, a replay or the sampler |
| `ScopeEndsFirst` | a reader saw the end before the scope predicate was gone |
| `OutcomeFinal` | a stored outcome were overwritten by anything but an abort |
| `EveryInvestigationEnds` | some path round the loop added nothing to a budget |

*Proofs.* All but the last are proved in `InvestigationProofs` for every catalog,
budget and script of answers. The invariant is `Sound`, a conjunction per
investigation (`Local`: how each place of the loop fixes status, budgets and what
has been written) with `AborterOK` and `ReplayerOK`: an Abort or a Replay under way
holds a copy that may be stale, and the argument is that a copy taken after the
cancel function is gone is that of a finished investigation, which only Abort still
changes. The output of the model is bounded by counting steps (`Outputs`): the
assumption `MaxSteps * MaxOutputTokens <= MaxTokensOut` is 24 × 1600 ≤ 64000
(`budget.go:15-19`, `llm_reasoner.go:68`), and takes the provider to honour the limit
it is asked for. The end of every investigation is liveness and left to TLC.

Met while modelling: a correction made while the loop runs is lost when
`StoreFinal` replaces the copy, and one made during an Abort when `AbortStore` does;
an Abort acknowledged after the loop's last look at its context has no effect;
a replay of a running investigation stays "running" for good; with the default
budgets of 24 steps and 40 calls the latter never binds; `ErrLLMBudgetExceeded` never
occurs, since the loop's head looks first; nothing compares the tokens put out with
`MaxTokensOut`, which FR-F06-8 lists among what ends an investigation; tokens of
answers that fail their checks are not charged, so that the budgets are of what is charged
and not of what the provider bills.

## 8. Analysis

Modules of the evidence behind an incident and the doors to it, instantiated together
by `MCAnalysis` in the run `analysis`. None assumes fairness; every property is
safety. The callers of the correlator are symmetric.

### LiveGraph and EdgeWatch

`LiveGraph.tla` is `topology/livegraph.go`: `edges` with call counts and times, the
companion maps `ops` and `lastNewEmit`, `pending` client spans, `nodes` and the
drop-oldest channel `changes`; `Consume` (with `UpsertEdge` and its eviction), the two
sweeps, `WarmStart` and the lookups. `GraphSound`: the bound holds over a warm start
too and eviction is decided by a total order; while an edge stays in the graph the
anchor of its change detection follows its traffic, announced or not; `Distance` finds
the shortest of one or two hops. Nothing of the kind holds at the cap: an edge colder
than all the others is evicted by its own insertion, so it is announced as new at each
sighting, and what `upsertEdge` writes of it after the eviction stays behind, so there
come to be more anchors than `max_edges`. `OnlyAbsentIsNew` and `CompanionsBounded` say
what the comments at livegraph.go:260-262 and :311-314 do, and TLC violates both on the
instance of `analysis`. Two tenants that call the same peer, a bound of two
edges against four insertions, a channel of one event; what is loaded at a start has two
rows of one edge, as the hot table has.

`EdgeWatch.tla` is the `TopologyChangeDetector`: it drains the channel for one tenant
and reconciles with the durable edges. `new_edge` finds `NewEdgeNeverLost` violated: an
edge below `NewEdgeMinCalls` at the tick that hears of it is dropped, and the clock of
the reconciliation moves past it. Also met: the edge id under which operations are kept omits
the tenant, so one tenant's calls are counted under the other's edge
(`OpsOwnTenant`); `Run`, which would sweep, is never started and `WarmStart` never called by
the program; nothing implements the detector's `EdgeMetaReader`.

### Grouper and Detection

`Grouper.tla` is `anomaly/grouper.go` for one tenant: an event joins the incident of its
fingerprint, else an open one of its neighbourhood, else opens one, and one of the
lowest score expires over the cap. `GroupingSound`: the cap; the same failure is never
open twice; an open incident is found under each of its services; provisional
incidents stay low and the epicentre has the highest score. An event's score is positive, as what crosses a positive
threshold scores in every detector; a score of 0 would leave no entry (grouper.go:195). Two neighbours and a
stranger, three incidents against a cap of two, a topology that may not answer.
Met: `closedAt` is taken from the wall clock where everything else uses the injected one;
an operator's `SuppressedBy` is overwritten by the next repeat; the
service index is never pruned.

`Detection.tla` is `baseline.go` and the three RED detectors: baselines with
eviction, the four states of a cold start, and the debounce. Exponential averages are
exact at a smoothing of one half, and quantile estimators hold fewer than five samples,
which they keep. `DetectionSound`: the bound on keys; nothing fires on a baseline that
is cold, one that eviction had reset included, unless the key has been known for
`max_cold_start`, and then only provisionally; two events of a key are a debounce apart.
Two keys against one baseline, so that each evicts the other; five buckets, so that
the cold start ends and the season slot changes. Met: a key whose traffic stops
altogether has no bucket and is not judged, so the drop to zero is never reported
(`SilenceReported`, FR-F05-13); `MaxKeysGlobal`, `MaxErrorSignatures` and the weekday
slots are read by nothing; the counts of keys that are gone are never pruned.

### Memory

`Memory.tla` is `internal/memory`: writing, weights, import, `Consolidate`, and `Similar`
with its pass that lifts a correction over what it supersedes. Two orders in it are
those of a map iteration; `Similar(q)` is the set of everything it may return.
`MemorySound`: weights stay within 0 and 2; of every set of records that is closed
under similarity, consolidation leaves one at least as recent as each record of it that
it merges away; a superseded record is returned only with its
superseder and, while corrections come in pairs, below it. Three records (two pairs, which the theorem covers, would take four), with one
import that collides; bundles are what such a store exports, since `Import` takes a
weight as it stands. Met: with a correction of a correction, or two corrections of one
record, the last two fail (`AlwaysAccompanied`, `AlwaysBelow`, DR-19 19.4);
consolidation may merge away the correction of a record that stays.

### Correlator

`Correlator.tla` is `internal/correlate`: the cache partitioned by tenant, the two
semaphores and a breaker per adapter name. A call is a step per lock: the tenant's
semaphore (`TakeTenant`), the global one (`TakeGlobal`), breaker and adapter in turn,
`Store`, then the deferred release in its two steps. A call refused at the second
semaphore holds its tenant's slot until `ReleaseTenant`, and another of the tenant may
be refused for it. `CorrelatorSound`: a slot is held exactly between taking it and giving
it back; every cached key is where eviction looks for it; lines are the earliest of
their own tenant and trace. Samples are those of some request with the same cache key,
which is the span id and the window, while adapters are asked by service and operation:
that two spans with one id get their own samples is `SamplesOfSpan`, the comment at
correlator.go:328, which TLC violates on the instance of `analysis`. `EvictsOwnOnly`: insertions of one tenant evict
no entry of another. Three callers against two slots, two tenants, a cache of two, two
spans that share an id.

Met: an empty answer cached after an adapter failed is returned later without the error
(01-system-architecture.md:2403); the two file adapters share one name and so one
breaker, across tenants; a cancelled caller counts as an adapter's failure; an expired
key stays in the eviction order and is appended again; the cache may exceed its size
when a second tenant appears.

### Gateway

`Gateway.tla` is `internal/api` and `internal/nl`: what a request through REST, MCP or a
question calls, for whom, under which capabilities; dependencies may be missing and
input malformed. `GatewaySound`: through REST, MCP and questions over REST whatever is
called, reads included, is called with the capability it needs by a subject that has a
tenant; a name in the text wins over an older turn and over the focus wherever the
answer is about a service, and a guessed name is called a guess exactly then; an intent is
acted on only when clearly the likeliest. Two subjects (one without a tenant), four
deployments, three sets of grants, eleven texts that match nothing, one or two intents,
close or apart, with a quoted error or without; a focus on a service, an investigation,
both or neither. Met: `AnswerForSubject` checks the two gated intents only, so what a
chat front end reads it must have authorised itself, and the property asks no more
of it; a question
through the REST API is answered for a subject without roles, so investigate and
remediate are refused there to everybody; nobody keeps the conversations;
`Idempotency-Key` is required of approvals and then dropped.

### HotIndex

`HotIndex.tla` is `store/sqlite` with `SweepRetention`: the tables a trace is searched by, the
roll-ups in three resolutions with `CascadeRED`, which reads outside its transaction, and
the rows of one edge. `HotSound`: within the horizon every search agrees, however sweep,
batches and failures interleave; a sweep that ends has deleted what was due; between
resolutions no call is lost or doubled unless a roll-up is written between the read
and the write of a cascade (`raced`). Three traces around the bucket of the
attribute index, batches of one row, so that every table takes several.

Met: `CascadeRED` and `SweepRetention` have no caller in the program; a conflict keeps the
old histogram and adds the calls only (`HistMerged`, hotindex.go:719-722); `Flush` hands
over cumulative counts that `WriteEdges` adds up, and `LoadEdges` returns rows newest
first, so a warm start restores neither (`RestoredAsFlushed`, FR-F04-7); the roll-ups
of 5 m and 1 h are never swept; `Append` writes trace and span rows only, so a search by
attribute or text finds nothing in the wired program.

### Proofs

`AnalysisProofs.tla` proves, for all constants their assumptions admit, `GraphSound`
(`LiveGraphSound`), `GroupingSound` (`IncidentsSound`), `MemorySound`
(`MemoryRemembers`), `DetectionSound` (`DetectorsSound`), `CorrelatorSound` (`LookUpsSound`), `EvictsOwnOnly`
(`EvictionsStayInTenant`), `GatewaySound` (`DoorsSound`) and `HotSound`
(`HotIndexSound`). The assumptions give the inputs their shape (a span's kind, an event's
service and positive score, a request's limit) and say nothing of the order they come in
or of their number. One is about the configuration: `IndexAssumption` takes the three
horizons of a span's rows (span, attribute, full text) as one, which is what the code
has, and as no longer than the trace's, as in the default configuration. With a longer
one a trace row would go before its spans.

- *Live graph.* The bound depends on the eviction order being total: `EdgeMap` says that
  insertion numbers are at most the counter and tell the edges apart, over a warm
  start with repeated rows too. The anchors of change detection follow because a map entry
  of an edge in the graph carries its last sighting; before any span there is none.
  `Distance` is right in every state, by what its first two hops are.
- *Grouper.* `PointsBack` (the fingerprint index names the open incident of a
  fingerprint) and `Listed` (every incident stands under each of its services)
  give uniqueness and reachability; neither survives without the other, since an incident
  that joins a neighbour is found through the second index and registered in the
  first. Expiry over the cap only removes from the open ones.
- *Memory.* `MemoryTyped` (the shape of records) is inductive; the rest holds of every
  store of that shape. Consolidation: every record in `merged` is outdone by a similar
  one that is more recent, or as recent and first in id order, through both loops;
  the best record that similarity leads to is outdone by none, so it stays, even when
  its own duplicates were merged into losers. Retrieval: the rank is a fraction, and
  with the ids it orders what passes strictly, so a sorted list exists and holds each
  record once. While corrections come in pairs no two pairs overlap, so a swap puts its pair
  in order and moves nothing of another, in any order of the map. The existence of what
  `MergedAway`, `AfterSwaps` and `TwoTo` define by recursion is `RecursionExists`, its
  type `RecursionTyped`, both by induction on numbers in the form of a set.
- *Detection.* `Baselines` (the bound, and what an entry holds), `Ticks` and `Paced`: a
  count of consecutive breaches is at most the ticks since that detector's last event of the
  key, which is what the debounce means across evictions.
- *Correlator.* `CallsOk` says what a call has gathered at each place (its records are
  the earliest of the adapters asked so far that answered), `SlotsOk` that each
  semaphore counts the places between its two steps, `CacheOk` that an entry is an answer to
  a request with its key and stands in its own tenant's order; for lines the key
  determines the request (`KeyTells`). The earliest records of all adapters are among the earliest of each, so that
  cutting each answer to the limit before merging loses nothing.
- *Gateway.* Every property is of one request, so each step is proved on its own:
  which capability a route or tool asks for, reads included, against what its operation needs.
- *Hot index.* A row is lost only after its horizon: a sweep's cutoff is behind the
  clock when it starts, and a batch deletes rows before it; the attribute index rounds down. For
  the roll-ups, `Cascading`: unless someone has written (`raced`), what a cascade read is
  still in its bucket when it writes.

## 9. Not modelled

- **Audit log.** `InMemoryAuditLog` appends to a chain of digests over concatenated
  fields; which events are written is Guard's matter.
- **Housekeeping of the cold store** (`SealDue`, `RunSealCycle`, `PruneWAL`,
  `ExpireBlocks`, tombstones) and the cost controller: no caller in the program.
- **Normalisation, configuration, evaluation, the web console, shared types.**
  Conversion, parsing, offline scoring and declarations: no state, no order to get wrong.
- **In part:** exemplars and error signatures of the hot index; the error-signature detector,
  the deploy index and checkpoints (stubs or unwired); prompts, schemas and the rules'
  row formats; patterns and wording of questions and answers; power loss (a kill loses
  memory only). `api.HTTPServer`, `correlate` and `nl` are modelled although `system.go`
  does not wire them yet.

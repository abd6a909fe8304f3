# Verification of tt-transformers

TLA+ models of the serving runtime of tt-transformers (`src/tt_transformers`), their model
checking with TLC, and theorems about them proved with TLAPS.  Paths below are relative to
`src/tt_transformers/` of the repository.

The library runs language models on Tenstorrent devices.  Most of its source is tensor graphs,
configuration and kernels; what is stateful, and what can go wrong in an order nobody tested, is the
*runtime* around them: programs are compiled once, traces (recorded device command streams, which
hold raw device addresses) are captured once and replayed for ever, and both own device memory that
must be given back in a fixed order through failures and retries.  Around it, requests share the
rows of a batch, blocks of a KV cache, sampling buffers and output buffers, and processes share
files of converted weights.

## 1. Inventory

| Component | State | Operations | Correct when |
|---|---|---|---|
| `ProgramCompiler` (`llm_runtime/program_compiler.py`) | registry of programs, orphaned outputs, the two gate flags, terminal flag | `compile`, `set_trace_capture_in_progress`, `set_trace_active`, `cleanup` | nothing unregistered compiles while a trace holds addresses |
| `TraceCompiler` (`llm_runtime/trace_compiler.py`) | plans, program-to-trace associations, artifacts, workspaces, orphans, activation, replay keys | `register_capture_plan`, `capture_all`, `replay`, `cleanup` | owns exactly what is allocated, after any failure; a trace keeps its inputs; a replay finds current inputs |
| `WarmupCoordinator` (`llm_runtime/warmup.py`) | ledgers of eager and traced cases, decisions, deferral, pending capture | `warmup_prefill`, `warmup_decode`, `defer_capture`, `activate_pending_capture` | captures once, after everything was compiled and registered, and does capture; what it compiled is what served calls need |
| `LaneGroupExecutor` (`llm_runtime/lane_group.py`) | lanes, pending futures, output pool, terminal flags | forwards split over lanes, the warmup barrier, reads, `cleanup` | serves as one executor of all its slots; all lanes activate or none; cleanup waits for all work |
| `ModelExecutor` (`models/executor.py`) | the owners of one lane, terminal and cleaned-up flags | allocate, compile, warm up, forward, read, `cleanup` | cleanup is ordered, retryable and complete |
| `EagerExecutor`, `TracedExecutor` (`llm_runtime/execution.py`) | registered plans | compile and run prefill and decode | a traced request replays the trace of its own program; a call that lacks one does nothing |
| `DecodeRuntime` (`llm_runtime/decode.py`) | output leases, pending reads by host id, resident-input contract, page-table lag | prepare, read and complete a step, drain | a host value is that of the step it was read for; the cache holds every request's tokens |
| `OutputReader` (`llm_runtime/output_reader.py`) | pending reads and their events | `submit`, `complete`, `drain` | a read completes once, after its copy |
| `PagedKVCacheManager` (`llm_runtime/paged_kv_cache.py`) | tensors of the layers, what the model is bound to, lifecycle | configure, `allocate`, `unbind`, `release` | the model sees only allocated tensors, release is retryable |
| `PrefillRuntime` (`llm_runtime/prefill/`) | transients, page-table scratch, the kept position of each trace | plan waves and chunks, run, replay, collect rows | every legal call is planned; the cache holds each prompt in its blocks; results come back in their rows |
| Sampling state and seeds (`modules/sampling/seed_manager_1d.py`, `sampling_state_1d.py`) | slots, seeds, counters, salts, penalties, histories | admit, remap, synchronize, advance, release | every token of a request is drawn with its own seed, counter, penalties and history |
| Cache environment, lazy weights (`cache_environment.py`, `modules/lazy_weight.py`) | directories, files, temporary files | resolve a cache, load, convert and publish a weight | a published file is whole, and no one silently loads another model's |
| Lazy buffers (`modules/lazy_buffer.py`), device ownership (`device_ownership.py`) | materialized tensors; the process's default device and the scopes that own it | materialize, update; enter and leave a scope | materialized once; a scope restores what it found |
| `VLLMAdapter`, `vllm_registry` | none | validation, renaming | - |
| HF-style generation (`models/hf_generation.py`) | a prepared device, its executor | prepare, warm up, generate, clean up | warms up in an order the coordinator accepts |
| TTTv2 modules, custom operations, model packages | weights, configuration | tensor computations | numerical |

How they interact.  A `ModelExecutor` (a *lane*) composes all the others on one host thread; the
`TraceCompiler` calls the flag setters of the `ProgramCompiler`, and the callbacks of capture plans
call back into the runtimes.  The `WarmupCoordinator` compiles through the executors, which register
plans, and calls `capture_all`.  The prefill and decode runtimes write the same KV cache, and drive
one `SamplingState1D`, whose buffers a prefill overwrites under the running requests.  A
`LaneGroupExecutor` calls its lanes in order, except for reads of outputs, which it runs in a thread
pool.  A caller (vLLM, or `models/hf_generation.py`) owns the outermost executor and must call
`cleanup` again when it raised.  Processes meet only in the cache of converted weights.

The hard behaviours: every callback and device call of `capture_all` may raise, and its rollback may
raise in turn, with leftovers that a later pass must release; release passes are "best effort" and
retried; the order in which warmup calls arrive is the caller's; several lanes activate under one
barrier; what is resident on the device (tokens, positions, page tables, seeds, penalties) goes stale
when another trace, a prefill or a change of the batch comes in between; outputs are read
asynchronously while later steps run; several processes fill one cache, and may crash while they do.
PROJECT.json lists these as hazards, each at its line.

## 2. Modules

One lane, from the bottom:

* `ProgramCompiler` - the registry and its gate.  `CanCompile`, `CompileSucceeds`, `CompileFails`,
  `SetTraceCaptureInProgress`, `SetTraceActive` and `ProgramCleanup` are the methods of the class.  A
  signature and its digest are one key.
* `TraceCompiler` extends it: a lane's two compilers.  `capture_all` is split where a callback or a
  device call may raise: `StartCapture`, `PrepareInputs`, `PrepareWorkspace`, `PrimeCaptures`,
  `BeginCapture`, `EndCapture`, `FinishCapture`, and the two ways into the rollback,
  `CaptureAllRaises` and `CaptureRecordRaises`.  `Replay`/`ReplayRaises`, `TraceCleanup` and
  `RegisterCapturePlan` are the other methods.  `device` is a ghost: what is really allocated, kept
  apart from the registries.  A release pass (`ReleaseAll`) takes the part `stuck` of the device's
  resources whose release fails this time.
* `CompileGate` - the abstract promise of the two compilers together: programs are added only over a
  device no trace uses, only a capture takes trace resources.  `TraceCompiler!GateSpec` states that
  the compilers implement it.
* `KVCache` - the manager of the paged KV cache, tensor by tensor: configure, allocate and release,
  with a failure of any tensor, of the binding and of its undoing.  `kvDevice` is a ghost of what is
  allocated, `kvBound` is what the model has.
* `ModelExecutor` extends `TraceCompiler` and `KVCache` with the other owners of a lane, the commit of
  capture by the warmup coordinator, forwards and reads, and the ordered `cleanup`, one action of the
  code's list per step.  An owner other than the compilers and the KV cache holds something or not.

What warm-up compiles, and what is served:

* `PrefillPlan` - the planner of a prefill call as operators: buckets, cached prefixes, waves,
  chunks, padded ends, fill views of the page table, and what it refuses.
* `Prefill` - calls of one lane on top of it.  An eager call runs all its requests and then reads all
  results; a traced call checks every trace first and reads each result before it replays the next,
  because a trace has one output buffer and keeps its last position.  The cache is modelled by the
  block of which prompt each block holds.  The scheduler is external: it hands out the lowest free
  blocks, shares the blocks of a common prefix also with an earlier row of the same call, and leaves
  old entries in the rows of its page table.  It admits the rows of a call one by one (`Admit`), and
  then makes the call (`Submit`).
* `PrefillCoverage` - the warm-up of one lane against the programs its calls need: the lengths, cases
  and keys that the coordinator derives, in the order it compiles them (`todo`), the priming of short
  sampled prompts before or around it (`models/llama3_executor.py`), the decisions and the capture.
  Serving uses the planner of `PrefillPlan`.

The serving of decode:

* `DecodeStep` - what a step runs on.  The runtime's state is the reload commands, the lag of the page
  table, the resident inputs of each trace and their feedback; the ghosts are the requests' tokens
  and the content of the KV cache, block by block.  The scheduler is external: its actions admit,
  extend, move and finish requests, under one of the two contracts of `docs/vllm-decode.md`
  (`reset_batch`, or the four commands), which `ResetContract` and `CommandContract` spell out.
* `SeedManager` and `SamplingState` - the other half of a step: streams with their seed, counter and
  salt (`SeedManager1D`), and the lane's seeds, penalty parameters and histories on the device
  (`SamplingState1D`), as the two runtimes drive them.  A prefill writes them in the row a request
  has in the call, or in every row when it is alone; a decode step reads them in the slot's row.  A
  device seed is the triple of seed, salt and counter: the hash that mixes them is not modelled.
* `DecodeOutputs` - the outputs of steps that are read later: leases, the two identity maps, the
  device's one queue of runs and copies, the trace-safety guard and the drain.  `content` is the step
  whose result a buffer holds, `meant` and `host` the step a read was made for and the one it got.
* `OutputReader` - several threads submit, complete and drain reads; one step is one section under the
  lock, or one wait outside it.  Object ids are reused as CPython reuses them: when nobody references
  the value.
* `HostRead` - the abstract promise of a read: owned until its copy is synchronized, retired once,
  never returned as complete before the device wrote it.  `OutputReader!HostReadSpec` states that the
  reader implements it.

A group of lanes:

* `Warmup` - the coordinators of all lanes under the barrier of the group, at the granularity of one
  case compiled.  The compilers are their registries and the gate; the leftovers of a failed capture
  are the subject of `ModelExecutor`.  The initial state chooses the `scenario`: lanes, trace policy,
  the calls the caller makes in order, and how often they may fail.  `Scenario` says what may be
  chosen; `PhasedCalls` is the order that the callers in the repository keep, traced calls last.
* `LaneGroup` extends it: the group that was warmed up serves.  A call is split over the lanes by
  slot; slots, request-owned state and remaps are converted to each lane; traces are checked in every
  lane before any runs; rows are put back in the order of the call.
* `OneBatch` - the abstract executor of a fixed batch, a function of the call: a prefill puts its requests
  into the slots named for them, a decode step moves them by its remap, each row is run with its own
  token, parameters and sampling state, and the *n*-th answer is that of the *n*-th row.  The history
  variable `given` records the arguments of the last forward that returned, so that slots, moves and
  the order of the answer are checked against the call.  `LaneGroup!GroupIsOneBatch` states that a
  group of lanes implements it.
* `OutputPool` - the threads that call a group, its pool of one worker per lane, the registry of
  futures, and `cleanup` with its lock, its waiting for futures and its per-lane completion flags.

Processes:

* `WeightCache` - processes on hosts that share a file system resolve the directory of their cache
  (precedence, identity, fallback, warning), look for the file of a weight, load it, or convert,
  write a temporary file and rename it.  They raise, crash at any step and are started again with ids
  that the host reuses.  `stale` is a ghost.

`MC*` are instances for TLC.  `ModelExecutorProofs` (with the compilers), `LaneGroupProofs` (with the
warm-up), `DecodeRuntimeProofs` (outputs and steps), `SeedManagerProofs` (with the sampling state),
`PrefillProofs` (with the planner), `PrefillCoverageProofs`, `OutputReaderProofs` and
`WeightCacheProofs` hold the theorems; those of `OutputPool` are in `LaneGroupProofs`.

Operators whose comment starts with *Mutant* are deliberate mistakes (a dropped guard, a missing
reset).  They are used by nothing; PROJECT.json pairs each property with those that must break it.


## 3. Runs

| Run | Instance and bounds | Shows |
|---|---|---|
| `trace_compiler` | 3 programs, 4 keys, 5 plans (two tails of one body, a prefill trace with a workspace, two plans that clash), one failing release pass | exact ownership, with no release under a live trace; kept inputs; refinement of `CompileGate` |
| `executor` | 2 plans, 2 KV tensors, one failing release of traces, two failures of other owners, three sets of owners that a raised call leaves behind | the model sees only allocated KV tensors; sampling buffers are never allocated over traces; a cleanup that succeeded leaves nothing; unless a release of traces failed, a completed capture is complete, the KV cache outlives the traces, and cleanup ends |
| `lane_group` | groups of 2 and 3 lanes and a lone lane, up to 2 failures, lanes warmed up before they are grouped; then groups of 2 with 2 slots a lane serve 3 requests in 1 or 2 forwards | the barrier, agreement of lanes, readiness, eventual capture; a warmed-up group serves, and serves as one batch, each answer at its row of the call (`OneBatch`) |
| `output_reader` | 2 threads, 2 reads, 2 object ids, one synchronization that raises | a drain retires what it found, calls return, refinement of `HostRead` |
| `output_pool` | 3 threads, 2 lanes, one fault of a read, a wait or a cleanup action, one submission that raises, 2 cleanups | cleanup waits for what was submitted (while no submission raised), calls return |
| `decode_outputs` | 2 traces, 4 steps, 4 reads, one failing deallocation | a host value is that of the step it was read for, what is allocated is reachable, a drain is complete |
| `decode_step` | 2 slots, 2 requests (one greedy, one sampled), 3 blocks of 2 positions, 2 pages a row, requests of up to 4 tokens | the KV cache holds every request's tokens in its blocks; a step samples with the parameters its requests asked for |
| `sampling_state` | 2 slots, 3 requests (two of one seed, one of them penalised, and a greedy one), 3 tokens each, both contracts of the scheduler | salts are distinct; every token is drawn with the request's own seed and counter, its own penalties and its own history |
| `prefill` | blocks of 2, buckets of 4 and 8, chunks of 8, 3 rows, 11 blocks; prompts of 1, 4, 5 and 17 tokens, two of which share 4; three wave policies, traced and eager, several captured sets; 2 device calls that raise | the cache holds each prompt, attention finds its context, results reach their rows, legal calls are planned, a refused traced call did nothing |
| `weight_cache` | 2 processes at a time on 2 hosts that share a process id, 9 jobs (two revisions, a fork, another precision, another topology; default, explicit and read-only caches), 3 launches, 1 failure, 1 crash | a published file is whole and stable, a foreign one is warned of |
| `prefill_coverage` | blocks and tiles of 2, buckets of 8 and 16, chunks of 32 to 96, contexts of up to 66; lanes of 1 and 3 rows, every single length with 8 cached prefixes, calls of 2 and 3 rows; the lengths of the ladder, or a list of the caller's own; sequential and fixed waves, two trace modes, three ways of sampling, priming before or around, either order; one failing compilation | every legal call finds its programs compiled after activation, its short rows primed, and warm-up is never refused |
| `either_order` | the same, for the orders `prefill_coverage` leaves out | a finding, section 6 |

Conditional properties.  `CompleteUnlessStuck`, `KVOutlivesTraces` and `CleanupCompletesUnlessStuck`
speak of behaviours in which no release of traces failed, `CleanupWaits` of those in which no
submission raised, and the configurations of `prefill_coverage` leave out the one in which priming
comes too late, which `either_order` shows.  Section 6 says what the code does otherwise.

Why the bounds are enough.  The registries of the compilers treat keys independently but for three
relations - two tails of one body, a body and a tail, a trace and its alias program - and the
instance has each of them once, with a plan that clashes on each.  A release pass picks *any* subset
of the device's resources as stuck, so one failing pass already reaches every combination of
leftovers; the passes after it must then clean up.  Two KV tensors give a tensor allocated before the
one that fails and one after it.  The group compares lanes with the first one, so the barrier needs
two, and a third one between a compilation that raised and one not begun.  One failure suffices for
a group, which is terminal after the first; a lone lane gets two.  Two forwards on two lanes of two
slots move a request between lanes, between slots of one lane, and not at all.  The reader tells
reads apart by value id only, so two reads and two ids reach reuse, and two threads every race on one
entry.  The pool needs a reader, a cleaner and a caller that arrives meanwhile: three threads; one
lane's future may finish while the other's waits: two lanes.  Four steps let each trace be run twice
with an eager step in between.  In `decode_step` a request of four tokens crosses a block boundary,
and three blocks make a finished request's block the next one's.  Three requests on two slots reuse
a slot while the other one's stream of the same seed is alive.  The four prompts are shorter than a
block, exactly a bucket, one token above it, and two chunks with one token over, with a row for a
wave of two and one behind it.  The geometry of `prefill_coverage` keeps the order relations of the
code's constants (tile, block, buckets, smallest and largest chunk, context just above a chunk) with
every length between them.  Two processes race on one file, and a third launch may reuse the id of
one that crashed.

Symmetry is used for slots in `decode_step`, whose properties are invariants, and nowhere else.
Deadlock is not checked where the system really stops: a lane that is cleaned up, a script that has
been completed, bounds of steps, reads, tokens or launches that are used up.

Fairness, each where the code's threads justify it:

* `ModelExecutor`: a cleanup pass that was started runs to its end, and a cleanup that raised is
  called again, which the ownership contract of `llm_runtime/README.md` asks of the caller
  ("retryable").  Failures are bounded, so this says that finitely many failures are survived.
* `Warmup`, and `LaneGroup` with it: the caller's thread runs on, makes the calls of its script, and
  repeats one that raised when it owns a single lane.
* `OutputReader`: the device finishes copies, a thread in the reader runs on.
* `OutputPool`: workers take and finish reads, a thread in a call runs on.  Locks are only weakly fair.

The other modules claim safety only and assume no fairness: what would have to happen eventually there
is a single call of one thread, with no loop that waits for another.

## 4. Proofs

The theorems hold for every value of the constants that satisfies the named assumptions of their
modules, which TLC evaluates in the runs.  Most of them only say that bounds are numbers and that
"none" is nobody's name.  Those that carry a proof:

* `PlansAssumption`, `RequiredAssumption` - what a capture plan is, and that warm-up requires some;
* `ScenariosAssumption` - what callers do: `PhasedCalls` and `AsksForAll` are the order and the
  completeness of the warm-up calls of `models/hf_generation.py` and of the vLLM phases;
* `GroupAssumption` - finitely many requests, and for each a case that serves it;
* `SlotsAssumption`, `DeviceSeedAssumption` - slots are numbered from 0, a seed is not "none";
* `StepsAssumption`, `BlocksAssumption`, `SizesAssumption` - of decode: a step is no trace's name,
  finitely many blocks, requests that fit the rows of the page table;
* `GeometryAssumption`, `BucketAssumption` - of prefill: sizes are positive, buckets and chunks are
  whole blocks, chunks are multiples of a smallest one that is a power of two;
* `PromptsAssumption`, `ConfigsAssumption` - prompts the model serves, a shared prefix of whole blocks,
  and waves that the resolver accepts;
* `SetupsAssumption`, `TileAssumption`, `SupportedAssumption`, `CallsAssumption` - of the warm-up: a lane's
  waves are of buckets and fit the lane, its lengths are buckets, tiles divide the smallest bucket, and
  the caller's script is one of `Scripts` (one pass in either order, or an eager pass first).  The code
  checks that declared lengths are positive, unique and cover the buckets, not that they are buckets
  (`warmup.py:203-209`), so a list with other lengths in it is outside, and so is a context shorter
  than the smallest bucket, whose only length is the context itself;
* `RevisionAssumption` - no user names a revision "unversioned".

A theorem that states a property of a run says for all constants what the run shows on an instance. The
theorems called `...Invariance` state the inductive invariants; `TypeCorrectness`,
`InputsOutliveTraces`, `CompileGateHolds`, `Registry`, `TemporariesOwned`, `PassesExclude`,
`NeverRefused` and `TracedLane` state what no run repeats.

**`ModelExecutorProofs`**, the compilers - `Invariance`, `TypeCorrectness`, `Ownership`,
`InputsOutliveTraces`, `CompileGateHolds`, `Registry`, `KeptInputs`, `ImplementsGate`.  `OwnershipExact`
is not inductive: that an artifact's tensors are allocated says nothing about what the *next* rollback
finds unless one also knows in which stage an artifact may exist at all.  `Ind` therefore has, besides
the types,

* `Exact` - what is on the device is what artifacts, the prepared inputs, the orphans and the running
  recording own, part by part;
* `Artifacts` - a live artifact holds its inputs, an absent one nothing, and the inputs of an artifact
  are in no other list;
* `Recording`, `IdleState`, `BusyState` - which lists may be filled, and which flags are up, in which
  stage of `capture_all`;
* `Inactive` - between operations, a compiler that is not activated owns nothing; this is what makes
  the gate sound after a failed rollback.

Each action has a lemma `...KeepsInd`; the three release passes (the two rollbacks and cleanup) share
`ReleaseAllStep`.  Feedback is proved on top of `Ind` with `Kept`: while replay accepts anything, the
previous replay's body is the resident one exactly when its tail feeds back.  The refinement goes by
`GateStep`: each step maps to a step of the gate or a stutter.

**`ModelExecutorProofs`**, the lane - `TracedLane` first: every step of a lane is a step of its
compilers or leaves them alone, so `Ind` and all that follows from it hold in a lane.  On top of it,
`KVInv` (what is bound is allocated, whatever fails in between) gives `ModelAlwaysSeesAllocated`; that
only one action allocates sampling buffers, and only over a compiler that is not activated, gives
`SamplingAlwaysBeforeTraces` with `Inactive`; `PassInv` with `DoneBefore` (in a cleanup pass without a
failure, everything before the current action of the list is given back) gives
`NothingHeldAfterCleanup`.  As long as no release of a trace failed (`faults = 0`), a pass leaves no
trace behind (`CleanPass`), so `OrderInv` (the KV cache is complete while anything is traced) gives
`KVAlwaysOutlivesTraces`; and `CommitInv` (what a capture has finished is whole, and it finishes all
that warm-up requires) gives `CapturedStaysComplete`.

**`LaneGroupProofs`**, the warm-up - `LanesAlwaysAgree`, `WarmedUpAlwaysReady`,
`CaptureIsAlwaysOneBarrier`.  Agreement *between* calls holds because of what holds *within* one, a
lock step: the lanes a call has visited are what the call makes of the state all lanes had at its
start, the others still have that state, and during the commit of the barrier the first lanes are
activated and the rest pending (`InStep`).  Readiness is about the ledgers: a decision or a completed
mark is backed by the programs and traces it speaks of (`LanesBacked`).  A capture is one barrier
because of where it may happen: a pending capture lives from its visit to its activation
(`BarrierInv`), and under the phased scripts a lane captures only in the commit of the last call
(`PhasedInv`); the deferral of decisions is what excludes the calls before it.

**`LaneGroupProofs`**, serving - `WarmedGroupAlwaysServes`, `GroupServesAsOneBatch`.  `ServedInv`
follows the script: after its last call of an operation, that operation is settled in every lane.  What
a lane that captured holds never changes again (`Resting`), so every later call finds its program and
its trace.  The refinement of `OneBatch` is arithmetic on slots: the rows a lane is given, in the order
the group gives them, are those whose slot lies in the lane's interval, each once; putting the answers
back inverts it, so that the answer is in the order of the call.  Sequences of rows are handled as enumerations of finite sets by rank (the *n*-th row
is the one with *n* rows up to it), whose existence and uniqueness are lemmas.

**`DecodeRuntimeProofs`**, outputs - `HostValuesAreOfTheirSteps`, `NothingLeaks`, `DrainsAreComplete`.
`LeaseInv` keeps the two identity maps and the leases in agreement: only the last step's output has an
entry by raw id (`OnlyLast`), a lease that may be read has one (`Readable`), an entry by host id leads
to the lease and the read it was made for (`HostEntries`).  `DeviceInv` then says what the device's
queue will do: a queued copy stands behind the run whose result it is meant to read and before the next
run over the same buffer (`CopiesShow`), and after the whole queue a buffer with an entry holds the
result of its step (`LastShows`).

**`DecodeRuntimeProofs`**, steps - `CacheIsOwn`, `SamplingIsOwn`.  A step relies on what earlier steps
left on the device.  `StepInv` says what that is: blocks of two requests never meet (`BlocksApart`), a
request's pages are in order (`PagesInOrder`) and cover its tokens (`TokensMapped`); a trace's resident
inputs are those of the step before (`TracesFollow`) and, until the batch changes, what a sampled trace
leaves is what the next step needs but for the blocks mapped since (`InputsFollow`); unless the next
step is told, the page table of the last one is that of the scheduler (`TableFollows`), and the
resident sampling parameters are those the requests in the slots asked for (`SamplingFollows`).

**`SeedManagerProofs`** - `SaltsStayDistinct`: each method that admits or moves streams has a lemma
that keeps live streams of one seed apart; a new stream takes the smallest salt none of its twins has.
`EveryDrawIsOwn`, `EveryPenaltyIsOwn`, `EveryHistoryIsOwn`: as long as nothing is untold, the
parameters (`LaneParams`), seed (`LaneSeeds`), counter (`LaneCounters`) and history (`LaneHistories`)
the lane keeps are those of the request that has the slot, where it was before the remap that is
pending; and what the last sampled step ran with is what the requests asked for (`ResidentAsks`,
`ResidentMembers`).  Each method has a lemma on the streams it returns.

**`PrefillProofs`**.  `EveryLegalCallIsPlanned` is arithmetic of the planner: above the named buckets,
padded lengths are powers of two (`TwoTo`), so a chunk size that divides them exists, and the padded
end of the last chunk fits the canonical width by the arithmetic of `PageTableLayout.resolve`.  For the
rest, the shape of a plan (`PlanShape`) is proved first: every row with something to compute is in
exactly one request, waves hold rows of one bucket without a cached prefix, and a row runs on its own
only after all the earlier rows of the call.  This needs the enumeration of rows and waves by rank
again, and the pigeonhole principle, from which the module also gets what it needs of powers of two: a
set of numbers that holds 0 and with *n* also *n* + 1 holds all of them.  Then, layer by layer:

* `AdmissionInv` - the scheduler: two requests share a block only where their prompts agree
  (`BlocksAreShared`), the rows of a call are the requests it admitted (`RowsAreAdmitted`), and the
  blocks of a cached prefix are in the cache or come from an earlier row of the call
  (`PrefixesAreHeld`).
* `CacheInv` - what the chunks of a call have written so far is in the blocks of their rows: a fill
  writes exactly the blocks of its rows and skips stale entries and padding (`FillIsOf`,
  `FillIsWhole`).  Gives `PrefilledPromptsStay` and `EveryChunkHasItsContext`.
* `ResultInv` - the results: requests are read in order (`PendingInv`), what waits to be read is of the
  prompts of its rows although traces share an output (`ValuesInv`), the kept position of a trace is
  that of its signature unless a refresh failed (`WorkspaceInv`), and the tokens collected are one per
  row of the requests read (`TokensInv`).  Gives `EveryResultIsOwn`.

`TracedCallsAreWhole` is the action property on top of it: the preflight has found a trace for every
request the call will replay.

**`PrefillCoverageProofs`** - `WarmupInvariance`, `WarmupIsAlwaysAccepted`, `ReadyInvariance`,
`RowsAreAlwaysReady`, `ServedIsAlwaysCompiled`.  What a call of warm-up will do is a sequence built out
of sequences (the cases of each length, their twins with penalties and log-probabilities, the order of
traced coverage, the steps of each case), so the first lemmas say what such a sequence holds: a
concatenation of blocks has a layout (`LaidOut`), found with the induction on numbers of
`PrefillProofs`.  They give `Lists` (the plan has exactly the cases of the lengths, batches and
samplings of the configuration), `LogitsLead` (the full wave of a bucket comes before everything else of
that bucket) and `FromPlan` (each step of the list has what it rests on before it, or had it already).
`WarmupInv` then says where the script of the caller stands (`ScriptInv`: the decisions that the calls
made so far have left), that the call in progress is the first of the script and has taken its decision
(`CallDecides`), and that a capture is the last step of a call (`CaptureLast`); so a call that captures
is the last one, or the lane is one that primes too late.

The promise of warm-up relates what was compiled, possibly several failed and repeated calls ago, to a
call that comes after activation.  Neither `RowsAreReady` nor `ServedIsCompiled` says anything before
activation, so the invariant must say what is ready all along.  `ReadyInv` is

* `CasesReady`, `PrimingReady` - what the ledgers call warmed or primed has all its programs, with their
  traces if it was warmed with traces, even when a later call raised half-way;
* `Owed` - of the steps still to do: a step that will enter a case or a priming into its ledger has the
  steps it vouches for before it or done, and before the first step that compiles the logits program of
  a full wave, or as that step, comes the full wave itself;
* `RowsInv` - hence, with that program compiled, all the rows of its wave were filled;
* `CapturedCovers` - traces are active only with every case of the plan in the ledger, the traced ones
  with traces.

`WarmKeys` says which programs the call of a case compiles.  From there the argument is arithmetic: a
served row has a bucket that warm-up knows, because the configuration was refused otherwise
(`KnownBuckets`, from the shape of padded lengths); a wave of that bucket has the programs of its full
wave (`WaveServed`); a lone row runs in the program of its bucket with or without a cached prefix
(`SingleServed`) and in chunks with that of its chunk size (`ChunkedServed`), which is itself a bucket,
for it divides a power of two, and leaves room for a prefix of a block, for it is whole blocks and less
than the context (`ChunkIsBucket`, `ChunkFitsCached`).  What is left are the short prompts that are
sampled out of one tile: their tile is that of the case or, on a wide lane, of a priming request
(`TileOfPrompt`).  `PrimedInv` says that the priming a lane owes is done by the time of activation,
unless it primes too late.

**`OutputReaderProofs`** - `KeepsItsPromise` is the refinement of `HostRead`, `NeverRefused` says that
a read once given out can be completed or drained by any thread.  The entry found under an id must be
that of the value itself although ids are reused; `DistinctIds` (values alive at one time have distinct
ids) and `Sound` (an entry in either registry keeps its value alive) say why.  `DrainsRetire` rests on
`Drained`: of the reads a drain took, none it is done with is pending again.

**`LaneGroupProofs`**, the pool - `CleanupAlwaysWaits`, `PassesExclude`.  `OnePass` (the thread that cleans up
holds the lock), `Registered` (a read in the pool is in the registry of futures, unless its submission
raised) and `Waited` (what the pass has waited for is finished, and no new read was admitted, since the
group is terminal).

**`WeightCacheProofs`** - `PublishedWhole`, `TemporariesOwned`: a temporary name belongs to one live
process (hosts and process ids of live processes are distinct), and only what was written to the end is
renamed.  `WarnedOfForeign`, `StableFiles`: two jobs that meet in a namespaced directory agree on the
identity and precision that its name and the file's carry (`NameInv`).

Every invariant of the passing runs is stated by a theorem.  Only model-checked is all liveness
(`CleanupCompletesUnlessStuck`, `WarmupEndsCaptured`, `CallsReturn`), since it needs fairness and ENABLED,
which are out of the prover's reach, and the finding of section 6, which is an instance by its nature.

## 5. Abstractions that matter

* One element of `device` is a tensor *tree*: a release pass that frees half of a tree is the tree
  still being there.  The ids of tensors freed in part are remembered by the code for this purpose;
  only the workspaces' ids, which outlive the tree, are modelled (`freedIds`).
* In `Warmup`, a case is one program and one plan.  Which requests compile it is the subject of
  `PrefillCoverage`, in the scaled geometry of section 3, where `TileSize` also stands for the literal
  32 rows of a wide lane, the coverage of decode is one program, and a capture does not fail.
* Programs are keys; collisions of digests are not modelled.
* The device is assumed to execute what is submitted in order; kernels added to its program cache by
  an eager run are a nondeterministic choice (`RunOnDevice`).
* `KVCache`: checks of shapes, dtypes and handles, which raise before any change, are left out.
* `OutputReader`: a read whose value is on the host already, and a submission that raises, leave no
  state and are not modelled.
* `OutputPool`: what a lane does in a read or a cleanup takes time and may raise, no more.  Forwards
  of other threads during a cleanup are outside the contract (one host thread per lane) and left out.
* `LaneGroup`: forwards sampled on the device, and in a decode step every lane has an active row.
* `DecodeOutputs`: a caller reads a traced output once, an eager one again while it is allocated.
  Synchronizations raise only in `OutputReader`.
* `DecodeStep`: the scheduler keeps its contract.  It resets after a change of the batch and after an
  eager step, lags only when the step continues the one before, and its commands tell what changed.
  The cache of normalized page tables is a pure cache and left out; the content of blocks no request
  holds is forgotten.  A step that raises leaves the resident inputs unset.  All decode tails share one
  body.
* `SamplingState`: a device seed is the triple of seed, salt and counter; a prompt counts as one token
  of history.  The scheduler keeps its contract: after a prefill, which overwrites the buffers, the
  next step reloads them; a reordering keeps the mode of log-probabilities or reloads; a step sampled on
  the host comes with no remap.  Suspending and resuming a stream is called by nothing and left out.
* `Prefill`: the cache is the prompt and position group each block holds.  The scheduler drops the
  prompts of a call that raised.
* `PrefillCoverage`: dynamic waves are left out (section 6).
* `WeightCache`: one weight of one shape and layout, on one shared file system whose rename is atomic.

## 6. Findings

`either_order` is a violation run, with the quoted line in PROJECT.json: `warmup.py:312-313` promises
that prefill and decode are warmed up in either order, but with trace mode `decode_only`, a lane below
32 rows and device sampling, a decode warmed up first lets the default prefill warm-up capture, after
which the priming of `models/llama3_executor.py:350` is refused by the gate.

Disagreements with a document or a comment, found in the models and described here without a run:

* `warmup.py:626`: after a capture whose rollback kept something, the retried warmup finds
  `capture_all` returning at once and reports capture as completed.  `CompleteUnlessStuck` excludes it.
* `trace_compiler.py:560` against `llm_runtime/README.md:53`: once the same pass released the
  `ProgramCompiler`, the trace compiler's retry raises for ever.
* `execution.py:147`: when a later request of an eager call raises, results of the earlier ones are
  owned by nobody.
* `lane_group.py:475`: an eager call that completes the coverage captures lane by lane, outside the
  barrier.
* `warmup.py:464`: only traced prefill withdraws the other operation's eager decision, so traced decode
  before traced prefill captures too early.
* `lane_group.py:740`: futures are registered after all of them were submitted; when a later submission
  raises, the earlier ones run on while their lanes are released.  `CleanupWaits` excludes it.
* Dynamic waves with traces (the default of `ModelExecutorConfig`): two prompts in the 1024 bucket plan
  to a program of two rows that warm-up did not compile; a user's subset of batch sizes is not checked
  against what the planner forms either.
* `warmup.py:475`: warm-up clamps to the ceiling of page-table layouts while the planner admits only
  the final layout, so a final KV capacity below the ceiling makes the warm-up of the largest bucket
  raise.
* A context below 128 tokens: loads that are no multiple of a block are refused from 97 on, and up to
  96 the tile starts of short prompts are not primed.
* `decode.py:1248` against `docs/vllm-decode.md:38`: a swap of two rows with different modes of
  log-probabilities is refused without a reload, because identity modes are not remapped.
* `device_ownership.py:72` against its docstring at 93-97: the default device is read without the lock.
* `llm_runtime/README.md:517-519` says that data-parallel aggregation of log-probabilities is not
  implemented; `_aggregate_log_probs_by_rows` implements it.
* A group accepts `reload_inputs=False` together with a remap, which each of its lanes refuses.

Observed, without a document or a test that says otherwise:

* `trace_compiler.py:481`: replay accepts an artifact a failed rollback kept although its trace id was
  released.
* `trace_compiler.py:634`: ids of deallocated workspace tensors are kept over successive workspaces,
  whose objects may reuse them; such a workspace is taken for released.
* `trace_compiler.py:606`: an `end_trace_capture` that fails in the error path leaves the device
  recording although the trace is released.
* The KV cache is released by a cleanup pass in which the release of a trace failed.
* `decode.py:875`: reading an eager output twice leaves an entry of `_external_by_host_id` for the
  first host value behind.
* `trace_compiler.py:498`, `decode.py:964`: under the `reset_batch` contract, an eager step between two
  traced ones of one tail, without a reset, leaves the resident inputs and the page table one step
  behind.  The model's scheduler resets there (section 5).
* `prefill/trace.py:206` keeps what `finish` still has to release in a local list, which is lost when
  it raises.
* `prefill/runtime.py:215-240`: without a prompt history the fallback selects it by slots of the whole
  lane, and hands the remap to the first request only.
* `lane_group.py:533`: the preflight of traces skips lanes whose execution is None.  A lane without an
  active slot makes a device-sampled step of the group raise on a reload, which is terminal.
  `_slice_prefill_request_state` takes a value of full width indexed by rows for one indexed by slots.
* `hf_generation.py:153` takes a context bound half-way for an allocated one.
* Cached weights: a read-only directory that exists and misses one file makes every load raise, since
  the fallback covers only the creation of the root; an unpinned revision is stored as "unversioned"
  without a warning; nothing is synced to disk before the rename; a temporary of a crashed process is
  removed only by one of the same host and id; the temporary's name assumes hostnames unique per
  namespace of process ids; the fingerprint has the shape of a source but not its content.
* `LazyBuffer.update` sets the source before the copy to the device, so a copy that raised looks done.

## 7. Plan

Modules, which take the place of questions that the proofs now answer: `HFGeneration` (a prepared
device and its generator, above `ModelExecutor`), `DeviceOwnership` (nested scopes of several
threads over the process's default device), `LazyBuffer` (materialization, update and release).

Proofs: none is owed for the runs of today.  The next ones are for these modules, and for dynamic waves
in `PrefillCoverage` once the planner and warm-up agree on them (section 6).

Not modelled, for good: the TTTv2 modules, the custom operations and the model packages compute
tensors, which needs numerical tests, not states; `VLLMAdapter` and the model registry have no state;
examples, benchmarks, qualification scripts, tests and CI are around the library.  These are most of
the repository's lines: the models cover the runtime that is left, a small share of the whole, and that
share cannot grow much without modelling arithmetic on tensors.  Of `models/hf_generation.py`, only the
order in which it calls warmup is used, as a script of `Warmup`.

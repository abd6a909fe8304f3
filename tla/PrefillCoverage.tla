---------------------------- MODULE PrefillCoverage ----------------------------
(***************************************************************************)
(* What one lane's warm-up compiles for prefill, and what served calls     *)
(* need of it once traces are active: the lengths and cases of             *)
(* llm_runtime/warmup.py, the program keys of llm_runtime/prefill/         *)
(* signatures.py, and the priming of the ends of the tiles of a short      *)
(* prompt, which a family of models adds (models/llama3_executor.py).      *)
(*                                                                         *)
(* The requests of warm-up and of served calls come from the same planner. *)
(* A key leaves out the widths of page tables: they follow from the rest.  *)
(* Decode is one program, and capture never fails: Warmup and              *)
(* TraceCompiler have the detail of both.                                  *)
(***************************************************************************)
EXTENDS PrefillPlan

CONSTANTS
    TileSize,           \* rows of a tile, and the lane from which the default warm-up primes tile ends
    Supported,          \* trace_prefill_supported_seq_lens of the model
    TraceLengths,       \* invocation lengths can_enable_trace accepts
    Setups,            \* [lane, waves, declared, mode, sampling, argmax, logprobs, primes, script]
    Calls,              \* the served calls considered
    MaxFailures,        \* bound: compilations that raise
    Unset               \* no decision yet, and no tile

ASSUME TileAssumption == TileSize \in Nat \ {0} /\ SmallBucket % TileSize = 0 /\ MediumBucket <= MinChunk
ASSUME SupportedAssumption == Supported \subseteq Nat /\ IsFiniteSet(Supported) /\ TraceLengths \subseteq Nat
ASSUME UnsetAssumption == Unset \notin BOOLEAN
ASSUME CallsAssumption ==
    Calls \subseteq Seq([slot : Nat, length : Nat, cached : Nat, table : Seq(Nat)])

VARIABLES
    setup,              \* the resolved configuration of the lane, which never changes
    script,             \* warm-up calls the caller has still to make
    todo,               \* what the call in progress has still to do
    compiled, aliased,  \* program keys: compiled, and with a trace
    filled,             \* programs that fill the cache with one row of an eager prefill
    warmed,             \* cases done, by whether they were traced
    primed,             \* _q128_topk_tile_ends_warmed
    decode,             \* decode programs: eager, and traced
    decisions,          \* enable_trace of the last call, by operation
    captured,           \* traces are active: nothing more is compiled
    refused,            \* a warm-up call was refused a program
    failures

registries == <<compiled, aliased, filled>>
coverage == <<warmed, primed, decode>>
vars == <<setup, script, todo, registries, coverage, decisions, captured, refused, failures>>

-----------------------------------------------------------------------------
(* Lengths.                                                                *)

Servable == RawWidth * BlockSize

LadderTop(longest) == IF longest >= SmallBucket THEN PaddedLength(longest) ELSE longest
\* prefill_bucket_ladder; a model shorter than the smallest bucket has that one length.
Ladder(longest) ==
    LET top == Least(MaxChunk, LadderTop(longest))
        buckets == {b \in SmallBucket .. top : PaddedLength(b) = b}
    IN  IF buckets = {} THEN {top} ELSE buckets

\* resolve_prefill_warmup_seq_lens, when some trace is configured.
WarmLengths(c) == IF c.declared # {} THEN c.declared ELSE Supported \cup Ladder(MaxLength)
\* _require_bucket_coverage, which refuses the configuration when it is false.
CoversBuckets(c) == Ladder(Servable) \subseteq WarmLengths(c)

Halvings(wave, lane) == {wave \div 2^k : k \in 0 .. wave} \cap 0 .. lane
\* serving_prefill_policy.
ServingWaves(wave, lane) ==
    IF Max(Halvings(wave, lane)) < 2 THEN <<>> ELSE SmallBucket :> Max(Halvings(wave, lane))

-----------------------------------------------------------------------------
(* What a caller asks for, and the configurations the constructors accept. *)

Asks(op, trace) == [op |-> op, trace |-> trace]
EagerPass == <<Asks("prefill", FALSE), Asks("decode", FALSE)>>
PrefillFirst(mode) == <<Asks("prefill", mode = "all"), Asks("decode", TRUE)>>
DecodeFirst(mode) == <<Asks("decode", TRUE), Asks("prefill", mode = "all")>>
\* One pass in either order, or an eager pass before the traced one.
Scripts(mode) == {PrefillFirst(mode), DecodeFirst(mode), EagerPass \o PrefillFirst(mode)}

ASSUME SetupsAssumption ==
    \A s \in Setups :
        /\ s.lane \in Nat \ {0} /\ s.mode \in {"decode_only", "all"} /\ s.script \in Scripts(s.mode)
        /\ {s.sampling, s.argmax, s.logprobs} \subseteq BOOLEAN /\ (s.argmax \/ s.logprobs => s.sampling)
        /\ s.primes \in {"before", "around"}
        /\ \A b \in DOMAIN s.waves : /\ b \in 1 .. MaxChunk /\ PaddedLength(b) = b
                                     /\ s.waves[b] \in BatchSizes \cap 2 .. s.lane
        /\ s.declared \subseteq Nat /\ IsFiniteSet(s.declared)
        /\ \A length \in WarmLengths(s) : length > 0 /\ PaddedLength(length) = length

Policy == [kind |-> IF setup.waves = <<>> THEN "sequential" ELSE "fixed", waves |-> setup.waves]
PrefillTraced == setup.mode = "all"
TracesLength(length) == PrefillTraced /\ InvocationLength([length |-> length, cached |-> 0]) \in TraceLengths
PrimesTileEnds == setup.sampling /\ setup.lane >= TileSize
TileEnds == [t \in 1 .. SmallBucket \div TileSize |-> t * TileSize]

-----------------------------------------------------------------------------
(* Program keys.  How a call samples is [path, penalties, logprobs].       *)

Plain(path) == [path |-> path, penalties |-> FALSE, logprobs |-> FALSE]

PathOf(request, sampling) ==
    IF sampling.path = "logits" THEN "logits"
    ELSE IF request.kind = "batched" THEN "topk" ELSE sampling.path

\* A short prompt on its own is sampled out of one tile, whose start is part of the key.
TileOf(call, request, path) ==
    LET row == call[request.rows[1]] IN
    IF path # "logits" /\ request.kind = "single" /\ Bucket(row) = SmallBucket
    THEN ((Uncached(row) - 1) \div TileSize) * TileSize ELSE Unset

KeysOf(call, request, sampling) ==
    LET path == PathOf(request, sampling) IN
    {[variant |-> request.kind, batch |-> request.padded, size |-> request.chunks[c].size,
      path |-> path, penalties |-> sampling.penalties, logprobs |-> sampling.logprobs,
      tile |-> TileOf(call, request, path)] : c \in 1 .. Len(request.chunks)}

\* Each row an eager wave fills is a program of its own.
RowsFilled(request) ==
    {<<request.padded, request.chunks[1].size, i>> : i \in 1 .. Len(request.rows)}

Requests(call) == ToSet(Planned(Policy, call))
Needed(call, sampling) == UNION {KeysOf(call, request, sampling) : request \in Requests(call)}

-----------------------------------------------------------------------------
(* The cases of the plan, in order.                                        *)

Paths(single) ==
    <<"logits">> \o (IF setup.sampling THEN <<"topk">> ELSE <<>>)
    \o (IF setup.sampling /\ setup.argmax /\ single THEN <<"argmax">> ELSE <<>>)

LoneRowFirst(length) ==
    IF length \in DOMAIN setup.waves THEN <<1, setup.waves[length]>> ELSE <<1>>
Batches(length) ==
    IF length \in DOMAIN setup.waves THEN <<setup.waves[length], 1>> ELSE <<1>>

CasesOf(batch, length, cached) ==
    [p \in 1 .. Len(Paths(batch = 1)) |->
        [batch |-> batch, length |-> length, cached |-> cached, sampling |-> Plain(Paths(batch = 1)[p])]]

\* Some uncached length of this bucket still fits beside a prefix of one block.
FitsCachedBelow(length) == Servable > BlockSize /\ length < PaddedLength(Servable - BlockSize)
FitsCached(length) == Servable > BlockSize /\ length <= PaddedLength(Servable - BlockSize)

CasesOfLength(length) ==
    FlattenSeq([b \in 1 .. Len(Batches(length)) |->
        IF Batches(length)[b] <= setup.lane THEN CasesOf(Batches(length)[b], length, 0) ELSE <<>>])
    \o (IF FitsCached(length) THEN CasesOf(1, length, BlockSize) ELSE <<>>)

\* The cases on these sampling paths, in order.
OnPaths(cases, paths) ==
    FlattenSeq([i \in 1 .. Len(cases) |-> IF cases[i].sampling.path \in paths THEN <<cases[i]>> ELSE <<>>])
Twins(cases, paths, field) ==
    LET taken == OnPaths(cases, paths)
    IN  cases \o [i \in 1 .. Len(taken) |-> [taken[i] EXCEPT !.sampling[field] = TRUE]]

PlannedCases ==
    LET lengths == InOrder(WarmLengths(setup))
        plain == FlattenSeq([l \in 1 .. Len(lengths) |-> CasesOfLength(lengths[l])])
        penalised == IF setup.sampling THEN Twins(plain, {"topk", "argmax"}, "penalties") ELSE plain
    IN  IF setup.logprobs THEN Twins(penalised, {"topk"}, "logprobs") ELSE penalised

\* Traced coverage starts with the forced top-k cases.
InWarmupOrder(trace) ==
    IF trace /\ setup.sampling
    THEN OnPaths(PlannedCases, {"topk"}) \o OnPaths(PlannedCases, {"logits", "argmax"})
    ELSE PlannedCases

UncachedLengths(case) ==
    IF /\ case.batch = 1 /\ case.length = SmallBucket /\ case.cached = 0
       /\ case.sampling.path \in {"argmax"} \cup (IF PrimesTileEnds THEN {"topk"} ELSE {})
    THEN TileEnds
    ELSE <<Least(case.length, Servable - case.cached)>>

-----------------------------------------------------------------------------
(* The steps of a warm-up call.                                            *)

WarmRow(slot, cached, uncached) ==
    [slot |-> slot, length |-> cached + uncached, cached |-> cached,
     table |-> [i \in 1 .. NumBlocks(cached + uncached) |-> 0]]

\* One compile_prefill: of all rows of the batch, with the same prompt.
CompileStep(batch, cached, uncached, sampling, traced) ==
    [does |-> "compile", call |-> [r \in 1 .. batch |-> WarmRow(r - 1, cached, uncached)],
     sampling |-> sampling, traced |-> traced]

StepsOfCase(case, trace) ==
    LET traced == trace /\ TracesLength(case.length)
        lengths == UncachedLengths(case)
    IN  IF case \in warmed[traced] THEN <<>>
        ELSE [i \in 1 .. Len(lengths) |->
                 CompileStep(case.batch, case.cached, lengths[i], case.sampling, traced)]
             \o <<[does |-> "warmed", case |-> case, traced |-> traced]>>

DefaultSteps(trace) ==
    LET cases == InWarmupOrder(trace)
    IN  FlattenSeq([i \in 1 .. Len(cases) |-> StepsOfCase(cases[i], trace)])
        \o <<[does |-> "capture"]>>

TopKSamplings ==
    LET sampled == <<Plain("topk"), [Plain("topk") EXCEPT !.penalties = TRUE]>>
    IN  IF setup.logprobs THEN sampled \o [i \in 1 .. 2 |-> [sampled[i] EXCEPT !.logprobs = TRUE]]
        ELSE sampled
\* The family's priming, which the default warm-up of a wide lane makes superfluous.
PrimingSteps(trace) ==
    LET traced == trace /\ TracesLength(SmallBucket)
    IN  IF \/ trace \in primed \/ ~setup.sampling \/ PrimesTileEnds
           \/ SmallBucket \notin WarmLengths(setup)
        THEN <<>>
        ELSE FlattenSeq([s \in 1 .. Len(TopKSamplings) |->
                 [t \in 1 .. Len(TileEnds) - 1 |-> CompileStep(1, 0, TileEnds[t], TopKSamplings[s], traced)]])
             \o <<[does |-> "primed", trace |-> trace]>>

PrefillSteps(trace) ==
    IF setup.primes = "before" \/ trace THEN PrimingSteps(trace) \o DefaultSteps(trace)
    ELSE DefaultSteps(trace) \o PrimingSteps(trace)

DecodeSteps(trace) ==
    (IF trace \in decode THEN <<>> ELSE <<[does |-> "decode", trace |-> trace]>>)
    \o <<[does |-> "capture"]>>

CoverageInit ==
    /\ setup \in {c \in Setups : CoversBuckets(c)}
    /\ script = setup.script /\ todo = <<>>
    /\ compiled = {} /\ aliased = {} /\ filled = {}
    /\ warmed = [traced \in BOOLEAN |-> {}] /\ primed = {} /\ decode = {}
    /\ decisions = [op \in {"prefill", "decode"} |-> Unset]
    /\ captured = FALSE /\ refused = FALSE /\ failures = 0

Call(op) ==
    /\ script # <<>> /\ todo = <<>> /\ script[1].op = op

\* A traced prefill withdraws an eager decision of decode.
CallPrefill ==
    LET trace == script[1].trace IN
    /\ Call("prefill")
    /\ decisions' = [decisions EXCEPT !["prefill"] = trace,
                                      !["decode"] = IF trace /\ @ = FALSE THEN Unset ELSE @]
    /\ todo' = PrefillSteps(trace)
    /\ UNCHANGED <<setup, script, registries, coverage, captured, refused, failures>>

CallDecode ==
    /\ Call("decode")
    /\ decisions' = [decisions EXCEPT !["decode"] = script[1].trace]
    /\ todo' = DecodeSteps(script[1].trace)
    /\ UNCHANGED <<setup, script, registries, coverage, captured, refused, failures>>

Does(what) == todo # <<>> /\ todo[1].does = what
Done ==
    /\ todo' = Tail(todo)
    /\ script' = IF Len(todo) = 1 THEN Tail(script) ELSE script

Fresh(step) == Needed(step.call, step.sampling) \ compiled
ToAlias(step) == IF step.traced THEN Needed(step.call, step.sampling) \ aliased ELSE {}
NewRows(step) ==
    UNION {RowsFilled(request) : request \in
              {q \in Requests(step.call) : KeysOf(step.call, q, step.sampling) \ compiled # {}}}
\* A traced compilation compiles the eager program too, and registers its trace.
Lacks(step) ==
    IF step.does = "decode" THEN step.trace \notin decode /\ (step.trace \/ decode = {})
    ELSE Fresh(step) # {} \/ ToAlias(step) # {}
\* The gate: a program that is there is returned as it is, another one is refused.
Gated(step) == captured /\ step.does \in {"compile", "decode"} /\ Lacks(step)

Compile ==
    /\ Does("compile") /\ ~Gated(todo[1])
    /\ compiled' = compiled \cup Fresh(todo[1])
    /\ filled' = filled \cup NewRows(todo[1])
    /\ aliased' = aliased \cup ToAlias(todo[1])
    /\ Done
    /\ UNCHANGED <<setup, coverage, decisions, captured, refused, failures>>

\* The caller repeats the call: a program that was compiled stays, with its trace or without.
CompileRaises ==
    /\ Does("compile") /\ Fresh(todo[1]) # {} /\ ~captured /\ failures < MaxFailures
    /\ \/ UNCHANGED registries
       \/ /\ compiled' = compiled \cup Fresh(todo[1])
          /\ filled' = filled \cup NewRows(todo[1])
          /\ todo[1].traced
          /\ UNCHANGED aliased
    /\ todo' = <<>>
    /\ failures' = failures + 1
    /\ UNCHANGED <<setup, script, coverage, decisions, captured, refused>>

WarmupRefused ==
    /\ todo # <<>> /\ Gated(todo[1])
    /\ refused' = TRUE /\ todo' = <<>> /\ script' = <<>>
    /\ UNCHANGED <<setup, registries, coverage, decisions, captured, failures>>

CaseDone ==
    /\ Does("warmed")
    /\ warmed' = [warmed EXCEPT ![todo[1].traced] = @ \cup {todo[1].case}]
    /\ Done
    /\ UNCHANGED <<setup, registries, primed, decode, decisions, captured, refused, failures>>

PrimingDone ==
    /\ Does("primed")
    /\ primed' = primed \cup {todo[1].trace}
    /\ Done
    /\ UNCHANGED <<setup, registries, warmed, decode, decisions, captured, refused, failures>>

CompileDecode ==
    /\ Does("decode") /\ ~Gated(todo[1])
    /\ decode' = decode \cup {todo[1].trace}
    /\ Done
    /\ UNCHANGED <<setup, registries, warmed, primed, decisions, captured, refused, failures>>

-----------------------------------------------------------------------------
(* _maybe_capture.                                                         *)

Required == ToSet(PlannedCases)
RequiredTraces ==
    IF PrefillTraced /\ decisions["prefill"] = TRUE
    THEN {case \in Required : TracesLength(case.length)} ELSE {}
CoveredByPrefill == decisions["prefill"] # Unset /\ Required \subseteq warmed[FALSE] \cup warmed[TRUE]
AllWarmed ==
    /\ decisions["prefill"] # Unset /\ decisions["decode"] # Unset
    /\ Required \subseteq warmed[FALSE] \cup warmed[TRUE] /\ decode # {}
TracesRegistered ==
    /\ RequiredTraces # {} \/ decisions["decode"] = TRUE
    /\ RequiredTraces \subseteq warmed[TRUE]
    /\ decisions["decode"] = TRUE => TRUE \in decode

MaybeCapture ==
    /\ Does("capture")
    /\ captured' = (captured \/ (AllWarmed /\ TracesRegistered))
    /\ Done
    /\ UNCHANGED <<setup, registries, coverage, decisions, refused, failures>>

CoverageNext ==
    \/ CallPrefill \/ CallDecode \/ Compile \/ CompileRaises \/ CompileDecode
    \/ WarmupRefused \/ CaseDone \/ PrimingDone \/ MaybeCapture

CoverageSpec == CoverageInit /\ [][CoverageNext]_vars

-----------------------------------------------------------------------------
(* What served calls need.                                                 *)

Samplings ==
    {Plain("logits")} \cup
    IF ~setup.sampling THEN {}
    ELSE {s \in [path : {"topk", "argmax"}, penalties : BOOLEAN, logprobs : BOOLEAN] :
             /\ s.path = "argmax" => setup.argmax /\ ~s.logprobs
             /\ s.logprobs => setup.logprobs}

Legal(call) == Len(call) <= setup.lane /\ Plannable(Policy, call)
\* _resolve_prefill_execution: one row whose geometry has no trace makes the call eager.
RunsTraced(call) ==
    PrefillTraced /\ decisions["prefill"] = TRUE
    /\ \A r \in 1 .. Len(call) : InvocationLength(call[r]) \in TraceLengths

\* Decode goes first, only decode is traced, and the family primes after the default warm-up,
\* which has captured by then.
PrimesTooLate == setup.script[1].op = "decode" /\ ~PrefillTraced /\ setup.primes = "around"

(* Once traces are active nothing compiles: whatever legal call comes, of  *)
(* any lengths, cached prefixes and sampling, every program it needs was   *)
(* compiled by warm-up, and has its trace when the call replays traces     *)
(* (require_compiled and _preflight_prefill would refuse it otherwise).    *)
ServedIsCompiled ==
    captured /\ ~PrimesTooLate => \A call \in Calls : Legal(call) =>
        \A sampling \in Samplings :
            Needed(call, sampling) \subseteq IF RunsTraced(call) THEN aliased ELSE compiled

(* An eager wave fills the cache row by row, each row with a program of    *)
(* its own that no key names: once traces are active every row that a      *)
(* served wave may fill was filled by warm-up (signatures.py, 20-31).      *)
RowsAreReady ==
    captured => \A call \in Calls : Legal(call) /\ ~RunsTraced(call) =>
        \A request \in Requests(call) : request.kind = "batched" => RowsFilled(request) \subseteq filled

(* Warm-up never meets the gate it closes: but for the exception above no  *)
(* call of warm-up, a repeated one after a failure included, is refused a  *)
(* program or a trace because an earlier call already captured.            *)
WarmupIsAccepted == refused => PrimesTooLate

(* The same without the exception: warm-up is accepted in either order     *)
(* (the docstring of WarmupCoordinator).                                   *)
EitherOrder == ~refused

=============================================================================

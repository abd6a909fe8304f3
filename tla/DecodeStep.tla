------------------------------ MODULE DecodeStep ------------------------------
(***************************************************************************)
(* What a decode step is run on (llm_runtime/decode.py, class              *)
(* DecodeRuntime: prepare, refresh_trace, note_submitted;                  *)
(* TraceCompiler.replay; TracedExecutor and EagerExecutor).                *)
(*                                                                         *)
(* The persistent inputs of the decode trace - tokens, positions, page     *)
(* table - stay on the device.  A sampled step writes its token back and   *)
(* advances the positions, so the next one may run without any copy from   *)
(* the host, whose own values are then stale.  Each step decides what is   *)
(* copied.  A step that runs on the wrong inputs writes the KV cache in    *)
(* the wrong place, so the cache is part of the state.                     *)
(*                                                                         *)
(* The scheduler is external: it admits, moves and finishes requests, and  *)
(* maps their blocks.  It talks one of two contracts: reset_batch, or the  *)
(* four commands of docs/vllm-decode.md.                                   *)
(***************************************************************************)
EXTENDS Integers, FiniteSets

CONSTANTS
    Slots,          \* rows of the lane's batch
    Requests,
    Asks,           \* the sampling parameters of each request
    Greedy,         \* the parameters whose rows take the argmax
    Blocks,         \* KV blocks a request may be given; block 0 is the page table's padding
    BlockSize,
    Width,          \* pages of a row of the page table
    MaxLength,      \* bound: tokens of a request
    None

ASSUME BlocksAssumption == Blocks \subseteq Nat \ {0} /\ IsFiniteSet(Blocks)
ASSUME SizesAssumption ==
    BlockSize \in Nat \ {0} /\ Width \in Nat \ {0} /\ MaxLength \in 2 .. Width * BlockSize
ASSUME AsksAssumption == DOMAIN Asks = Requests /\ None \notin Requests

Pages == 0 .. Width - 1
Identity == [s \in Slots |-> s]
Unmapped == [p \in Pages |-> 0]

NoToken == [of |-> None, at |-> 0]

VARIABLES
    contract,           \* "reset_batch" or "commands"
    request,            \* scheduler: the request of each slot
    waiting,            \* scheduler: requests not yet admitted
    fed,                \* scheduler: tokens of the slot's request in the cache
    mapping,            \* scheduler: the blocks of each slot
    remap,              \* scheduler: slot_remap of the next step
    since,              \* what happened since the last step
    lastStep,           \* scheduler: the last step, "none" or "eager" or its tail
    untold,             \* scheduler: what the next commands must tell the runtime
    previousPageTable,  \* _previous_page_table
    residentSampling,   \* _resident_sampling
    residentFeedback,   \* _resident_feedback
    submissionFailed,   \* _submission_failed
    seedActive,         \* active slots of the seed state
    replayed,           \* _previous_replay_keys: the last trace replayed
    inputs,             \* the persistent inputs on the device
    kpt,                \* the sampling inputs of the top-k trace
    kv,                 \* the KV cache; of blocks no request holds, nothing is remembered
    missampled          \* requests that have been sampled with parameters not theirs

schedulerVars == <<contract, request, waiting, fed, mapping, remap, since, lastStep, untold>>
runtimeVars == <<previousPageTable, residentSampling, residentFeedback, submissionFailed,
                 seedActive>>
deviceVars == <<replayed, inputs, kpt, kv, missampled>>
stepVars == <<schedulerVars, runtimeVars, deviceVars>>

Active == {s \in Slots : request[s] # None}
Commands == contract = "commands"

\* Inputs that are no request's: those of warmup, or half written.
UnsetInputs ==
    [tokens |-> [s \in Slots |-> NoToken], positions |-> [s \in Slots |-> 0],
     table |-> [s \in Slots |-> Unmapped]]

StepInit ==
    /\ contract \in {"reset_batch", "commands"}
    /\ request = [s \in Slots |-> None]
    /\ waiting = Requests
    /\ fed = [s \in Slots |-> 0]
    /\ mapping = [s \in Slots |-> Unmapped]
    /\ remap = Identity
    /\ since = "nothing"
    /\ lastStep = "none"
    /\ untold = {}
    /\ previousPageTable = None
    /\ residentSampling = None
    /\ residentFeedback = FALSE
    /\ submissionFailed = FALSE
    /\ seedActive = {}
    /\ replayed = "none"
    /\ inputs = UnsetInputs
    /\ kpt = [s \in Slots |-> None]
    /\ kv = [c \in Blocks \X (0 .. BlockSize - 1) |-> NoToken]
    /\ missampled = {}

-----------------------------------------------------------------------------
(* The scheduler.  It changes the batch between steps only. *)

Free == Blocks \ {mapping[s][p] : s \in Slots, p \in Pages}
NextBlock == CHOOSE b \in Free : TRUE

Mapped(s) == {p \in Pages : mapping[s][p] # 0}

\* A request gets a slot, and its prompt of one token is prefilled.
Admit(s, q) ==
    /\ request[s] = None /\ q \in waiting /\ Free # {}
    /\ ~submissionFailed
    /\ request' = [request EXCEPT ![s] = q]
    /\ waiting' = waiting \ {q}
    /\ fed' = [fed EXCEPT ![s] = 1]
    /\ mapping' = [mapping EXCEPT ![s] = [Unmapped EXCEPT ![0] = NextBlock]]
    /\ kv' = [kv EXCEPT ![<<NextBlock, 0>>] = [of |-> q, at |-> 0]]
    /\ since' = "batch"
    /\ untold' = {"table", "params", "members"}
    /\ UNCHANGED <<contract, remap, lastStep, runtimeVars, replayed, inputs, kpt, missampled>>

\* A prefill trace runs, for a request just admitted or one that ends with its first token.
Prefill ==
    /\ ~submissionFailed
    /\ replayed' = "prefill"
    /\ since' = IF since = "nothing" THEN "prefill" ELSE since
    /\ UNCHANGED <<contract, request, waiting, fed, mapping, remap, lastStep, untold,
                   runtimeVars, inputs, kpt, kv, missampled>>

Finish(s) ==
    /\ request[s] # None /\ ~submissionFailed
    /\ request' = [request EXCEPT ![s] = None]
    /\ fed' = [fed EXCEPT ![s] = 0]
    /\ mapping' = [mapping EXCEPT ![s] = Unmapped]
    /\ since' = "batch"
    /\ untold' = untold \cup {"table", "members"}
    /\ kv' = [cell \in DOMAIN kv |->
                 IF \E p \in Pages : mapping[s][p] = cell[1] THEN NoToken ELSE kv[cell]]
    /\ UNCHANGED <<contract, waiting, remap, lastStep, runtimeVars, replayed, inputs, kpt,
                   missampled>>

\* The block of the next position, or of the one after it.
Grow(s) ==
    LET page == Cardinality(Mapped(s)) IN
    /\ request[s] # None /\ Free # {} /\ ~submissionFailed
    /\ page \in Pages
    /\ page <= (fed[s] + 1) \div BlockSize
    /\ mapping' = [mapping EXCEPT ![s][page] = NextBlock]
    /\ untold' = untold \cup {"table"}
    /\ UNCHANGED <<contract, request, waiting, fed, remap, since, lastStep, runtimeVars,
                   deviceVars>>

\* The batch is compacted: the request of slot t continues in the free slot s.
Move(s, t) ==
    /\ request[s] = None /\ request[t] # None /\ ~submissionFailed
    /\ remap = Identity
    /\ request' = [request EXCEPT ![s] = request[t], ![t] = None]
    /\ fed' = [fed EXCEPT ![s] = fed[t], ![t] = 0]
    /\ mapping' = [mapping EXCEPT ![s] = mapping[t], ![t] = Unmapped]
    /\ remap' = [remap EXCEPT ![s] = t]
    /\ since' = "batch"
    /\ untold' = untold \cup {"table"}
    /\ UNCHANGED <<contract, waiting, lastStep, runtimeVars, deviceVars>>

\* What a decode call carries.  lag: the host has not seen the last token yet.
CallsWith(commands, resets) ==
    [traced : BOOLEAN, sampled : BOOLEAN, lag : resets, resetBatch : resets,
     reloadInputs : commands, reloadPageTable : commands,
     reloadSamplingParams : commands, resetSamplingState : commands]
ResetCalls == CallsWith({FALSE}, BOOLEAN)
CommandCalls == CallsWith(BOOLEAN, {FALSE})
Calls == IF Commands THEN CommandCalls ELSE ResetCalls

\* The tail that the requests themselves ask for.
AskedPath(c) ==
    IF ~c.sampled THEN "logits"
    ELSE IF \A s \in Active : Asks[request[s]] = Greedy THEN "argmax" ELSE "topk"

\* reset_batch: the host may be a step behind a step that continues the last one; it resets
\* after a change of the batch, and after an eager step, which the trace knows nothing of.
ResetContract(c) ==
    /\ c.lag => ~c.resetBatch /\ c.sampled /\ c.traced /\ lastStep = AskedPath(c)
                /\ since = "nothing"
    /\ since = "batch" \/ lastStep = "eager" => c.resetBatch

\* The four commands: whatever has changed since it was last told is told.
CommandContract(c) ==
    /\ since = "batch" => c.reloadInputs
    /\ ~c.reloadInputs /\ "table" \in untold => c.reloadPageTable
    /\ c.sampled /\ "params" \in untold => c.reloadSamplingParams
    /\ c.sampled /\ "members" \in untold => c.resetSamplingState

\* A decode call: every request has its next block and is short of the bound.
Called(c) ==
    /\ Active # {}
    /\ \A s \in Active : fed[s] < MaxLength /\ mapping[s][fed[s] \div BlockSize] # 0
    /\ IF Commands THEN CommandContract(c) ELSE ResetContract(c)

-----------------------------------------------------------------------------
(* prepare. *)

\* The slots with state after slot_remap: one that is only moved away from is cleared.
RemappedMask(mask) ==
    LET targets == {s \in Slots : remap[s] # s}
        cleared == {remap[s] : s \in targets} \ targets
    IN {s \in Slots \ cleared : remap[s] \in mask}

\* _remap_sampling_params, of the last sampled step's.
RemappedResident ==
    IF residentSampling = None \/ remap = Identity THEN residentSampling
    ELSE IF RemappedMask(residentSampling.mask) = {} THEN None
    ELSE [path |-> residentSampling.path,
          values |-> [s \in Slots |-> residentSampling.values[remap[s]]],
          mask |-> RemappedMask(residentSampling.mask)]

\* Parameters are taken from the call, or kept from the last sampled step.
TakesParams(c) == ~Commands \/ c.reloadSamplingParams \/ residentSampling = None

PreparedSampling(c) ==
    IF TakesParams(c)
    THEN [path |-> AskedPath(c), mask |-> Active,
          values |-> [s \in Slots |-> IF s \in Active THEN Asks[request[s]] ELSE None]]
    ELSE IF c.reloadInputs THEN [RemappedResident EXCEPT !.mask = Active] ELSE RemappedResident

\* sampling_path, and so the trace.
Path(c) == IF c.sampled THEN PreparedSampling(c).path ELSE "logits"

\* Mutant: the pages of the host's own position only.
CopiedPagesWithoutLag(c, position) == (position + BlockSize) \div BlockSize

\* The pages a row needs by the host's position; one more when the device may be a step ahead.
CopiedPages(c, position) ==
    LET used == (position + BlockSize) \div BlockSize
    IN IF c.sampled /\ position >= 0 /\ (position + 1) % BlockSize = 0
       THEN used + 1 ELSE used

Positions(c) ==
    [s \in Slots |-> IF s \notin Active THEN -1 ELSE IF c.lag THEN fed[s] - 1 ELSE fed[s]]

\* The page table of the step: cut to the pages needed, or the scheduler's whole mapping,
\* or the one of the last step.
PageTable(c) ==
    IF ~Commands
    THEN [s \in Slots |-> [p \in Pages |->
             IF p < CopiedPages(c, Positions(c)[s]) THEN mapping[s][p] ELSE 0]]
    ELSE IF c.reloadInputs \/ c.reloadPageTable THEN mapping ELSE previousPageTable

-----------------------------------------------------------------------------
(* Acceptance. *)

\* prepare: no inputs are resident unless the last submitted step fed back.
ResidentAllowed(c) ==
    Commands /\ ~c.reloadInputs =>
        /\ c.sampled /\ residentFeedback
        /\ remap = Identity

CommandsConsistent(c) ==
    Commands =>
        /\ ~(c.reloadInputs /\ c.reloadPageTable)
        /\ c.resetSamplingState => c.reloadInputs
        /\ c.reloadSamplingParams \/ c.resetSamplingState => c.sampled

\* prepare and _validate_sampling_v1: a change of members needs a reset.
SamplingConsistent(c) ==
    Commands /\ c.sampled =>
        /\ TakesParams(c) => c.reloadSamplingParams
        /\ ~TakesParams(c) =>
             /\ RemappedResident # None
             /\ c.reloadInputs /\ RemappedResident.mask # Active => c.resetSamplingState
        /\ ~c.resetSamplingState => RemappedMask(seedActive) = PreparedSampling(c).mask

\* The traces of the step are not those of the last one replayed.
Switched(c) == replayed # Path(c)

\* Everything is checked before the device or a slot's state is touched.
Accepted(c) ==
    /\ ~submissionFailed
    /\ ResidentAllowed(c)
    /\ CommandsConsistent(c)
    /\ SamplingConsistent(c)
    /\ Commands /\ ~c.reloadInputs => c.traced /\ ~Switched(c)

-----------------------------------------------------------------------------
(* The step. *)

\* RefreshDecision.full
Full(c) == IF Commands THEN c.reloadInputs ELSE c.resetBatch \/ Switched(c) \/ ~c.sampled

\* RefreshDecision.page_table
OnlyPageTable(c) ==
    IF Commands THEN c.reloadPageTable ELSE PageTable(c) # previousPageTable

HostInputs(c) ==
    [tokens |-> [s \in Slots |-> IF s \in Active
                                 THEN [of |-> request[s], at |-> Positions(c)[s]] ELSE NoToken],
     positions |-> Positions(c),
     table |-> PageTable(c)]

\* An eager step stages inputs of its own.
StagedInputs(c) ==
    IF Full(c) \/ ~c.traced THEN HostInputs(c)
    ELSE IF OnlyPageTable(c) THEN [inputs EXCEPT !.table = PageTable(c)]
    ELSE inputs

\* Mutant: only a command refreshes the sampling inputs of the trace.
StagedSamplingOnCommand(c) ==
    IF Path(c) = "topk" /\ TakesParams(c) THEN PreparedSampling(c).values ELSE kpt

\* Each trace with sampling inputs compares them with the parameters of the step.
StagedSampling(c) ==
    IF Path(c) = "topk" THEN PreparedSampling(c).values ELSE kpt

Running(in) == {s \in Slots : in.positions[s] >= 0}

\* Where a row writes the keys and values of its token.
Cell(in, s) ==
    LET page == in.positions[s] \div BlockSize
    IN <<IF page \in Pages THEN in.table[s][page] ELSE 0, in.positions[s] % BlockSize>>

CacheAfter(in) ==
    [cell \in DOMAIN kv |->
        LET writers == {s \in Running(in) : Cell(in, s) = cell}
        IN IF writers = {} \/ cell[1] \in Free THEN kv[cell] ELSE in.tokens[CHOOSE s \in writers : TRUE]]

\* The sampled tokens are copied over the tokens, the positions incremented.
FedBack(in) ==
    [in EXCEPT
        !.tokens = [s \in Slots |-> IF s \in Running(in)
                                    THEN [@[s] EXCEPT !.at = in.positions[s] + 1] ELSE @[s]],
        !.positions = [s \in Slots |-> IF s \in Running(in) THEN @[s] + 1 ELSE @[s]]]

\* An argmax row is sampled greedily; a top-k row with what its trace, or the eager step, has.
SampledWith(c, s) == IF Path(c) = "argmax" THEN Greedy ELSE StagedSampling(c)[s]

Missampled(c) ==
    IF ~c.sampled THEN missampled
    ELSE missampled \cup
         {request[s] : s \in {t \in Active : SampledWith(c, t) # Asks[request[t]]}}

\* _note_submitted: an eager step leaves nothing resident.
NoteSubmitted(c) ==
    /\ previousPageTable' = PageTable(c)
    /\ residentFeedback' = (c.traced /\ c.sampled)
    /\ residentSampling' = IF c.sampled THEN PreparedSampling(c)
                           ELSE IF Commands THEN RemappedResident ELSE residentSampling

\* _refresh_sampling_v1: the remap, then a reset.  The other contract's seed state is left to
\* the SeedManager.
RefreshSeeds(c) ==
    seedActive' = IF ~Commands THEN seedActive
                  ELSE IF c.resetSamplingState THEN PreparedSampling(c).mask
                  ELSE RemappedMask(seedActive)

\* What the scheduler makes of a step that returned.
StepDone(c) ==
    /\ fed' = [s \in Slots |-> IF s \in Active THEN fed[s] + 1 ELSE fed[s]]
    /\ remap' = Identity
    /\ since' = "nothing"
    /\ lastStep' = IF c.traced THEN Path(c) ELSE "eager"
    /\ untold' = untold \ (IF c.sampled THEN {"table", "params", "members"} ELSE {"table"})
    /\ UNCHANGED <<contract, request, waiting, mapping>>

\* decode_forward of the traced executor.
TracedStep(c) ==
    /\ c.traced
    /\ Called(c) /\ Accepted(c)
    /\ RefreshSeeds(c)
    /\ NoteSubmitted(c)
    /\ kpt' = StagedSampling(c)
    /\ inputs' = IF c.sampled THEN FedBack(StagedInputs(c)) ELSE StagedInputs(c)
    /\ kv' = CacheAfter(StagedInputs(c))
    /\ missampled' = Missampled(c)
    /\ replayed' = Path(c)
    /\ StepDone(c)
    /\ UNCHANGED submissionFailed

\* decode_forward of the eager executor.
EagerStep(c) ==
    /\ ~c.traced
    /\ Called(c) /\ Accepted(c)
    /\ RefreshSeeds(c)
    /\ NoteSubmitted(c)
    /\ kv' = CacheAfter(StagedInputs(c))
    /\ missampled' = Missampled(c)
    /\ StepDone(c)
    /\ UNCHANGED <<submissionFailed, kpt, inputs, replayed>>

\* A step raises after its refresh has begun.  The device's inputs are left half written,
\* and no step follows.
StepRaises(c) ==
    /\ Called(c) /\ Accepted(c)
    /\ submissionFailed' = TRUE
    /\ inputs' = IF c.traced THEN UnsetInputs ELSE inputs
    /\ UNCHANGED <<schedulerVars, previousPageTable, residentSampling, residentFeedback,
                   seedActive, replayed, kpt, kv, missampled>>

StepNext ==
    \/ \E s \in Slots, q \in Requests : Admit(s, q)
    \/ Prefill
    \/ \E s \in Slots : Finish(s) \/ Grow(s)
    \/ \E s, t \in Slots : Move(s, t)
    \/ \E c \in Calls : TracedStep(c) \/ EagerStep(c) \/ StepRaises(c)

StepSpec == StepInit /\ [][StepNext]_stepVars

-----------------------------------------------------------------------------
(* Properties. *)

\* Through any order of traced and eager steps, of tails, of admissions, moves and ends, and
\* with a host that may lag behind: the cache holds each request's tokens, each at its own
\* position of the request's own blocks.  A step on a stale token, position or page table
\* breaks it, and so does one that writes into the blocks of another request.
CacheHoldsRequests ==
    \A s \in Active : \A i \in 0 .. fed[s] - 1 :
        kv[<<mapping[s][i \div BlockSize], i % BlockSize>>] = [of |-> request[s], at |-> i]

\* A request is sampled with its own parameters, whichever slot it has moved to, whichever
\* trace runs the step, and whether or not the call uploaded them.
SampledAsAsked == missampled = {}

=============================================================================

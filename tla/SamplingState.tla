----------------------------- MODULE SamplingState -----------------------------
(***************************************************************************)
(* Sampling on the device for one lane: SamplingState1D                    *)
(* (modules/sampling/sampling_state_1d.py) as PrefillRuntime and           *)
(* DecodeRuntime (llm_runtime/prefill/runtime.py, llm_runtime/decode.py)   *)
(* drive it.                                                               *)
(*                                                                         *)
(* The lane has one buffer of device seeds, one of penalty parameters and  *)
(* one of token histories.  A decode step reads a slot's values in the     *)
(* slot's row; a prefill reads a request's values in the row the request   *)
(* has in the call, or in every row when it is alone.  So a prefill        *)
(* overwrites what the running requests need, and every decode step has to *)
(* put back what the last call, the moves of the batch and the ends of     *)
(* requests have left wrong.                                               *)
(*                                                                         *)
(* The scheduler is external.  It talks one of two contracts: reset_batch, *)
(* with equal seeds salted apart, or the commands of docs/vllm-decode.md,  *)
(* without salts.  It never changes what a request asks for.  A prompt has *)
(* one token: its position is 0, and the n-th token sampled for a request  *)
(* is the one after position n - 1.                                        *)
(***************************************************************************)
EXTENDS SeedManager, Sequences, SequencesExt

CONSTANTS
    Requests,
    Asks,           \* what each request asks for: seed, greedy, penalty and mode of logprobs
    Penalties,      \* repetition penalties, which need the prompt as well as the output
    MaxTokens       \* bound: tokens sampled for a request

Ask == [seed : Seeds \cup {None}, greedy : BOOLEAN, penalty : Penalties \cup {None},
        mode : {"none", "sampled_token", "top_n"}]

ASSUME AsksAssumption == Asks \in [Requests -> Ask] /\ None \notin Requests
ASSUME MaxTokensAssumption == MaxTokens \in Nat \ {0}

NoAsk == [seed |-> None, greedy |-> TRUE, penalty |-> None, mode |-> "none"]
NoHistory == [of |-> None, counted |-> 0]
Identity == [s \in Slots |-> s]

VARIABLES
    contract,   \* "reset_batch" or "commands"
    request,    \* scheduler: the request of each slot
    waiting,    \* scheduler: requests not yet prefilled
    generated,  \* scheduler: tokens sampled for the request of the slot
    remap,      \* scheduler: slot_remap of the next call
    changed,    \* scheduler: the batch has changed since the last step
    untold,     \* scheduler: what the next sampled step must be told
    lane,       \* SamplingState1DState and the buffers it stands for
    resident,   \* DecodeRuntime._resident_sampling
    feedback,   \* DecodeRuntime._resident_feedback
    drawn       \* what each request's last token was sampled with

schedulerVars == <<contract, request, waiting, generated, remap, changed, untold>>
samplingVars == <<schedulerVars, lane, resident, feedback, drawn>>

Active == {s \in Slots : request[s] # None}
Commands == contract = "commands"

\* ModelExecutorConfig.salt_duplicate_seeds: the servers of docs/vllm-decode.md turn it off.
Salting == ~Commands

SeedsOf(p) == [s \in Slots |-> p.ask[s].seed]

\* logprob_modes of the active rows, in the order of the slots.
Modes(p) ==
    [i \in 1 .. Cardinality(p.mask) |->
        p.ask[CHOOSE s \in p.mask : Cardinality({t \in p.mask : t < s}) = i - 1].mode]

\* row_paths and sampling_path, for a sampler that allows argmax.
PathOf(mask, ask) ==
    IF \A s \in mask : ask[s].greedy /\ ask[s].mode = "none" THEN "argmax" ELSE "topk"

PenaltiesEnabled(p) == \E s \in p.mask : p.ask[s].penalty # None

\* static_identity
IdentityOf(p) ==
    [path |-> p.path, penalties |-> PenaltiesEnabled(p), modes |-> Modes(p)]

-----------------------------------------------------------------------------
(* The controller: an operation is the set of lanes it may return, empty where it raises. *)

\* _write_penalty_params
ParamsOf(p) == [s \in Slots |-> IF s \in p.mask THEN p.ask[s].penalty ELSE None]

\* update_output_tokens, on every row.
Counted(history) ==
    [s \in Slots |-> IF history[s] = NoHistory THEN NoHistory
                     ELSE [history[s] EXCEPT !.counted = @ + 1]]

\* _synchronize_penalties_and_identity, with the histories of the host.
Rebuilt(l, p) ==
    [l EXCEPT !.params = ParamsOf(p), !.history = p.told, !.mask = p.mask,
              !.identity = IdentityOf(p), !.valid = TRUE]

\* A prefill writes its own rows over the history of whoever survives it.
HistoryValidAfterPrefill(p, survivors) == ~PenaltiesEnabled(p) /\ survivors = {}

\* Mutant: the seeds of a prefill are written where its requests will decode.
PrefillRowsInSlots(table, slots) == RowsOf(table, Range(slots))

\* refresh_prefill_replicated for one request, refresh_prefill_request_ordered for more.
PrefillRows(table, slots) ==
    [s \in Slots |->
        IF Len(slots) = 1 THEN table[slots[1]].current
        ELSE IF s < Len(slots) THEN table[slots[s + 1]].current ELSE None]

\* _broadcast_prefill_prepared: what row s of a prefill holds of its requests' values.
InPrefillRow(values, default, s) ==
    IF Len(values) = 1 THEN values[1] ELSE IF s < Len(values) THEN values[s + 1] ELSE default

\* admit_prefill: slots[i] is the slot of the i-th request, who[i].
AdmitPrefill(l, slots, who, moves) ==
    LET moved == Remapped(l.seeds, moves)
        members == Range(slots)
        survivors == Live(moved) \ members
        rank == [s \in members |-> CHOOSE i \in DOMAIN slots : slots[i] = s]
        ask == [s \in Slots |-> IF s \in members THEN Asks[who[rank[s]]] ELSE NoAsk]
        placed == [mask |-> members, ask |-> ask, path |-> PathOf(members, ask)]
        asks == [i \in DOMAIN who |-> Asks[who[i]].penalty]
        histories == [i \in DOMAIN who |-> [of |-> who[i], counted |-> 0]]
        positions == [s \in Slots |-> 0]
        lanes(admitted) ==
            LET table == IF placed.path = "topk" THEN Advanced(admitted, members, positions)
                         ELSE admitted
            IN [seeds |-> table,
                rows |-> IF placed.path = "topk" THEN PrefillRows(table, slots) ELSE DefaultRows,
                params |-> [s \in Slots |-> InPrefillRow(asks, None, s)],
                history |-> [s \in Slots |-> InPrefillRow(histories, NoHistory, s)],
                identity |-> IdentityOf(placed),
                valid |-> HistoryValidAfterPrefill(placed, survivors),
                mask |-> Live(table)]
    IN IF ~ValidRemap(moves) THEN {}
       ELSE {lanes(admitted) : admitted \in Admitted(moved, rank, SeedsOf(placed), Salting)}

\* prefill_forward after the sampling: the first token is counted.
PrefillCounted(l) ==
    IF l.identity.penalties THEN [l EXCEPT !.history = Counted(@), !.valid = FALSE] ELSE l

\* apply_slot_remap of the controller: new members may come with a remap.
ApplySlotRemap(l, p, moves) ==
    LET moved == Remapped(l.seeds, moves)
        new == {s \in p.mask : ~moved[s].active}
        refused == \/ ~ValidRemap(moves)
                   \/ \E s \in p.mask \ new : moved[s].seed # p.ask[s].seed
                   \/ new # {} /\ new = p.mask
    IN IF refused THEN {}
       ELSE {Rebuilt([l EXCEPT !.seeds = synced], p) : synced \in
                UNION {Synchronized(admitted, p.mask, SeedsOf(p), FALSE, Salting) :
                       admitted \in Admitted(moved, [s \in new |-> s], SeedsOf(p), Salting)}}

\* synchronize_decode
SynchronizeDecode(l, p, moves, reset) ==
    IF ~l.valid /\ ~reset THEN {}
    ELSE LET starts == IF moves = Identity THEN {l} ELSE ApplySlotRemap(l, p, moves)
         IN {IF reset THEN Rebuilt([m[1] EXCEPT !.seeds = m[2]], p)
             ELSE [m[1] EXCEPT !.seeds = m[2], !.mask = p.mask, !.identity = IdentityOf(p),
                               !.params = ParamsOf(p)] :
             m \in UNION {{k} \X Synchronized(k.seeds, p.mask, SeedsOf(p), reset, Salting) :
                          k \in {k \in starts : k.identity # None \/ reset}}}

\* refresh_dynamic_inputs
RefreshDynamicInputs(l, p, positions) ==
    LET table == IF p.path = "topk" THEN Advanced(l.seeds, p.mask, positions) ELSE l.seeds
    IN [l EXCEPT !.seeds = table, !.params = ParamsOf(p), !.mask = p.mask,
                 !.rows = IF p.path = "topk" THEN RowsOf(table, p.mask) ELSE DefaultRows]

\* Mutant: the histories stay where they are.
RemapLeavingHistories(l, moves) ==
    LET moved == Remapped(l.seeds, moves)
    IN IF moves = Identity THEN l
       ELSE [l EXCEPT !.seeds = moved, !.mask = Live(moved), !.rows = CurrentRows(moved),
                      !.params = [s \in Slots |-> @[moves[s]]]]

\* remap_slots: every buffer moves, whether or not this step samples on the device.
RemapSlots(l, moves) ==
    LET vacated == Sources(moves) \ Targets(moves)
        moved == Remapped(l.seeds, moves)
    IN IF moves = Identity THEN l
       ELSE [l EXCEPT !.seeds = moved, !.mask = Live(moved), !.rows = CurrentRows(moved),
                      !.params = [s \in Slots |-> @[moves[s]]],
                      !.history = [s \in Slots |-> IF s \in vacated THEN NoHistory
                                                   ELSE @[moves[s]]]]

\* Mutant: the penalties that the lane has are kept.
ResetKeepingParams(l, p, reload) ==
    {[Rebuilt(l, p) EXCEPT !.seeds = table, !.params = l.params] :
     table \in DecodeReset(l.seeds, p.mask, SeedsOf(p), Salting)}

\* reset_decode_state
ResetDecodeState(l, p, reload) ==
    {[Rebuilt(l, p) EXCEPT !.seeds = table, !.params = IF reload THEN @ ELSE l.params] :
     table \in DecodeReset(l.seeds, p.mask, SeedsOf(p), Salting)}

\* reload_request_seeds and configure_decode
ConfigureDecode(l, p, reload) ==
    IF reload
    THEN {[l EXCEPT !.seeds = table, !.params = ParamsOf(p), !.identity = IdentityOf(p)] :
          table \in Reloaded(l.seeds, p.mask, SeedsOf(p), Salting)}
    ELSE {l}

-----------------------------------------------------------------------------
(* The scheduler. *)

NoDraw == [nth |-> 0, path |-> "none", seed |-> None, penalty |-> None, history |-> NoHistory]

\* create_state
FreshLane ==
    [seeds |-> [s \in Slots |-> EmptyStream], rows |-> DefaultRows, params |-> DefaultRows,
     history |-> [s \in Slots |-> NoHistory], identity |-> None, valid |-> TRUE, mask |-> {}]

SamplingInit ==
    /\ contract \in {"reset_batch", "commands"}
    /\ request = [s \in Slots |-> None]
    /\ waiting = Requests
    /\ generated = [s \in Slots |-> 0]
    /\ remap = Identity
    /\ changed = TRUE
    /\ untold = {"params", "members"}
    /\ lane = FreshLane
    /\ resident = None
    /\ feedback = FALSE
    /\ drawn = [q \in Requests |-> NoDraw]

\* What row `row` of the lane gives a request.
Observed(l, row, nth, path) ==
    [nth |-> nth, path |-> path, seed |-> l.rows[row], penalty |-> l.params[row],
     history |-> l.history[row]]

\* A prefill of requests that get free slots, in the order of the call.  It carries a remap
\* that no step has carried yet.
Prefill(slots, who) ==
    /\ \A i \in DOMAIN slots : request[slots[i]] = None /\ who[i] \in waiting
    /\ \E l \in AdmitPrefill(lane, slots, who, remap) :
         /\ lane' = PrefillCounted(l)
         /\ drawn' = [q \in Requests |->
                        IF q \in Range(who)
                        THEN LET i == CHOOSE j \in DOMAIN who : who[j] = q
                             IN Observed(l, i - 1, 1, l.identity.path)
                        ELSE drawn[q]]
    /\ request' = [s \in Slots |->
                     IF s \in Range(slots) THEN who[CHOOSE i \in DOMAIN slots : slots[i] = s]
                     ELSE request[s]]
    /\ generated' = [s \in Slots |-> IF s \in Range(slots) THEN 1 ELSE generated[s]]
    /\ waiting' = waiting \ Range(who)
    /\ remap' = Identity
    /\ changed' = TRUE
    /\ untold' = {"params", "members"}
    /\ UNCHANGED <<contract, resident, feedback>>

\* A prefill that raises after its admission: its requests keep waiting, their streams stay.
PrefillRaises(slots, who) ==
    /\ \A i \in DOMAIN slots : request[slots[i]] = None /\ who[i] \in waiting
    /\ lane' \in AdmitPrefill(lane, slots, who, remap)
    /\ remap' = Identity
    /\ changed' = TRUE
    /\ untold' = {"params", "members"}
    /\ UNCHANGED <<contract, request, waiting, generated, resident, feedback, drawn>>

Finish(s) ==
    /\ request[s] # None
    /\ request' = [request EXCEPT ![s] = None]
    /\ generated' = [generated EXCEPT ![s] = 0]
    /\ changed' = TRUE
    /\ untold' = untold \cup {"members"}
    /\ UNCHANGED <<contract, waiting, remap, lane, resident, feedback, drawn>>

\* The batch is reordered: slot s takes what slot t had, and t what s had, or nothing.
Reorder(s, t) ==
    /\ s # t /\ remap = Identity /\ request[t] # None
    /\ request' = [request EXCEPT ![s] = request[t], ![t] = request[s]]
    /\ generated' = [generated EXCEPT ![s] = generated[t], ![t] = generated[s]]
    /\ remap' = [remap EXCEPT ![s] = t, ![t] = IF request[s] = None THEN t ELSE s]
    /\ changed' = TRUE
    /\ UNCHANGED <<contract, waiting, untold, lane, resident, feedback, drawn>>

-----------------------------------------------------------------------------
(* A step that is sampled on the device. *)

Calls == [reloadInputs : BOOLEAN, reloadParams : BOOLEAN, reset : BOOLEAN]

\* What the scheduler sends: whatever has changed since it was last told, and more if it likes.
Called(c) ==
    /\ Active # {} /\ \A s \in Active : generated[s] < MaxTokens
    /\ "members" \in untold => c.reset
    /\ IF Commands
       THEN /\ changed => c.reloadInputs
            /\ "params" \in untold => c.reloadParams
            /\ c.reset => c.reloadInputs
       ELSE c.reloadInputs /\ c.reloadParams /\ (changed => c.reset)

HostHistory ==
    [s \in Slots |-> IF request[s] = None THEN NoHistory
                     ELSE [of |-> request[s], counted |-> generated[s]]]

\* _remap_sampling_params; no active row is left: None.
RemappedResident ==
    LET mask == {s \in Slots \ (Sources(remap) \ Targets(remap)) : remap[s] \in resident.mask}
    IN IF resident = None \/ remap = Identity THEN resident
       ELSE IF mask = {} THEN None
       ELSE [mask |-> mask, ask |-> [s \in Slots |-> resident.ask[remap[s]]],
             path |-> resident.path]

TakesParams(c) == ~Commands \/ c.reloadParams \/ resident = None

\* prepare: the parameters of the call, or those of the last sampled step.
Prepared(c) ==
    LET ask == [s \in Slots |-> IF s \in Active THEN Asks[request[s]] ELSE NoAsk]
        kept == RemappedResident
    IN IF TakesParams(c)
       THEN [mask |-> Active, ask |-> ask, path |-> PathOf(Active, ask), told |-> HostHistory]
       ELSE [mask |-> IF c.reloadInputs THEN Active ELSE kept.mask, ask |-> kept.ask,
             path |-> kept.path, told |-> HostHistory]

\* prepare, before anything is touched.
PrepareAccepts(c) ==
    /\ ~c.reloadInputs => feedback /\ remap = Identity
    /\ ~TakesParams(c) =>
         /\ RemappedResident # None
         /\ c.reset \/ Prepared(c).mask = RemappedResident.mask

\* _validate_sampling_v1.  Where the seeds are the lane's too, its membership is that of seeds.
CommandsAccepted(c) ==
    LET p == Prepared(c) IN
    /\ resident # None \/ c.reloadParams
    /\ ValidRemap(remap)
    /\ ~c.reset =>
         /\ Live(Remapped(lane.seeds, remap)) = p.mask
         /\ lane.identity # None /\ lane.valid
         /\ IF c.reloadParams
            THEN /\ PenaltiesEnabled(p) => lane.identity.penalties
                 /\ \A s \in p.mask : lane.params[remap[s]] = None => p.ask[s].penalty = None
            ELSE IdentityOf(p) = lane.identity

Positions == [s \in Slots |-> generated[s]]
Unpositioned == [s \in Slots |-> None]

\* _refresh_sampling_v1
RefreshCommands(c, p) ==
    LET moved == RemapSlots(lane, remap)
        told == IF c.reset THEN ResetDecodeState(moved, p, c.reloadParams)
                ELSE ConfigureDecode(moved, p, c.reloadParams)
        positions == IF c.reloadInputs THEN Positions ELSE Unpositioned
        refreshed(l) ==
            LET table == Advanced(l.seeds, p.mask, positions)
            IN IF p.path = "topk" THEN [l EXCEPT !.seeds = table, !.rows = RowsOf(table, p.mask)]
               ELSE IF c.reset \/ c.reloadParams THEN [l EXCEPT !.rows = DefaultRows]
               ELSE l
    IN {refreshed(l) : l \in told}

\* _refresh_sampling_seeds
RefreshReset(c, p) ==
    {RefreshDynamicInputs(l, p, Positions) : l \in SynchronizeDecode(lane, p, remap, c.reset)}

\* The step is sampled, and its tokens counted.
SampledStep(c) ==
    LET p == Prepared(c) IN
    /\ Called(c)
    /\ PrepareAccepts(c)
    /\ Commands => CommandsAccepted(c)
    /\ \E l \in (IF Commands THEN RefreshCommands(c, p) ELSE RefreshReset(c, p)) :
         /\ lane' = IF PenaltiesEnabled(p) THEN [l EXCEPT !.history = Counted(@)] ELSE l
         /\ drawn' = [q \in Requests |->
                        IF \E s \in Active : request[s] = q
                        THEN LET s == CHOOSE t \in Active : request[t] = q
                             IN Observed(l, s, generated[s] + 1, p.path)
                        ELSE drawn[q]]
    /\ resident' = [mask |-> p.mask, ask |-> p.ask, path |-> p.path]
    /\ feedback' = TRUE
    /\ generated' = [s \in Slots |-> IF s \in Active THEN generated[s] + 1 ELSE generated[s]]
    /\ remap' = Identity
    /\ changed' = FALSE
    /\ untold' = {}
    /\ UNCHANGED <<contract, request, waiting>>

\* A step that the host samples.  Its token is in no history of the device, so the next sampled
\* step is told to reset.  Only the commands carry a remap with it.
HostStep ==
    /\ Active # {} /\ \A s \in Active : generated[s] < MaxTokens
    /\ ValidRemap(remap)
    /\ Commands \/ remap = Identity
    /\ lane' = IF Commands THEN RemapSlots(lane, remap) ELSE [lane EXCEPT !.rows = DefaultRows]
    /\ resident' = IF Commands THEN RemappedResident ELSE resident
    /\ feedback' = FALSE
    /\ generated' = [s \in Slots |-> IF s \in Active THEN generated[s] + 1 ELSE generated[s]]
    /\ remap' = Identity
    /\ changed' = FALSE
    /\ untold' = untold \cup {"members"}
    /\ UNCHANGED <<contract, request, waiting, drawn>>

Batches(S) == {b \in UNION {[1 .. n -> S] : n \in 1 .. 2} : IsInjective(b)}

SamplingNext ==
    \/ \E slots \in Batches(Slots), who \in Batches(Requests) :
         Len(slots) = Len(who) /\ (Prefill(slots, who) \/ PrefillRaises(slots, who))
    \/ \E s \in Slots : Finish(s)
    \/ \E s, t \in Slots : Reorder(s, t)
    \/ \E c \in Calls : SampledStep(c)
    \/ HostStep

SamplingSpec == SamplingInit /\ [][SamplingNext]_samplingVars

-----------------------------------------------------------------------------
(* Properties. *)

Twinned == SaltsApart(lane.seeds)

\* Requests that ask for the same seed at the same time are given streams that differ, through
\* any admissions, failed admissions, moves, ends and resets: where seeds are salted, no two
\* live slots have the same seed and the same salt.
SaltsDistinct == Salting => Twinned

\* Whatever slot a request is in, whoever runs beside it or ran there before, and however the
\* step was refreshed: the n-th token of a request with a seed is drawn with that seed and the
\* counter n.  Without salting nothing else is in the draw.
DrawsAreOwn ==
    \A q \in Requests :
        drawn[q].path = "topk" /\ Asks[q].seed # None =>
            /\ drawn[q].seed # None
            /\ drawn[q].seed.seed = Asks[q].seed
            /\ drawn[q].seed.counter = drawn[q].nth
            /\ ~Salting => drawn[q].seed.salt = 0

\* A token is sampled with the penalty of its own request, although prefills overwrite the
\* penalties of the whole lane and moves leave them in other rows.
PenaltiesAreOwn == \A q \in Requests : drawn[q].nth > 0 => drawn[q].penalty = Asks[q].penalty

\* A penalty is applied to the request's own prompt and to all its tokens so far, each once.
HistoryIsOwn ==
    \A q \in Requests :
        drawn[q].nth > 0 /\ Asks[q].penalty # None =>
            drawn[q].history = [of |-> q, counted |-> drawn[q].nth - 1]

=============================================================================

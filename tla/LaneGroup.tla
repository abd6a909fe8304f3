------------------------------- MODULE LaneGroup -------------------------------
(***************************************************************************)
(* A group of lanes that serves: llm_runtime/lane_group.py splits a call   *)
(* over its lanes by slot, converts slots, request-owned state and remaps  *)
(* to each lane, runs the lanes in order and puts the rows back.  Which    *)
(* execution a prefill gets is the choice of the vllm_generator.py of a    *)
(* model.  Warmup, which this module extends, is how the group got its     *)
(* programs and traces.                                                    *)
(*                                                                         *)
(* A row-scoped value is a sequence; a token, a row of parameters and a    *)
(* slot's sampling state (seed stream and histories) are the request they  *)
(* belong to.  Every forward samples on the device: one that samples on    *)
(* the host carries no sampling state.  Slots count from 0.                *)
(***************************************************************************)
EXTENDS Warmup, FiniteSets, Functions
LOCAL INSTANCE SequencesExt

CONSTANTS
    Capacity,       \* per_lane_max_batch_size
    Requests,
    LongPrompts,    \* the requests whose bucket has no trace
    None

\* A scenario also bounds the forwards of its caller, which warms up the path it serves.
ASSUME GroupAssumption ==
    /\ Capacity \in Nat \ {0}
    /\ IsFiniteSet(Requests) /\ LongPrompts \subseteq Requests /\ None \notin Requests
    /\ \A r \in Requests : \E c \in Cases :
          c.op = "prefill" /\ c.path = (IF r \in LongPrompts THEN "long" ELSE "topk")
    /\ \E c \in Cases : c.op = "decode" /\ c.path = "topk"
    /\ \A s \in Scenarios :
          /\ s.forwards \in Nat
          /\ s.forwards > 0 /\ s.kind # "late" => \A i \in DOMAIN s.calls : s.calls[i].sample

VARIABLES
    placed,         \* the scheduler's batch: the request in each slot of the group
    state,          \* of each lane: the request whose sampling state a slot holds
    given,          \* the arguments of the last forward that returned: a history variable
    answer,         \* what it returned
    refused,        \* a forward met a program or a trace that is not there
    forwards

serveVars == <<placed, state, given, answer, refused, forwards>>
groupVars == <<warmupVars, serveVars>>

MaxBatchSize == LaneCount * Capacity
Slots == 0 .. MaxBatchSize - 1
LocalSlots == 0 .. Capacity - 1
LaneOf(slot) == slot \div Capacity + 1
Running == {placed[s] : s \in Slots} \ {None}

GroupInit ==
    /\ WarmupInit
    /\ placed = [s \in Slots |-> None]
    /\ state = [l \in Lanes |-> [s \in LocalSlots |-> None]]
    /\ given = [op |-> "none"]
    /\ answer = <<>>
    /\ refused = FALSE
    /\ forwards = 0

-----------------------------------------------------------------------------
(* Rows. *)

SliceRows(value, rows) == [i \in DOMAIN rows |-> value[rows[i]]]

\* _prefill_lane_groups: the rows of a lane in source order, and their slots in the lane.
RowsIn(slots, l) == {i \in DOMAIN slots : LaneOf(slots[i]) = l}
Rank(rows, i) == Cardinality({k \in rows : k <= i})
NthRow(rows, n) == CHOOSE i \in rows : Rank(rows, i) = n
RowsOf(slots, l) == [n \in 1 .. Cardinality(RowsIn(slots, l)) |-> NthRow(RowsIn(slots, l), n)]
LocalOf(slots, l) == [i \in DOMAIN RowsOf(slots, l) |-> slots[RowsOf(slots, l)[i]] % Capacity]
Participants(slots) == {LaneOf(slots[i]) : i \in DOMAIN slots}

\* Mutant: state of full width is taken for one row per request as well.
SlicedByRow(value, slots, l) == SliceRows(value, RowsOf(slots, l))

\* _slice_prefill_request_state: a value as wide as the group is indexed by slot, a single
\* row is shared, any other value has the rows of the call.
Sliced(value, slots, l) ==
    CASE Len(value) = 1 -> [i \in DOMAIN RowsOf(slots, l) |-> value[1]]
      [] Len(value) # 1 /\ Len(value) = MaxBatchSize ->
            [i \in DOMAIN RowsOf(slots, l) |-> value[slots[RowsOf(slots, l)[i]] + 1]]
      [] OTHER -> SliceRows(value, RowsOf(slots, l))

\* _place_prefill_request_state puts it into the lane's slots, and the lane reads it there.
Admitted(held, value, slots, l) ==
    LET local == LocalOf(slots, l)
    IN  [s \in LocalSlots |->
            IF \E i \in DOMAIN local : local[i] = s
            THEN Sliced(value, slots, l)[CHOOSE i \in DOMAIN local : local[i] = s]
            ELSE held[s]]

\* _slice_lane_slot_remap: a remap as wide as a lane is the lane's own, one as wide as the
\* group is rebased.
LaneRemap(value, l) ==
    IF Len(value) = Capacity THEN [s \in LocalSlots |-> value[s + 1]]
    ELSE [s \in LocalSlots |-> value[(l - 1) * Capacity + s + 1] - (l - 1) * Capacity]

\* Mutant: the rows of the lanes are concatenated, as those of a decode step are.
InLaneOrder(outputs, slots) ==
    FlattenSeq([l \in Lanes |-> IF l \in Participants(slots) THEN outputs[l] ELSE <<>>])

\* _aggregate_prefill_outputs: output[rows] = lane_output.
InSourceOrder(outputs, slots) ==
    [i \in 1 .. Len(slots) |->
        LET l == LaneOf(slots[i])
        IN  outputs[l][CHOOSE j \in DOMAIN RowsOf(slots, l) : RowsOf(slots, l)[j] = i]]

-----------------------------------------------------------------------------
(* Which execution a call gets, and whether every lane can run it. *)

CaseOf(op, path) == CHOOSE c \in Cases : c.op = op /\ c.path = path
PrefillCase(r) == CaseOf("prefill", IF r \in LongPrompts THEN "long" ELSE "topk")
CasesIn(rows, slots, l) == {PrefillCase(rows[i]) : i \in {j \in DOMAIN rows : LaneOf(slots[j]) = l}}

\* Mutant: the first participating lane answers for the group.
FirstCanTrace(rows, slots) ==
    LET first == CHOOSE l \in Participants(slots) : \A m \in Participants(slots) : l <= m
    IN  \A c \in CasesIn(rows, slots, first) : c.traced /\ "prefill" \in TraceEnabled

\* can_trace_prefill: every participating lane can.
CanTrace(rows, slots) ==
    \A l \in Participants(slots) : \A c \in CasesIn(rows, slots, l) :
        c.traced /\ "prefill" \in TraceEnabled

\* A lane replays what it has captured; it runs a program it has, or compiles it while its
\* gate is open; it loads the sampling buffers unless it has captured.
Runs(l, cases, traced) ==
    /\ lane[l].buffers \/ ~lane[l].captured
    /\ \A c \in cases :
          IF traced THEN lane[l].captured /\ c \in lane[l].plans
          ELSE ~lane[l].captured \/ c \in lane[l].programs

\* What a run leaves in a lane that has not captured.
Ran(l, cases) ==
    IF lane[l].captured THEN lane[l] ELSE [lane[l] EXCEPT !.programs = @ \cup cases, !.buffers = TRUE]

-----------------------------------------------------------------------------
(* Forwards.  The group is called by one thread; how a forward that raises leaves the lanes
   does not matter, since they are released. *)

Serving == script = <<>> /\ stage = "idle" /\ ~terminal /\ Grouped /\ forwards < scenario.forwards

Serves ==
    /\ forwards' = forwards + 1
    /\ UNCHANGED <<scenario, script, stage, turn, deferred, terminal, failures, refused>>

\* _run_guarded: a call that raises cleans the group up.
Fails ==
    /\ forwards' = forwards + 1
    /\ terminal' = TRUE
    /\ UNCHANGED <<scenario, script, stage, turn, lane, deferred, placed, state, given, answer>>

\* The value of a row-scoped argument: a row per request of the call, or one per slot of the
\* group.  A call of as many rows as the group has slots is told by slot.
Supplied(form, rows, batch) ==
    IF form = "rows" THEN rows ELSE [i \in 1 .. MaxBatchSize |-> batch[i - 1]]

PrefillForward(rows, slots, form, wanted) ==
    LET traced == wanted /\ CanTrace(rows, slots)
        batch == [s \in Slots |-> IF \E i \in DOMAIN slots : slots[i] = s
                                    THEN rows[CHOOSE i \in DOMAIN slots : slots[i] = s] ELSE placed[s]]
        value == Supplied(form, rows, batch)
        outputs == [l \in Participants(slots) |->
                      [i \in DOMAIN RowsOf(slots, l) |->
                         [tokens |-> SliceRows(rows, RowsOf(slots, l))[i],
                          params |-> SliceRows(rows, RowsOf(slots, l))[i],
                          state |-> Admitted(state[l], value, slots, l)[LocalOf(slots, l)[i]]]]]
    IN  /\ Serving
        /\ \A l \in Participants(slots) : Runs(l, CasesIn(rows, slots, l), traced)
        /\ lane' = [l \in Lanes |->
                      IF l \in Participants(slots) THEN Ran(l, CasesIn(rows, slots, l)) ELSE lane[l]]
        /\ placed' = batch
        /\ state' = [l \in Lanes |->
                       IF l \in Participants(slots) THEN Admitted(state[l], value, slots, l) ELSE state[l]]
        /\ given' = [op |-> "prefill", rows |-> rows, slots |-> slots]
        /\ answer' = InSourceOrder(outputs, slots)
        /\ Serves

\* A lane has no program or no trace for its rows, before any lane wrote or after some did.
PrefillRefused(rows, slots, wanted) ==
    LET traced == wanted /\ CanTrace(rows, slots)
    IN  /\ Serving
        /\ \E l \in Participants(slots) : ~Runs(l, CasesIn(rows, slots, l), traced)
        /\ refused' = TRUE
        /\ Fails
        /\ UNCHANGED failures

\* Rows start at slot 0 of every lane and stay in it; the rows of the lanes are concatenated.
DecodeForward(remap, form, traced) ==
    LET value == IF form = "lane" THEN [i \in 1 .. Capacity |-> remap[i - 1]]
                                  ELSE [i \in 1 .. MaxBatchSize |-> remap[i - 1]]
        moved == [s \in Slots |-> placed[remap[s]]]
        local(l) == LaneRemap(value, l)
        case == CaseOf("decode", "topk")
        held == [l \in Lanes |-> [s \in LocalSlots |-> state[l][local(l)[s]]]]
        row(l, s) == LET r == moved[(l - 1) * Capacity + s]
                     IN  [tokens |-> r, params |-> r, state |-> IF r = None THEN None ELSE held[l][s]]
    IN  /\ Serving
        /\ \A l \in Lanes : Runs(l, {case}, traced)
        /\ lane' = [l \in Lanes |-> Ran(l, {case})]
        /\ placed' = moved
        /\ state' = held
        /\ given' = [op |-> "decode", remap |-> remap]
        /\ answer' = [i \in 1 .. MaxBatchSize |-> row(LaneOf(i - 1), (i - 1) % Capacity)]
        /\ Serves

DecodeRefused(traced) ==
    /\ Serving
    /\ \E l \in Lanes : ~Runs(l, {CaseOf("decode", "topk")}, traced)
    /\ refused' = TRUE
    /\ Fails
    /\ UNCHANGED failures

\* A device operation of a forward raises in some lane.
ForwardRaises ==
    /\ Serving
    /\ CountFailure
    /\ Fails
    /\ UNCHANGED refused

-----------------------------------------------------------------------------
(* The caller: the scheduler of vLLM. *)

\* Injective sequences: rows of a call, and the slots they go to.
Arrangements(S) == UNION {{f \in [1 .. n -> S] : IsInjective(f)} : n \in 1 .. Cardinality(Requests)}

Prefill ==
    \E rows \in Arrangements(Requests \ Running), slots \in Arrangements({s \in Slots : placed[s] = None}) :
        /\ Len(slots) = Len(rows)
        /\ \E wanted \in (IF "prefill" \in TraceEnabled THEN BOOLEAN ELSE {FALSE}) :
              \/ \E form \in {"rows", "slots"} :
                    /\ form = "rows" => Len(rows) # MaxBatchSize
                    /\ PrefillForward(rows, slots, form, wanted)
              \/ PrefillRefused(rows, slots, wanted)

\* Requests change places within their lane.
LaneOrders == {p \in [LocalSlots -> LocalSlots] : IsInjective(p)}
Reordered(p) == [s \in Slots |-> (LaneOf(s) - 1) * Capacity + p[LaneOf(s)][s % Capacity]]
Remaps == {Reordered(p) : p \in [Lanes -> LaneOrders]}
\* A remap that is the same in every lane may be given once.
Shared(m) == \A s \in Slots : m[s] = (LaneOf(s) - 1) * Capacity + m[s % Capacity]

\* Every lane has a request: a sampled step raises in a lane without one.
Decode ==
    /\ \A l \in Lanes : \E s \in Slots : LaneOf(s) = l /\ placed[s] # None
    /\ \E traced \in (IF "decode" \in TraceEnabled THEN BOOLEAN ELSE {FALSE}) :
          \/ \E m \in Remaps, form \in {"group", "lane"} :
                /\ form = "lane" => Shared(m)
                /\ DecodeForward(m, form, traced)
          \/ DecodeRefused(traced)

\* The scheduler drops a request; the lanes are not told.
Finish ==
    /\ Serving
    /\ \E s \in Slots : placed[s] # None /\ placed' = [placed EXCEPT ![s] = None]
    /\ UNCHANGED <<warmupVars, state, given, answer, refused, forwards>>

GroupNext ==
    \/ WarmupNext /\ UNCHANGED serveVars
    \/ Prefill
    \/ Decode
    \/ ForwardRaises
    \/ Finish

\* The caller's thread runs on while it warms up.
GroupSpec == GroupInit /\ [][GroupNext]_groupVars /\ WF_groupVars(WarmupNext /\ UNCHANGED serveVars)

-----------------------------------------------------------------------------
(* Properties. *)

\* The request whose sampling state the lane holds for each request of the batch.
HeldState == [s \in Slots |-> IF placed[s] = None THEN None ELSE state[LaneOf(s)][s % Capacity]]
Batch == INSTANCE OneBatch WITH batch <- HeldState, broken <- terminal

\* The group is one executor of all the slots: through prefills of any rows in any slots,
\* remaps in either form, steps and ends, each row is run with the tokens, the parameters
\* and the sampling state of one request, which goes where the call puts the request and
\* nowhere else, and whichever lanes the rows of a call went to, the n-th row of the answer
\* is that of the n-th row given.
GroupIsOneBatch == Batch!BatchSpec

\* After the phased warmup every call is served, whichever of its rows share a lane: traced
\* where all of its lanes hold the trace, and eagerly otherwise, with programs warmup compiled.
WarmedGroupServes == refused => scenario.kind = "late"

=============================================================================

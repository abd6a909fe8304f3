-------------------------------- MODULE Prefill --------------------------------
(***************************************************************************)
(* Prefill calls of one lane: PrefillRuntime, its sequence runner, trace   *)
(* lifecycle and result collector (llm_runtime/prefill), as EagerExecutor  *)
(* and TracedExecutor (llm_runtime/execution.py) drive them.               *)
(*                                                                         *)
(* A call is planned once (PrefillPlan).  An eager call runs all its       *)
(* requests and then reads all the results.  A traced call first checks    *)
(* that every request has a captured trace, and reads each result before   *)
(* it replays the next request: one trace has one output buffer.           *)
(*                                                                         *)
(* The paged cache is modelled by the block of which prompt each block     *)
(* holds.  The scheduler is external: it gives prompts free slots and the  *)
(* lowest free blocks, shares the blocks of a common prefix, also with an  *)
(* earlier row of the same call, and never clears a row of its page table. *)
(* It drops the prompts of a call that raised.  What a free block holds is *)
(* forgotten when blocks are given out.  Faults are device calls that      *)
(* raise.                                                                  *)
(***************************************************************************)
EXTENDS PrefillPlan

CONSTANTS
    Prompts, LengthOf,          \* the prompts and their tokens
    FamilyOf, SharedLength,     \* prompts of a family begin with the same tokens
    Configs,                    \* the policy for waves, whether traces are asked for, and the
                                \* trace keys a warmup has captured
    Traceable,                  \* invocation lengths can_enable_trace accepts
    MaxFaults,                  \* bound: device calls that raise
    None

ASSUME PromptsAssumption ==
    /\ LengthOf \in [Prompts -> 1 .. MaxLength] /\ FamilyOf \in [Prompts -> STRING]
    /\ SharedLength \in Nat /\ SharedLength % BlockSize = 0 /\ MaxFaults \in Nat
    /\ None \notin Prompts

\* The keys of traces, and the configurations the constructors accept.
Keys == {"single", "chunked", "batched"} \X (BatchSizes \cup {1}) \X Traceable
ASSUME ConfigsAssumption ==
    \A c \in Configs :
        /\ c.captured \subseteq Keys
        /\ c.policy.kind = "fixed" =>
            \A b \in DOMAIN c.policy.waves : c.policy.waves[b] \in BatchSizes

Blocks == 0 .. PhysicalBlocks - 1
Slots == 0 .. MaxBatch - 1
Mixed == -1     \* position tensors of which only some have been copied
NoCall == [rows |-> <<>>, plan |-> <<>>, mode |-> "eager"]

VARIABLES
    config,     \* one of Configs
    waiting,    \* scheduler: prompts not yet prefilled
    running,    \* scheduler: the prompt of each slot
    tables,     \* scheduler: its page table, a row per slot
    call,       \* the rows, the plan and the mode of the call under way
    phase,      \* "idle", "admitting", "submitted", "running" or "closed"
    at,         \* <<request, chunk>> to run next
    pending,    \* results produced and not read: the request and what it shows
    tokens,     \* rows read so far and the token each got
    wrote,      \* this call has written the cache
    cache,      \* what each block holds
    workspace,  \* per trace key: the positions, their signature, the output buffer
    failed,     \* TraceCompiler._replay_failed
    live,       \* requests of the call whose transients are allocated
    orphans,    \* those of them whose release failed
    lost,       \* transients neither released nor retained when a call ended
    faults

schedulerVars == <<waiting, running, tables>>
callVars == <<call, phase, at, pending, tokens, wrote>>
deviceVars == <<cache, workspace, failed>>
transientVars == <<live, orphans, lost>>
prefillVars == <<config, schedulerVars, callVars, deviceVars, transientVars, faults>>

Junk == <<"junk", 0>>
Wrong == "wrong"

\* A key is <<kind, padded rows, chunk size>>; capture leaves the positions of a full chunk.
NoOutput(key) == [i \in 1 .. key[2] |-> Wrong]
FreshWorkspace(key) == [position |-> key[3] - 1, signature |-> key[3] - 1, output |-> NoOutput(key)]

\* What block i of a prompt holds once it is computed: prompts of a family share the first ones.
BlockOf(q, i) ==
    IF i * BlockSize <= SharedLength THEN <<FamilyOf[q], i>> ELSE <<q, i>>

Traced == call.mode = "traced"
Request == call.plan[at[1]]
Chunk == Request.chunks[at[2]]
IsLastChunk == at[2] = Len(Request.chunks)
PromptAt(r) == running[call.rows[r].slot]

\* build_trace_signature, up to what tells two traces of one lane apart.
KeyOf(request) == <<request.kind, request.padded, request.chunks[1].size>>

\* The position of the last token in the chunk that holds it.
LastPosition(request) ==
    LET row == call.rows[request.rows[1]]
        last == Last(request.chunks)
    IN  (row.length - 1 - last.start) % last.size

-----------------------------------------------------------------------------
(* The scheduler.                                                          *)

Busy == {s \in Slots : running[s] # None}
Free == Slots \ Busy
LowestSlot == CHOOSE s \in Free : \A t \in Free : s <= t

BlocksOf(s) == {tables[s][i] : i \in 1 .. NumBlocks(LengthOf[running[s]])}
Used == UNION {BlocksOf(s) : s \in Busy}
Unused == Blocks \ Used

\* A prefix is cached when a request holds it, one admitted to this call before included.
Holders(q) ==
    {s \in Busy : /\ FamilyOf[running[s]] = FamilyOf[q]
                  /\ SharedLength \in 1 .. LengthOf[running[s]] /\ SharedLength < LengthOf[q]}
CachedLength(q) == IF Holders(q) = {} THEN 0 ELSE SharedLength

NewTable(q, slot) ==
    LET first == NumBlocks(CachedLength(q))
        holder == CHOOSE s \in Holders(q) : TRUE
    IN  [i \in 1 .. RawWidth |-> IF i <= first THEN tables[holder][i]
                                ELSE IF i <= NumBlocks(LengthOf[q]) THEN InOrder(Unused)[i - first]
                                ELSE tables[slot][i]]

\* The rows of a call are admitted one by one.
Admit(q) ==
    /\ phase \in {"idle", "admitting"}
    /\ q \in waiting /\ Free # {}
    /\ NumBlocks(LengthOf[q]) - NumBlocks(CachedLength(q)) <= Cardinality(Unused)
    /\ waiting' = waiting \ {q}
    /\ \E slot \in {LowestSlot} : \E table \in {NewTable(q, slot)} :
        /\ running' = [running EXCEPT ![slot] = q]
        /\ tables' = [tables EXCEPT ![slot] = table]
        /\ call' = [call EXCEPT !.rows = Append(@, [slot |-> slot, length |-> LengthOf[q],
                                                   cached |-> CachedLength(q), table |-> table])]
    /\ phase' = "admitting"
    /\ cache' = [b \in Blocks |-> IF b \in Used THEN cache[b] ELSE Junk]
    /\ UNCHANGED <<config, at, pending, tokens, wrote, workspace, failed, transientVars, faults>>

CanTrace(rows) == \A r \in 1 .. Len(rows) : InvocationLength(rows[r]) \in Traceable

Submit ==
    /\ phase = "admitting"
    /\ call' = [call EXCEPT !.mode = IF config.tracing /\ CanTrace(call.rows) THEN "traced" ELSE "eager"]
    /\ phase' = "submitted"
    /\ UNCHANGED <<config, schedulerVars, at, pending, tokens, wrote, deviceVars, transientVars, faults>>

Finish(s) ==
    /\ phase = "idle" /\ running[s] # None
    /\ running' = [running EXCEPT ![s] = None]
    /\ UNCHANGED <<config, waiting, tables, callVars, deviceVars, transientVars, faults>>

-----------------------------------------------------------------------------
(* How a call ends.                                                        *)

\* The call is over: transients that are still live and nobody retains are lost.
Ended ==
    /\ phase' = "idle"
    /\ call' = NoCall
    /\ at' = <<1, 1>> /\ pending' = <<>> /\ tokens' = <<>> /\ wrote' = FALSE

LeavesBehind(remaining, retained) ==
    /\ live' = retained
    /\ orphans' = retained
    /\ lost' = lost \cup (remaining \ retained)

Raises ==
    /\ Ended
    /\ running' = [s \in Slots |->
                    IF \E r \in 1 .. Len(call.rows) : call.rows[r].slot = s THEN None ELSE running[s]]
    /\ UNCHANGED <<config, waiting, tables>>

Fault(n) == faults + n <= MaxFaults /\ faults' = faults + n

\* _release_or_retain_transient of one request, when the call goes on to raise.
ReleasedOrRetained(mine, others, spent) ==
    \/ Fault(spent) /\ LeavesBehind(others, orphans)
    \/ Fault(spent + 1) /\ LeavesBehind(others \cup mine, orphans \cup mine)

-----------------------------------------------------------------------------
(* Planning, and the preflight of a traced call.                           *)

Covered(request) ==
    request.chunks[1].size \in Traceable /\ KeyOf(request) \in config.captured

OnlyTheFirst(plan) == Covered(plan[1])
Preflighted(plan) == \A i \in 1 .. Len(plan) : Covered(plan[i])

Prepare ==
    /\ phase = "submitted"
    /\ orphans = {}
    /\ Plannable(config.policy, call.rows)
    /\ \E plan \in {Planned(config.policy, call.rows)} :
        /\ Traced => Preflighted(plan)
        /\ call' = [call EXCEPT !.plan = plan]
    /\ phase' = "running"
    /\ UNCHANGED <<config, schedulerVars, at, pending, tokens, wrote, deviceVars, transientVars, faults>>

\* _ensure_usable, the planner's ValueErrors, and TraceCoverageError.
Refused ==
    /\ phase = "submitted"
    /\ \/ orphans # {}
       \/ ~Plannable(config.policy, call.rows)
       \/ Traced /\ ~Preflighted(Planned(config.policy, call.rows))
    /\ Raises
    /\ UNCHANGED <<deviceVars, transientVars, faults>>

-----------------------------------------------------------------------------
(* Running the requests.                                                   *)

\* The entries a chunk is written through: the padded rows of a wave are all Skip.
Entries ==
    LET chunk == Chunk IN
    {e \in (1 .. Len(chunk.fill)) \X (1 .. NumBlocks(chunk.size)) :
        e[2] <= Len(chunk.fill[e[1]]) /\ chunk.fill[e[1]][e[2]] # Skip}

\* Attention reads the blocks before the chunk through the whole table of the request.
HasContext ==
    Request.kind # "chunked" \/
        \A i \in 1 .. Chunk.start \div BlockSize :
            cache[Request.context[i]] = BlockOf(PromptAt(Request.rows[1]), i)

Content(ready, i, j) ==
    LET block == Chunk.start \div BlockSize + j
        row == Request.rows[i]
    IN  IF ~ready \/ i > Len(Request.rows) THEN Junk
        ELSE IF block > NumBlocks(call.rows[row].length) THEN Junk
        ELSE BlockOf(PromptAt(row), block)

Filled ==
    LET chunk == Chunk
        entries == Entries
        ready == HasContext
        Reaching(b) == {e \in entries : chunk.fill[e[1]][e[2]] = b}
    IN  [b \in Blocks |->
            IF Reaching(b) = {} THEN cache[b]
            ELSE LET e == CHOOSE e \in Reaching(b) : TRUE IN Content(ready, e[1], e[2])]

\* A token per padded row: the rows of a wave have positions of their own, given by the host.
ShownAt(position) ==
    LET right == HasContext /\ (Request.kind = "batched" \/ position = LastPosition(Request))
    IN  [i \in 1 .. Request.padded |->
            IF i <= Len(Request.rows) /\ right THEN PromptAt(Request.rows[i]) ELSE Wrong]

Runnable == phase = "running" /\ at[1] <= Len(call.plan)

\* The generator of a traced call runs the next request when the collector asks for it.
AllBeforeReading == TRUE
OneAtATime == Traced => pending = <<>>

Advanced(result) ==
    IF IsLastChunk
    THEN at' = <<at[1] + 1, 1>> /\ pending' = Append(pending, result)
    ELSE at' = <<at[1], at[2] + 1>> /\ UNCHANGED pending

RunEager ==
    /\ Runnable /\ ~Traced
    /\ cache' = Filled
    /\ wrote' = TRUE
    /\ Advanced([request |-> at[1], shown |-> ShownAt(LastPosition(Request))])
    /\ live' = live \cup {at[1]}
    /\ UNCHANGED <<config, schedulerVars, call, phase, tokens, workspace, failed, orphans, lost, faults>>

\* Before or after the chunk has run: the runner releases what the request has.
EagerRaises ==
    /\ Runnable /\ ~Traced
    /\ cache' \in {cache, Filled}
    /\ ReleasedOrRetained({at[1]}, live \ {at[1]}, 1)
    /\ Raises
    /\ UNCHANGED <<workspace, failed>>

Stale == workspace[KeyOf(Request)].signature # LastPosition(Request)
Refreshed ==
    [workspace EXCEPT ![KeyOf(Request)] =
        IF Stale THEN [@ EXCEPT !.position = LastPosition(Request), !.signature = LastPosition(Request)]
        ELSE @]
\* finish_trace runs after the last chunk, and samples into the buffer of the workspace.
Sampled ==
    [Refreshed EXCEPT ![KeyOf(Request)].output = ShownAt(Refreshed[KeyOf(Request)].position)]

Replay ==
    /\ Runnable /\ Traced /\ OneAtATime /\ ~failed
    /\ Covered(Request)
    /\ workspace' = IF IsLastChunk THEN Sampled ELSE Refreshed
    /\ cache' = Filled
    /\ wrote' = TRUE
    /\ Advanced([request |-> at[1], shown |-> <<>>])
    /\ live' = IF IsLastChunk THEN live \cup {at[1]} ELSE live
    /\ UNCHANGED <<config, schedulerVars, call, phase, tokens, failed, orphans, lost, faults>>

\* A refresh that stops between its copies: nothing replays on this compiler any more.
ReplayRaises ==
    /\ Runnable /\ Traced /\ OneAtATime /\ ~failed
    /\ Fault(1)
    /\ failed' = TRUE
    /\ workspace' \in {workspace, Refreshed} \cup
            (IF Stale THEN {[workspace EXCEPT ![KeyOf(Request)].position = Mixed]} ELSE {})
    /\ LeavesBehind(live, orphans)
    /\ Raises
    /\ UNCHANGED cache

ReplayRefused ==
    /\ Runnable /\ Traced /\ OneAtATime
    /\ failed \/ ~Covered(Request)
    /\ LeavesBehind(live, orphans)
    /\ Raises
    /\ UNCHANGED <<deviceVars, faults>>

\* finish_trace keeps the tensors it has made in a list of its own.
FinishRaises ==
    /\ Runnable /\ Traced /\ OneAtATime /\ ~failed /\ IsLastChunk
    /\ Fault(1)
    /\ workspace' = Refreshed
    /\ cache' = Filled
    /\ LeavesBehind(live \cup {at[1]}, orphans)
    /\ Raises
    /\ UNCHANGED failed

-----------------------------------------------------------------------------
(* PrefillResultAssembler.assemble.                                        *)

Collecting == phase = "running" /\ pending # <<>> /\ (Traced \/ ~Runnable)
Result == Head(pending)
ResultKey == KeyOf(call.plan[Result.request])
Value == IF Traced THEN workspace[ResultKey].output ELSE Result.shown
\* What is read is forgotten: the next replay of the trace writes the buffer again.
Collect ==
    LET rows == call.plan[Result.request].rows IN
    /\ Collecting
    /\ tokens' = tokens \o [i \in 1 .. Len(rows) |-> <<rows[i], Value[i]>>]
    /\ pending' = Tail(pending)
    /\ live' = live \ {Result.request}
    /\ workspace' = IF Traced THEN [workspace EXCEPT ![ResultKey].output = NoOutput(ResultKey)]
                    ELSE workspace
    /\ UNCHANGED <<config, schedulerVars, call, phase, at, wrote, cache, failed, orphans, lost, faults>>

\* The read raises, or the release after it does.
CollectRaises ==
    /\ Collecting
    /\ \/ ReleasedOrRetained({Result.request}, live \ {Result.request}, 1)
       \/ Fault(1) /\ LeavesBehind(live, orphans \cup {Result.request})
    /\ Raises
    /\ UNCHANGED deviceVars

Complete == phase = "running" /\ ~Runnable /\ pending = <<>>
Return ==
    /\ Complete
    /\ Ended
    /\ LeavesBehind(live, orphans)
    /\ UNCHANGED <<config, schedulerVars, deviceVars, faults>>

\* PrefillRuntime.cleanup, which the executor's cleanup calls and may call again.
Cleanup ==
    /\ phase \in {"idle", "closed"} /\ orphans # {}
    /\ \/ orphans' = {} /\ UNCHANGED faults
       \/ UNCHANGED orphans /\ Fault(1)
    /\ live' = orphans'
    /\ phase' = "closed"
    /\ UNCHANGED <<config, schedulerVars, call, at, pending, tokens, wrote, deviceVars, lost>>

-----------------------------------------------------------------------------

PrefillInit ==
    /\ config \in Configs
    /\ waiting = Prompts
    /\ running = [s \in Slots |-> None]
    /\ tables = [s \in Slots |-> [i \in 1 .. RawWidth |-> 0]]
    /\ call = NoCall /\ phase = "idle"
    /\ at = <<1, 1>> /\ pending = <<>> /\ tokens = <<>> /\ wrote = FALSE
    /\ cache = [b \in Blocks |-> Junk]
    /\ workspace = [k \in Keys |-> FreshWorkspace(k)]
    /\ failed = FALSE
    /\ live = {} /\ orphans = {} /\ lost = {}
    /\ faults = 0

Step ==
    \/ Prepare \/ Refused
    \/ RunEager \/ EagerRaises
    \/ Replay \/ ReplayRaises \/ ReplayRefused \/ FinishRaises
    \/ Collect \/ CollectRaises \/ Return

PrefillNext ==
    \/ \E q \in Prompts : Admit(q)
    \/ Submit
    \/ \E s \in Slots : Finish(s)
    \/ Step
    \/ Cleanup

PrefillSpec == PrefillInit /\ [][PrefillNext]_prefillVars

-----------------------------------------------------------------------------

Prefilled(s) ==
    /\ running[s] # None
    /\ \A r \in 1 .. Len(call.rows) :
        call.rows[r].slot = s =>
            phase = "running" /\ \E i \in 1 .. at[1] - 1 : r \in ToSet(call.plan[i].rows)

(* Every block of every prefilled prompt holds what that prompt put there: neither the padding of *)
(* another row, nor the stale end of a row of the page table, nor a shared prefix that is written *)
(* again, reaches it (plan.py, the -1 sentinel; attention_1d.py, _kv_fill_prefill_paged).         *)
CacheHoldsPrompts ==
    \A s \in Slots : Prefilled(s) =>
        \A i \in 1 .. NumBlocks(LengthOf[running[s]]) :
            cache[tables[s][i]] = BlockOf(running[s], i)

(* When a chunk runs, the blocks before it hold the tokens before it, also when an earlier row of *)
(* the same call computes them: the sequential rows keep their source order (plan.py).            *)
ContextIsPresent == Runnable => HasContext

(* A call returns, for every row that had something to compute, the token of its own prompt, once, *)
(* at its source row, although traces share output buffers and skip copies of positions they have  *)
(* (result_collector.py, trace.py).                                                                *)
ResultsAreOwn ==
    Complete =>
        \A r \in Working(call.rows) :
            \E i \in 1 .. Len(tokens) :
                /\ tokens[i] = <<r, PromptAt(r)>>
                /\ \A j \in 1 .. Len(tokens) : tokens[j][1] = r => j = i

(* A traced call that no device failure meets writes the cache for all of its rows or for none    *)
(* (execution.py, preflight_prefill).                                                             *)
AllOrNothing ==
    [][Traced /\ phase = "running" /\ wrote /\ ~failed /\ phase' = "idle" /\ UNCHANGED faults
        => Complete]_prefillVars

(* The planner accepts every call of prompts the model serves: the canonical table is wide enough *)
(* for the padded end of the last chunk (config.py, PageTableLayout.resolve; plan.py).            *)
LegalCallsArePlanned == phase = "submitted" => Plannable(config.policy, call.rows)

=============================================================================

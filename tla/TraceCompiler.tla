---------------------------- MODULE TraceCompiler ----------------------------
(***************************************************************************)
(* Trace registration, capture, replay and release for one lane            *)
(* (llm_runtime/trace_compiler.py, class TraceCompiler), composed with the *)
(* lane's ProgramCompiler.                                                 *)
(*                                                                         *)
(* A lane is driven by one host thread, so between the start of            *)
(* capture_all and its return no other public operation of the lane runs:  *)
(* stage says how far capture_all has come, and every other action needs   *)
(* stage "idle".  capture_all is split where a callback or a device call   *)
(* may raise, since that is where its rollback may start.                  *)
(*                                                                         *)
(* device is what is really allocated on the device, kept apart from the   *)
(* registries the code keeps about it.  One element stands for one trace   *)
(* id, or for one tensor tree: the persistent inputs or the outputs of a   *)
(* trace, or the postprocess workspace of a program.                       *)
(***************************************************************************)
EXTENDS ProgramCompiler, Naturals

CONSTANTS
    Keys, NoKey,    \* trace keys, of program-facing traces and of bodies alike
    Plans,          \* the capture plans the executors may register
    Ids, NoId,      \* Python object ids a workspace may get
    MaxFaults       \* bound: release passes in which the device refuses something

ASSUME KeysAssumption == NoKey \notin Keys
ASSUME IdsAssumption == NoId \notin Ids
ASSUME FaultsAssumption == MaxFaults \in Nat

\* workspace: the plan prepares a postprocess workspace.  feeds: the tail writes the
\* next tokens and positions into its body's inputs.  Only decode plans name a body.
ASSUME PlansAssumption ==
    /\ Plans \subseteq [program : Programs, trace : Keys, body : Keys \cup {NoKey},
                        operation : {"prefill", "decode"}, workspace : BOOLEAN,
                        feeds : BOOLEAN]
    /\ \A plan \in Plans : plan.body # NoKey =>
                             plan.operation = "decode" /\ plan.body # plan.trace
    /\ \A p, q \in Plans : p.trace = q.trace => p.feeds = q.feeds

VARIABLES
    registered,     \* _traces, _plans, _program_to_trace, _aliases, _bodies, _body_for_trace
    stage,          \* "idle" when capture_all is not running (_capture_in_progress)
    prepared,       \* keys whose inputs are in capture_all's prepared or body_inputs,
                    \* and not yet owned by an artifact
    recording,      \* the record between begin_trace_capture and end_trace_capture
    artifact,       \* TraceRecord.artifact: "none", "live", or "released" (trace_released)
    holds,          \* tensors of an artifact not in its deallocated_tensor_ids
    orphans,        \* _rollback_orphans: keys whose persistent inputs remain
    workspace,      \* TraceAliasRecord.workspace, by the id of the object
    freedIds,       \* TraceAliasRecord.deallocated_tensor_ids
    activated,      \* _activated
    tracesReleased, \* _released
    replayFailed,   \* _replay_failed
    previous,       \* _previous_replay_keys
    resident,       \* the body whose inputs hold the next step's tokens and positions
    device,         \* what is allocated on the device
    faults          \* release passes in which the device refused something

captureVars == <<registered, stage, prepared, recording, tracesReleased>>
resourceVars == <<artifact, holds, orphans, workspace, freedIds, device, faults>>
replayVars == <<replayFailed, previous, resident>>
traceVars == <<captureVars, resourceVars, replayVars, activated>>
vars == <<programVars, traceVars>>

Stages == {"idle", "prepare", "capture"}
Parts == {"in", "out"}
KeyResources == {"trace", "in", "out"} \X Keys
Resources == KeyResources \cup ({"workspace"} \X Programs)

TypeOK ==
    /\ ProgramTypeOK
    /\ registered \subseteq Plans
    /\ stage \in Stages
    /\ prepared \subseteq Keys
    /\ recording \in Keys \cup {NoKey}
    /\ artifact \in [Keys -> {"none", "live", "released"}]
    /\ holds \in [Keys -> SUBSET Parts]
    /\ orphans \subseteq Keys
    /\ workspace \in [Programs -> Ids \cup {NoId}]
    /\ freedIds \in [Programs -> SUBSET Ids]
    /\ activated \in BOOLEAN
    /\ tracesReleased \in BOOLEAN
    /\ replayFailed \in BOOLEAN
    /\ previous \in [body : Keys \cup {NoKey}, tail : Keys \cup {NoKey}]
    /\ resident \in Keys \cup {NoKey}
    /\ device \subseteq Resources
    /\ faults \in Nat

TraceInit ==
    /\ registered = {}
    /\ stage = "idle"
    /\ prepared = {}
    /\ recording = NoKey
    /\ artifact = [k \in Keys |-> "none"]
    /\ holds = [k \in Keys |-> {}]
    /\ orphans = {}
    /\ workspace = [p \in Programs |-> NoId]
    /\ freedIds = [p \in Programs |-> {}]
    /\ activated = FALSE
    /\ tracesReleased = FALSE
    /\ replayFailed = FALSE
    /\ previous = [body |-> NoKey, tail |-> NoKey]
    /\ resident = NoKey
    /\ device = {}
    /\ faults = 0

Init == ProgramInit /\ TraceInit

-----------------------------------------------------------------------------
(* The registry. *)

Traces == {plan.trace : plan \in registered}
Bodies == {plan.body : plan \in registered} \ {NoKey}

\* The checks of register_capture_plan, after the two on its own state.
Consistent(plan) ==
    /\ plan.program \in programs
    /\ \A q \in registered :
         /\ q.program = plan.program => q.trace = plan.trace /\ q.workspace = plan.workspace
         /\ q.trace = plan.trace => q.operation = plan.operation /\ q.body = plan.body
    /\ plan.body \notin Traces
    /\ plan.trace \notin Bodies

\* register_capture_plan(plan): called by TracedExecutor.compile_* once the program of
\* the plan is compiled.
RegisterCapturePlan(plan) ==
    /\ stage = "idle"
    /\ ~tracesReleased
    /\ ~activated
    /\ ~programsReleased
    /\ Consistent(plan)
    /\ registered' = registered \cup {plan}
    /\ UNCHANGED <<programVars, stage, prepared, recording, tracesReleased, resourceVars,
                   replayVars, activated>>

-----------------------------------------------------------------------------
(* Releasing what the lane owns.  stuck is the part of the device's        *)
(* resources whose release fails in one pass.                              *)

Refusals(resources) == IF faults < MaxFaults THEN SUBSET resources ELSE {{}}

CountFault(stuck) == faults' = IF stuck = {} THEN faults ELSE faults + 1

\* release_trace on this record's trace id fails, so its tensors are not touched.
TraceStuck(art, k, stuck) == art[k] = "live" /\ <<"trace", k>> \in stuck

\* _release_trace: the tensors a record still holds after one pass, and its artifact.
HoldsAfter(art, hold, stuck) ==
    [k \in Keys |-> IF TraceStuck(art, k, stuck)
                      THEN hold[k]
                      ELSE {part \in hold[k] : <<part, k>> \in stuck}]

ArtifactAfter(art, hold, stuck) ==
    [k \in Keys |-> CASE TraceStuck(art, k, stuck) -> "live"
                      [] ~TraceStuck(art, k, stuck) /\ HoldsAfter(art, hold, stuck)[k] = {} -> "none"
                      [] OTHER -> "released"]

\* best_effort_deallocate_owned_tensors skips a workspace whose object id is in the
\* alias's set of ids already deallocated.
WorkspaceAttempted(p) == workspace[p] # NoId /\ workspace[p] \notin freedIds[p]
WorkspaceStuck(p, stuck) == WorkspaceAttempted(p) /\ <<"workspace", p>> \in stuck

\* _release_alias_workspaces.
ReleaseWorkspaces(stuck) ==
    /\ workspace' = [p \in Programs |-> IF WorkspaceStuck(p, stuck) THEN workspace[p] ELSE NoId]
    /\ freedIds' = [p \in Programs |->
                      IF WorkspaceAttempted(p) /\ ~WorkspaceStuck(p, stuck)
                        THEN freedIds[p] \cup {workspace[p]}
                        ELSE freedIds[p]]

\* Every release one pass tries: trace ids, then the tensors of the artifacts whose id
\* went, then the inputs owned by no artifact (inputs), then the workspaces.
Attempted(art, hold, inputs, stuck) ==
    {<<"trace", k>> : k \in {k \in Keys : art[k] = "live"}}
      \cup (UNION {{<<part, k>> : part \in hold[k]} : k \in {k \in Keys : ~TraceStuck(art, k, stuck)}})
      \cup {<<"in", k>> : k \in inputs}
      \cup {<<"workspace", p>> : p \in {p \in Programs : WorkspaceAttempted(p)}}

\* Mutant: inputs without an artifact whose release failed are forgotten.
ReleaseAllDropsOrphans(art, hold, inputs, allocated, stuck) ==
    /\ artifact' = ArtifactAfter(art, hold, stuck)
    /\ holds' = HoldsAfter(art, hold, stuck)
    /\ orphans' = {}
    /\ ReleaseWorkspaces(stuck)
    /\ device' = allocated \ (Attempted(art, hold, inputs, stuck) \ stuck)
    /\ CountFault(stuck)

\* Mutant: the tensors of a trace are freed although its id could not be released.
ReleaseAllUnderTraces(art, hold, inputs, allocated, stuck) ==
    LET all == Attempted(art, hold, inputs, stuck) \cup UNION {{<<part, k>> : part \in hold[k]} : k \in Keys}
    IN  /\ artifact' = ArtifactAfter(art, hold, stuck)
        /\ holds' = [k \in Keys |-> {part \in hold[k] : <<part, k>> \in stuck}]
        /\ orphans' = {k \in inputs : <<"in", k>> \in stuck}
        /\ ReleaseWorkspaces(stuck)
        /\ device' = allocated \ (all \ stuck)
        /\ CountFault(stuck)

\* One pass over everything the trace compiler owns, where allocated is on the device.
ReleaseAll(art, hold, inputs, allocated, stuck) ==
    /\ artifact' = ArtifactAfter(art, hold, stuck)
    /\ holds' = HoldsAfter(art, hold, stuck)
    /\ orphans' = {k \in inputs : <<"in", k>> \in stuck}
    /\ ReleaseWorkspaces(stuck)
    /\ device' = allocated \ (Attempted(art, hold, inputs, stuck) \ stuck)
    /\ CountFault(stuck)

\* Some trace, tensor or workspace is still owned after the pass.
Leftovers(art, orphaned, work) ==
    \/ orphaned # {}
    \/ \E k \in Keys : art[k] # "none"
    \/ \E p \in Programs : work[p] # NoId

-----------------------------------------------------------------------------
(* capture_all. *)

\* Nothing to do once activated, or with no plan; refused while compile orphans remain.
StartCapture ==
    /\ stage = "idle"
    /\ ~tracesReleased
    /\ ~programsReleased
    /\ ~activated
    /\ registered # {}
    /\ compileOrphans = {}
    /\ stage' = "prepare"
    /\ UNCHANGED <<programVars, registered, prepared, recording, tracesReleased,
                   resourceVars, replayVars, activated>>

\* prepare_inputs of one plan, or of the body its tails share: a body's come first.
PrepareInputs(k) ==
    /\ stage = "prepare"
    /\ k \in (Traces \cup Bodies) \ prepared
    /\ \A plan \in registered : plan.trace = k => plan.body \in prepared \cup {NoKey}
    /\ prepared' = prepared \cup {k}
    /\ device' = device \cup {<<"in", k>>}
    /\ UNCHANGED <<programVars, registered, stage, recording, tracesReleased, artifact, holds,
                   orphans, workspace, freedIds, faults, replayVars, activated>>

InputsPrepared == prepared = Traces \cup Bodies

HasWorkspace(p) == \E plan \in registered : plan.program = p /\ plan.workspace

\* prepare_workspace of one alias: a new object, at any id no live workspace has.
PrepareWorkspace(p, id) ==
    /\ stage = "prepare"
    /\ InputsPrepared
    /\ HasWorkspace(p)
    /\ workspace[p] = NoId
    /\ \A q \in Programs : workspace[q] # id
    /\ workspace' = [workspace EXCEPT ![p] = id]
    /\ device' = device \cup {<<"workspace", p>>}
    /\ UNCHANGED <<programVars, captureVars, artifact, holds, orphans, freedIds, faults,
                   replayVars, activated>>

\* Every body and workspace is primed, and the device program cache is counted: from
\* here on a compile on the device is detected.
PrimeCaptures ==
    /\ stage = "prepare"
    /\ InputsPrepared
    /\ \A p \in Programs : HasWorkspace(p) => workspace[p] # NoId
    /\ stage' = "capture"
    /\ programCache' = "unchanged"
    /\ UNCHANGED <<programs, compileOrphans, traceCaptureInProgress, traceActive,
                   programsReleased, registered, prepared, recording, tracesReleased,
                   resourceVars, replayVars, activated>>

\* Decode traces are captured before prefill traces, and a tail after its body.
CaptureDue(k) ==
    /\ k \in prepared
    /\ \A plan \in registered : plan.trace = k =>
         /\ plan.body # NoKey => artifact[plan.body] # "none"
         /\ plan.operation = "prefill" =>
              \A q \in registered : q.operation = "decode" => q.trace \notin prepared

\* _capture_record up to begin_trace_capture.
BeginCapture(k) ==
    /\ stage = "capture"
    /\ recording = NoKey
    /\ CaptureDue(k)
    /\ programCache # "grown"
    /\ SetTraceCaptureInProgress(TRUE)
    /\ recording' = k
    /\ device' = device \cup {<<"trace", k>>}
    /\ UNCHANGED <<programs, compileOrphans, traceActive, programsReleased, programCache,
                   registered, stage, prepared, tracesReleased, artifact, holds, orphans,
                   workspace, freedIds, faults, replayVars, activated>>

\* _capture_record from end_trace_capture on; the artifact now owns the inputs.
EndCapture(k) ==
    /\ stage = "capture"
    /\ recording = k
    /\ artifact' = [artifact EXCEPT ![k] = "live"]
    /\ holds' = [holds EXCEPT ![k] = Parts]
    /\ prepared' = prepared \ {k}
    /\ recording' = NoKey
    /\ device' = device \cup {<<"out", k>>}
    /\ SetTraceCaptureInProgress(FALSE)
    /\ UNCHANGED <<programs, compileOrphans, traceActive, programsReleased, programCache,
                   registered, stage, tracesReleased, orphans, workspace, freedIds, faults,
                   replayVars, activated>>

\* Every plan is captured and the final synchronization succeeds.
FinishCapture ==
    /\ stage = "capture"
    /\ recording = NoKey
    /\ prepared = {}
    /\ stage' = "idle"
    /\ activated' = TRUE
    /\ SetTraceActive(TRUE)
    /\ UNCHANGED <<programs, compileOrphans, traceCaptureInProgress, programsReleased,
                   programCache, registered, prepared, recording, tracesReleased,
                   resourceVars, replayVars>>

\* The except clause of capture_all: release everything, retain what could not be
\* released, and keep the gate closed exactly while something remains.
Rollback(art, hold, inputs, allocated) ==
    /\ \E stuck \in Refusals(allocated) : ReleaseAll(art, hold, inputs, allocated, stuck)
    /\ prepared' = {}
    /\ recording' = NoKey
    /\ stage' = "idle"
    /\ activated' = Leftovers(artifact', orphans', workspace')
    /\ traceCaptureInProgress' = FALSE
    /\ traceActive' = activated'
    /\ UNCHANGED <<programs, compileOrphans, programsReleased, registered, tracesReleased,
                   replayVars>>

\* A callback, a synchronization or the cache check raises outside a recording.
CaptureAllRaises ==
    /\ stage \in {"prepare", "capture"}
    /\ recording = NoKey
    /\ RunOnDevice
    /\ Rollback(artifact, holds, prepared, device)

\* The recorded body raises, or a later step of _capture_record does (then it has
\* outputs).  The record gets its artifact, so that the rollback releases it.
CaptureRecordRaises(k, parts) ==
    /\ stage = "capture"
    /\ recording = k
    /\ RunOnDevice
    /\ Rollback([artifact EXCEPT ![k] = "live"], [holds EXCEPT ![k] = parts], prepared \ {k},
                device \cup {<<part, k>> : part \in parts})

-----------------------------------------------------------------------------
(* replay. *)

\* What replay checks of its registries before it touches the device.
Replayable(plan) ==
    /\ stage = "idle"
    /\ ~tracesReleased
    /\ ~programsReleased
    /\ ~replayFailed
    /\ plan \in registered
    /\ artifact[plan.trace] # "none"
    /\ plan.body # NoKey => artifact[plan.body] # "none"

ResidentKey(plan) == IF plan.body = NoKey THEN plan.trace ELSE plan.body

\* Mutant: a switch of the tail alone is not seen.
SwitchedBody(plan) == previous.body # ResidentKey(plan)

Switched(plan) ==
    \/ previous.body # ResidentKey(plan)
    \/ plan.body # NoKey /\ previous.tail # plan.trace

\* A replay may leave the inputs alone only after the same traces, with feedback.
MayKeepInputs(plan) == plan.feeds /\ ~Switched(plan)

\* replay(): the refresh and the submissions of body and tail succeed.
\* full: the refresh decision reloads every input.
Replay(plan, full) ==
    /\ Replayable(plan)
    /\ programCache # "grown"
    /\ full \/ MayKeepInputs(plan)
    /\ previous' = [body |-> ResidentKey(plan),
                    tail |-> IF plan.body = NoKey THEN NoKey ELSE plan.trace]
    /\ resident' = IF plan.feeds /\ (full \/ resident = ResidentKey(plan))
                     THEN ResidentKey(plan) ELSE NoKey
    /\ UNCHANGED <<programVars, captureVars, resourceVars, replayFailed, activated>>

\* The refresh, the cache check after it, or a submission raises.
ReplayRaises(plan) ==
    /\ Replayable(plan)
    /\ programCache # "grown"
    /\ RunOnDevice
    /\ replayFailed' = TRUE
    /\ resident' = NoKey
    /\ UNCHANGED <<programs, compileOrphans, traceCaptureInProgress, traceActive,
                   programsReleased, captureVars, resourceVars, previous, activated>>

-----------------------------------------------------------------------------
(* Cleanup. *)

\* cleanup() of the trace compiler.  Once the program registry is released, the calls
\* that set its flags raise, after the trace compiler's own flags are assigned.
TraceCleanup ==
    /\ stage = "idle"
    /\ ~tracesReleased
    /\ \E stuck \in Refusals(device) : ReleaseAll(artifact, holds, orphans, device, stuck)
    /\ activated' = Leftovers(artifact', orphans', workspace')
    /\ IF activated'
         THEN UNCHANGED <<previous, resident, tracesReleased>>
         ELSE /\ previous' = [body |-> NoKey, tail |-> NoKey]
              /\ resident' = NoKey
              /\ tracesReleased' = ~programsReleased
    /\ IF programsReleased
         THEN UNCHANGED <<traceCaptureInProgress, traceActive>>
         ELSE /\ traceActive' = activated'
              /\ traceCaptureInProgress' = (activated' /\ traceCaptureInProgress)
    /\ UNCHANGED <<programs, compileOrphans, programsReleased, programCache, registered,
                   stage, prepared, recording, replayFailed>>

\* Operations of the program compiler.
Compile(p) ==
    /\ stage = "idle"
    /\ CompileSucceeds(p) \/ CompileFails(p)
    /\ UNCHANGED traceVars

CleanupPrograms ==
    /\ stage = "idle"
    /\ \E stuck \in SUBSET compileOrphans : ProgramCleanup(stuck)
    /\ UNCHANGED traceVars

\* An eager operation on a registered program: the device may still add a kernel.
EagerForward ==
    /\ stage = "idle"
    /\ ~programsReleased
    /\ programs # {}
    /\ RunOnDevice
    /\ UNCHANGED <<programs, compileOrphans, traceCaptureInProgress, traceActive,
                   programsReleased, traceVars>>

Next ==
    \/ \E p \in Programs : Compile(p)
    \/ \E plan \in Plans : RegisterCapturePlan(plan)
    \/ StartCapture
    \/ \E k \in Keys : PrepareInputs(k)
    \/ \E p \in Programs, id \in Ids : PrepareWorkspace(p, id)
    \/ PrimeCaptures
    \/ \E k \in Keys : BeginCapture(k)
    \/ \E k \in Keys : EndCapture(k)
    \/ FinishCapture
    \/ CaptureAllRaises
    \/ \E k \in Keys, parts \in {{"in"}, Parts} : CaptureRecordRaises(k, parts)
    \/ \E plan \in Plans, full \in BOOLEAN : Replay(plan, full)
    \/ \E plan \in Plans : ReplayRaises(plan)
    \/ TraceCleanup
    \/ CleanupPrograms
    \/ EagerForward

Spec == Init /\ [][Next]_vars

-----------------------------------------------------------------------------
(* Properties. *)

\* The traces and tensors some registry of the trace compiler will still release.
Owned ==
    {<<"trace", k>> : k \in {k \in Keys : artifact[k] = "live" \/ recording = k}}
      \cup (UNION {{<<part, k>> : part \in holds[k]} : k \in Keys})
      \cup {<<"in", k>> : k \in prepared \cup orphans}

\* Inputs listed for the rollback, or retained as an orphan, are not also inputs of an
\* artifact: one pass never releases a tensor twice.
SingleOwner ==
    /\ prepared \cap orphans = {}
    /\ \A k \in prepared \cup orphans : "in" \notin holds[k]

\* A trace that is on the device still has the persistent inputs it was captured with:
\* no order of failing releases frees buffers under a trace that could be replayed.
LiveTraceKeepsInputs ==
    \A k \in Keys : <<"trace", k>> \in device => <<"in", k>> \in device

\* Ownership is exact through capture, rollback, retry and cleanup: what the registries
\* would release is what is allocated, no tensor has two owners, and none is given back under
\* a trace that stays.  A tensor allocated and owned by nobody is a leak, and one owned twice,
\* or not allocated, is released again.
OwnershipExact == device \cap KeyResources = Owned /\ SingleOwner /\ LiveTraceKeepsInputs

\* The two compilers agree on the gate whenever no capture is running, as long as the
\* program registry is not released: a rollback or a cleanup that retains something
\* closes it, and one that releases everything reopens it.
GatesAgree ==
    stage = "idle" /\ ~programsReleased =>
      (traceActive <=> activated) /\ ~traceCaptureInProgress

\* While anything a trace owns is on the device and capture_all is not running, compile
\* refuses a program that is not registered: its buffers could take addresses that a
\* trace has recorded.  It holds for the leftovers of a failed rollback or cleanup too.
NoCompileUnderTraces ==
    /\ stage = "idle" /\ device \cap KeyResources # {} => \A p \in Programs : ~CanCompile(p)
    /\ GatesAgree

\* Registrations that succeed never disagree: a program replays one trace, the tails and
\* programs of one trace share its body, and no key names both a trace and a body, so the
\* artifact of a body is never replayed as a trace of its own.
RegistryConsistent ==
    /\ \A p, q \in registered :
         /\ p.program = q.program => p = q
         /\ p.trace = q.trace => p.body = q.body /\ p.operation = q.operation
    /\ Traces \cap Bodies = {}

\* Whenever replay would accept a call that reloads nothing, the inputs resident in the
\* body it runs are those of the next step: no earlier replay, of another trace or of a
\* tail that does not feed back, left them stale.
KeptInputsAreCurrent ==
    \A plan \in registered :
      Replayable(plan) /\ MayKeepInputs(plan) => resident = ResidentKey(plan)

-----------------------------------------------------------------------------
(* The abstract gate this implements: what a trace owns, and no workspace. *)

Gate == INSTANCE CompileGate WITH capturing <- stage # "idle",
                                  traced <- device \cap KeyResources

\* Registering, capturing, rolling back and releasing implement the compile gate.
GateSpec == Gate!Spec

=============================================================================

---------------------------- MODULE ModelExecutor ----------------------------
(***************************************************************************)
(* One model lane: the owners a ModelExecutor composes, the warmup that    *)
(* commits trace capture, and the ordered, retryable cleanup               *)
(* (models/executor.py, class ModelExecutor; llm_runtime/warmup.py,        *)
(* _maybe_capture and _capture_now).                                       *)
(*                                                                         *)
(* The trace and program compilers are those of TraceCompiler.  The other  *)
(* owners are abstract: one holds resources or not.  cleanup() goes        *)
(* through its actions one step at a time, and each may fail without       *)
(* stopping the next.  The lane has one host thread, so no other operation *)
(* of the lane runs inside a cleanup pass or inside capture_all.           *)
(***************************************************************************)
EXTENDS TraceCompiler, KVCache, Sequences

CONSTANTS
    Required,       \* the capture plans of the configured warmup coverage
    LeftBehind,     \* what one forward may leave with the owners: outputs, transients
    MaxOwnerFaults  \* bound: failures of the cleanup actions of the other owners

ASSUME RequiredAssumption == Required \subseteq Plans /\ Required # {}
ASSUME OwnerFaultsAssumption == MaxOwnerFaults \in Nat

\* leases: the decode output given out that no later forward may overwrite; reads: pending
\* host copies; prefill, decode: transients whose release failed; sampling: the buffers.
Owners == {"leases", "reads", "prefill", "decode", "sampling"}

ASSUME LeftBehindAssumption == LeftBehind \subseteq SUBSET (Owners \ {"sampling"})

\* Mutant: the KV cache is released before the traces.
CleanupOrderKVFirst ==
    <<"leases", "reads", "prefill", "decode", "kv", "traces", "programs", "sampling">>

\* The actions of cleanup(), in order.
CleanupOrder == <<"leases", "reads", "prefill", "decode", "traces", "programs", "sampling", "kv">>

VARIABLES
    terminal,       \* _terminal
    cleanedUp,      \* _cleaned_up
    pass,           \* position in CleanupOrder of the running cleanup, 0 when none runs
    passFailed,     \* an action of this pass raised
    captured,       \* WarmupCoordinator._captured, its trace_activated
    held,           \* the owners that hold resources
    ownerFaults     \* failures so far of the KV manager and of the actions but "traces"

laneVars == <<terminal, cleanedUp, pass, passFailed, captured, held, ownerFaults>>
execVars == <<vars, laneVars, kvVars>>

ExecInit ==
    /\ Init
    /\ terminal = FALSE
    /\ cleanedUp = FALSE
    /\ pass = 0
    /\ passFailed = FALSE
    /\ captured = FALSE
    /\ held = {}
    /\ KVInit
    /\ ownerFaults = 0

-----------------------------------------------------------------------------
(* Operations of a live executor. *)

\* _ensure_active, between two operations of the lane.
Active ==
    /\ ~terminal
    /\ stage = "idle"
    /\ held \cap {"prefill", "decode"} = {}

\* _ensure_active and _validate_bound_cache.
Usable == Active /\ kvState = "bound"

CountOwnerFault(raised) ==
    /\ ownerFaults' = IF raised THEN ownerFaults + 1 ELSE ownerFaults
    /\ ownerFaults' <= MaxOwnerFaults

\* configure and allocate_kv_cache, which the caller may call again when it raised.
AllocateKV ==
    /\ Active
    /\ \/ (Configure \/ Allocate) /\ CountOwnerFault(FALSE)
       \/ (AllocateRaises \/ AllocateRaisesTwice) /\ CountOwnerFault(TRUE)
    /\ UNCHANGED <<vars, terminal, cleanedUp, pass, passFailed, captured, held>>

\* Mutant: the buffers are loaded whenever they are missing.
EnsureSamplingAnyTime(sampled) == held' = IF sampled THEN held \cup {"sampling"} ELSE held

\* _ensure_sampling_for: the buffers are loaded once, and never over active traces.
EnsureSampling(sampled) ==
    /\ sampled /\ "sampling" \notin held => ~activated
    /\ held' = IF sampled THEN held \cup {"sampling"} ELSE held

\* compile_prefill and compile_decode on the eager executor.  A program that may not be
\* compiled, or is compiled already, leaves everything but the sampling buffers alone.
CompileProgram(p, sampled) ==
    /\ Usable
    /\ EnsureSampling(sampled)
    /\ Compile(p) \/ (~CanCompile(p) /\ UNCHANGED vars)
    /\ UNCHANGED <<terminal, cleanedUp, pass, passFailed, captured, kvVars, ownerFaults>>

\* The traced executor registers the plan of a program the eager one has compiled.
RegisterPlan(plan) ==
    /\ Usable
    /\ RegisterCapturePlan(plan)
    /\ UNCHANGED <<laneVars, kvVars>>

\* Mutant: capture is decided on part of the coverage.
CaptureDecidedEarly == Usable /\ ~captured /\ Required \cap registered # {}

\* _maybe_capture: every required trace is registered, none was captured before.
CaptureDecided == Usable /\ ~captured /\ Required \subseteq registered

\* _capture_now reaches capture_all, which starts capturing.
WarmupCaptures ==
    /\ CaptureDecided
    /\ StartCapture
    /\ UNCHANGED <<laneVars, kvVars>>

\* capture_all returns at once: the trace compiler is already activated.
WarmupSkipsCapture ==
    /\ CaptureDecided
    /\ activated
    /\ captured' = TRUE
    /\ UNCHANGED <<vars, terminal, cleanedUp, pass, passFailed, held, kvVars, ownerFaults>>

CaptureStep ==
    /\ \/ \E k \in Keys : PrepareInputs(k) \/ BeginCapture(k) \/ EndCapture(k)
       \/ \E p \in Programs, id \in Ids : PrepareWorkspace(p, id)
       \/ PrimeCaptures
       \/ CaptureAllRaises
       \/ \E k \in Keys, parts \in {{"in"}, Parts} : CaptureRecordRaises(k, parts)
    /\ UNCHANGED <<laneVars, kvVars>>

WarmupFinishesCapture ==
    /\ FinishCapture
    /\ captured' = TRUE
    /\ UNCHANGED <<terminal, cleanedUp, pass, passFailed, held, kvVars, ownerFaults>>

\* An eager forward; it may leave an output to be read, or a transient it failed to release.
\* ensure_trace_safe rejects it, and a traced one, while an output is unread.
ForwardEager(left) ==
    /\ Usable
    /\ "leases" \notin held
    /\ EagerForward
    /\ held' = held \cup left
    /\ UNCHANGED <<terminal, cleanedUp, pass, passFailed, captured, kvVars, ownerFaults>>

\* A traced forward of one registered program.
ForwardTraced(plan, left) ==
    /\ Usable
    /\ "leases" \notin held
    /\ \/ (\E full \in BOOLEAN : Replay(plan, full)) /\ held' = held \cup left
       \/ ReplayRaises(plan) /\ UNCHANGED held
    /\ UNCHANGED <<terminal, cleanedUp, pass, passFailed, captured, kvVars, ownerFaults>>

\* read_decode_output: the output is copied to the host, at once or as a pending read.  An
\* asynchronous read ends the lease of a trace's output, and not that of an eager one.
ReadDecodeOutput(async) ==
    /\ Active
    /\ "leases" \in held
    /\ held' \in IF async THEN {held \cup {"reads"}, (held \ {"leases"}) \cup {"reads"}}
                          ELSE {held \ {"leases"}}
    /\ UNCHANGED <<vars, terminal, cleanedUp, pass, passFailed, captured, kvVars, ownerFaults>>

\* process_decode_output_host completes a pending read, and the lease of an eager output.
ProcessDecodeOutputHost ==
    /\ Active
    /\ "reads" \in held
    /\ held' \in {held \ {"reads"}, held \ {"reads", "leases"}}
    /\ UNCHANGED <<vars, terminal, cleanedUp, pass, passFailed, captured, kvVars, ownerFaults>>

-----------------------------------------------------------------------------
(* cleanup(). *)

\* Mutant: a second cleanup of a terminal executor returns at once.
StartCleanupOnce ==
    /\ stage = "idle"
    /\ pass = 0
    /\ ~terminal
    /\ terminal' = TRUE
    /\ pass' = 1
    /\ passFailed' = FALSE
    /\ UNCHANGED <<vars, cleanedUp, captured, held, kvVars, ownerFaults>>

StartCleanup ==
    /\ stage = "idle"
    /\ pass = 0
    /\ ~cleanedUp
    /\ terminal' = TRUE
    /\ pass' = 1
    /\ passFailed' = FALSE
    /\ UNCHANGED <<vars, cleanedUp, captured, held, kvVars, ownerFaults>>

At(action) == pass > 0 /\ CleanupOrder[pass] = action

\* Mutant: the failures collected in the pass are not looked at.
ProceedIgnoringFailures(raised) ==
    /\ pass' = (pass + 1) % (Len(CleanupOrder) + 1)
    /\ passFailed' = (passFailed \/ raised)
    /\ cleanedUp' = (pass' = 0)
    /\ UNCHANGED <<terminal, captured>>

\* The pass moves on whether or not its action raised; after the last one the executor is
\* cleaned up if none did.
Proceed(raised) ==
    /\ pass' = (pass + 1) % (Len(CleanupOrder) + 1)
    /\ passFailed' = (passFailed \/ raised)
    /\ cleanedUp' = (pass' = 0 /\ ~passFailed')
    /\ UNCHANGED <<terminal, captured>>

\* A drain, a transient cleanup or the release of the sampling buffers.
CleanupOwner(owner, raised) ==
    /\ At(owner)
    /\ raised => owner \in held
    /\ held' = IF raised THEN held ELSE held \ {owner}
    /\ CountOwnerFault(raised)
    /\ Proceed(raised)
    /\ UNCHANGED <<vars, kvVars>>

\* Nothing to do once released; otherwise it raises unless it becomes released.
CleanupTraces ==
    /\ At("traces")
    /\ TraceCleanup \/ (tracesReleased /\ UNCHANGED vars)
    /\ Proceed(~tracesReleased')
    /\ UNCHANGED <<held, kvVars, ownerFaults>>

CleanupCompiler ==
    /\ At("programs")
    /\ CleanupPrograms \/ (programsReleased /\ UNCHANGED vars)
    /\ CountOwnerFault(~programsReleased')
    /\ Proceed(~programsReleased')
    /\ UNCHANGED <<held, kvVars>>

CleanupKV ==
    /\ At("kv")
    /\ \/ Release /\ CountOwnerFault(FALSE) /\ Proceed(FALSE)
       \/ ReleaseRaises /\ CountOwnerFault(TRUE) /\ Proceed(TRUE)
    /\ UNCHANGED <<vars, held>>

CleanupStep ==
    \/ \E owner \in Owners, raised \in BOOLEAN : CleanupOwner(owner, raised)
    \/ CleanupTraces
    \/ CleanupCompiler
    \/ CleanupKV

ExecNext ==
    \/ AllocateKV
    \/ \E p \in Programs, sampled \in BOOLEAN : CompileProgram(p, sampled)
    \/ \E plan \in Plans : RegisterPlan(plan)
    \/ WarmupCaptures
    \/ WarmupSkipsCapture
    \/ CaptureStep
    \/ WarmupFinishesCapture
    \/ \E left \in LeftBehind : ForwardEager(left)
    \/ \E plan \in Plans, left \in LeftBehind : ForwardTraced(plan, left)
    \/ \E async \in BOOLEAN : ReadDecodeOutput(async)
    \/ ProcessDecodeOutputHost
    \/ StartCleanup
    \/ CleanupStep

\* A cleanup that was started runs to its end, and one that raised is called again, as
\* the ownership contract asks of the caller.
ExecSpec ==
    /\ ExecInit
    /\ [][ExecNext]_execVars
    /\ WF_execVars(CleanupStep)
    /\ WF_execVars(terminal /\ StartCleanup)

-----------------------------------------------------------------------------
(* Properties. *)

\* Device state of a plan's trace and of its body: id, inputs and outputs.
Captured(plan) ==
    {"trace", "in", "out"} \X ({plan.trace, plan.body} \ {NoKey}) \subseteq device

\* Once warmup reports that trace capture is completed and activated, and until cleanup,
\* the traces of the required coverage and their bodies are all on the device.
CapturedIsComplete == captured /\ ~terminal => \A plan \in Required : Captured(plan)

\* A traced forward the executor accepts runs a trace that is on the device, with the
\* inputs and outputs it was captured with: a missing artifact is never replayed.
ReplayableIsComplete ==
    \A plan \in registered :
      Usable /\ pass = 0 /\ Replayable(plan) /\ programCache # "grown" => Captured(plan)

\* The KV tensors, whose addresses every trace recorded, are on the device, and with the model
\* when the caller was given them, as long as anything of a trace is, unless the pass failed to
\* release a trace: it then goes on with the other owners.
KVOutlivesTraces ==
    faults = 0 /\ device \cap KeyResources # {} =>
      kvDevice = KVTensors /\ (kvHanded => kvBound = KVTensors)

\* Sampling buffers are materialized only while traces own nothing on the device, whether
\* the earlier capture or cleanup succeeded or left something behind.
SamplingBeforeTraces ==
    []["sampling" \in held' \ held => device \cap KeyResources = {}]_execVars

\* As long as every release pass of the traces succeeds, of a rollback or of a cleanup, what
\* warmup and replay take for a trace is one.
CompleteUnlessStuck == faults = 0 => CapturedIsComplete /\ ReplayableIsComplete

\* A cleanup that is retried after failures completes.
CleanupCompletes == terminal ~> cleanedUp

\* The same as long as the release passes of the traces succeed.
CleanupCompletesUnlessStuck == [](faults = 0) => CleanupCompletes

\* A lane that is cleaned up has given back every trace, persistent input, output,
\* transient, orphan, sampling buffer and KV tensor, through however many passes.
CleanedUpHoldsNothing ==
    cleanedUp => /\ device \cap KeyResources = {}
                 /\ held = {}
                 /\ compileOrphans = {}
                 /\ kvState = "released" /\ kvDevice = {} /\ kvBound = {}

=============================================================================

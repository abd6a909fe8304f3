--------------------------- MODULE ProgramCompiler ---------------------------
(***************************************************************************)
(* The eager program registry of one execution lane                        *)
(* (llm_runtime/program_compiler.py, class ProgramCompiler).               *)
(*                                                                         *)
(* A program is named by its key: a signature and its SHA-256 digest are   *)
(* one value here.  A compile runs the operation once on the device, which *)
(* may add entries to the device program cache, and releases what that run *)
(* allocated; only then is the program registered.  The two flags the      *)
(* trace compiler raises close the gate to programs not yet registered.    *)
(***************************************************************************)
CONSTANT Programs          \* keys of the programs the lane may be asked to compile

VARIABLES
    programs,               \* _programs: keys of the registered programs
    compileOrphans,         \* _compile_orphans: programs whose run left tensors behind
    traceCaptureInProgress, \* _trace_capture_in_progress
    traceActive,            \* _trace_active
    programsReleased,       \* _released
    programCache            \* device program cache, against the count a capture recorded

programVars == <<programs, compileOrphans, traceCaptureInProgress, traceActive,
                 programsReleased, programCache>>

\* "unrecorded" until a capture records the entry count; "grown" once the
\* device holds more entries than the recorded count.
CacheStates == {"unrecorded", "unchanged", "grown"}

ProgramTypeOK ==
    /\ programs \subseteq Programs
    /\ compileOrphans \subseteq Programs
    /\ traceCaptureInProgress \in BOOLEAN
    /\ traceActive \in BOOLEAN
    /\ programsReleased \in BOOLEAN
    /\ programCache \in CacheStates

ProgramInit ==
    /\ programs = {}
    /\ compileOrphans = {}
    /\ traceCaptureInProgress = FALSE
    /\ traceActive = FALSE
    /\ programsReleased = FALSE
    /\ programCache = "unrecorded"

-----------------------------------------------------------------------------

\* The cache after an operation ran on the device: new kernels may have been added.
RunOnDevice ==
    programCache' \in {programCache} \cup (IF programCache = "unrecorded" THEN {} ELSE {"grown"})

\* Mutant: the gate stays open after trace activation.
CanCompileOverTraces(p) ==
    /\ ~programsReleased
    /\ compileOrphans = {}
    /\ p \notin programs
    /\ ~traceCaptureInProgress

\* What compile() checks before it invokes an operation it has no program for.
CanCompile(p) ==
    /\ ~programsReleased
    /\ compileOrphans = {}
    /\ p \notin programs
    /\ ~traceCaptureInProgress
    /\ ~traceActive

\* The run, both synchronizations, the output contract and the release succeed.
CompileSucceeds(p) ==
    /\ CanCompile(p)
    /\ RunOnDevice
    /\ programs' = programs \cup {p}
    /\ UNCHANGED <<compileOrphans, traceCaptureInProgress, traceActive, programsReleased>>

\* The run, a synchronization or the output contract fails and nothing is registered.
\* An output whose release fails as well is kept as an orphan.
CompileFails(p) ==
    /\ CanCompile(p)
    /\ RunOnDevice
    /\ compileOrphans' \in {{}, {p}}
    /\ UNCHANGED <<programs, traceCaptureInProgress, traceActive, programsReleased>>

\* set_trace_capture_in_progress(value), where it does not raise.
SetTraceCaptureInProgress(value) ==
    /\ ~programsReleased
    /\ value => ~traceActive
    /\ traceCaptureInProgress' = value

\* set_trace_active(value), where it does not raise.
SetTraceActive(value) ==
    /\ ~programsReleased
    /\ value => ~traceCaptureInProgress
    /\ traceActive' = value

\* cleanup(): retry the orphans; the registry becomes terminal once none is left.
\* stuck: the orphans whose release still fails.
ProgramCleanup(stuck) ==
    /\ ~programsReleased
    /\ compileOrphans' = compileOrphans \cap stuck
    /\ IF compileOrphans' = {}
         THEN /\ traceCaptureInProgress' = FALSE
              /\ traceActive' = FALSE
              /\ programsReleased' = TRUE
         ELSE UNCHANGED <<traceCaptureInProgress, traceActive, programsReleased>>
    /\ UNCHANGED <<programs, programCache>>

=============================================================================

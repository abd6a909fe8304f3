-------------------------------- MODULE Warmup --------------------------------
(***************************************************************************)
(* Warmup and the commit of trace capture: the WarmupCoordinator of each   *)
(* lane (llm_runtime/warmup.py) under the barrier of the lane group        *)
(* (llm_runtime/lane_group.py, _run_warmup_barrier and _run_guarded).      *)
(*                                                                         *)
(* A case stands for the program that one warmup request compiles and for  *)
(* the capture plan registered with it.  The two compilers are reduced to  *)
(* their registries and to the gate, which capture closes and whose        *)
(* rollback here leaves nothing behind (ModelExecutor has the leftovers).  *)
(*                                                                         *)
(* The caller makes the calls of its script one after the other on one     *)
(* thread.  With one lane it calls the lane itself and repeats a call that *)
(* raised; with more it calls the group, which cleans up and is terminal.  *)
(***************************************************************************)
EXTENDS Naturals, Sequences

CONSTANTS
    Cases,          \* the cases of the configured plans
    Scenarios       \* what callers do, with what; see Scenario

Ops == {"prefill", "decode"}
Call == [op : Ops, traced : BOOLEAN, sample : BOOLEAN]

\* traced: the case has a trace family; sampled: only in the plan with device sampling.
\* Every decode case has one.
ASSUME CasesAssumption ==
    /\ Cases \subseteq [op : Ops, path : STRING, traced : BOOLEAN, sampled : BOOLEAN]
    /\ \A c \in Cases : c.op = "decode" => c.traced

\* Every operation ends with a call that asks for the traces its policy allows.
AsksForAll(s) ==
    /\ \A op \in Ops : \E i \in DOMAIN s.calls : s.calls[i].op = op
    /\ \A i \in DOMAIN s.calls :
         \/ s.calls[i].traced = (s.calls[i].op \in s.enabled)
         \/ \E j \in DOMAIN s.calls : i < j /\ s.calls[j].op = s.calls[i].op

\* The two traced calls come last; an eager prefill is followed by traced prefill before
\* traced decode, which does not withdraw the decision of the eager one.
PhasedCalls(calls) ==
    LET n == Len(calls)
    IN  /\ n >= 2 /\ calls[n - 1].op # calls[n].op
        /\ \A i \in 1 .. n : calls[i].traced <=> i >= n - 1
        /\ \A i \in 1 .. n - 2 : calls[i].op = "prefill" => calls[n].op = "decode"

\* lanes: how many; a single lane is not wrapped in a group.  enabled: the operations whose
\* trace the static policy allows, for the modes "none", "decode_only" and "all".  calls:
\* what _validate_hints accepts.  kind: whether the calls are those of the callers in the
\* repository ("phased", or "decode_only"), or ask for more after capture ("late").
\* joined: lanes their owner has warmed up alone before grouping them.  failures: a bound
\* on compilations and captures that raise.
Scenario(s) ==
    /\ s.lanes \in Nat \ {0}
    /\ s.enabled \in {{}, {"decode"}, Ops}
    /\ s.calls \in Seq(Call)
    /\ \A i \in DOMAIN s.calls : s.calls[i].traced => s.calls[i].op \in s.enabled
    /\ s.kind \in {"phased", "decode_only", "late"}
    /\ s.kind = "phased" => s.joined = {} /\ s.enabled = Ops /\ PhasedCalls(s.calls)
    /\ s.kind = "decode_only" => s.joined = {} /\ s.enabled = {"decode"} /\ AsksForAll(s)
    /\ s.joined \subseteq 1 .. s.lanes
    /\ s.failures \in Nat

ASSUME ScenariosAssumption == \A s \in Scenarios : Scenario(s)

VARIABLES
    scenario,       \* what the caller does
    script,         \* the calls it still has to complete
    stage,          \* "idle", or how far the current call is: "enter", "cases" or "commit"
    turn,           \* the lane the call is at
    lane,           \* the state of each lane's coordinator and registries
    deferred,       \* every coordinator's _capture_deferred
    terminal,       \* LaneGroupExecutor._terminal
    failures        \* compilations and captures that raised so far

warmupVars == <<scenario, script, stage, turn, lane, deferred, terminal, failures>>

LaneCount == scenario.lanes
Lanes == 1 .. LaneCount
TraceEnabled == scenario.enabled

\* eager, traced: _eager and _trace_registered; programs, plans: the compilers' registries;
\* captured also stands for the gate of the lane.
LaneState ==
    [eager : SUBSET Cases, traced : SUBSET Cases, programs : SUBSET Cases, plans : SUBSET Cases,
     traceDecision : [Ops -> {"none", "eager", "traced"}],
     samplingDecision : [Ops -> {"none", "host", "device"}],
     buffers : BOOLEAN, captured : BOOLEAN, pending : BOOLEAN]

FreshLane ==
    [eager |-> {}, traced |-> {}, programs |-> {}, plans |-> {},
     traceDecision |-> [op \in Ops |-> "none"],
     samplingDecision |-> [op \in Ops |-> "none"],
     buffers |-> FALSE, captured |-> FALSE, pending |-> FALSE]

\* A lane that went through eager and traced warmup of both operations.
WarmLane ==
    [eager |-> Cases,
     traced |-> {c \in Cases : c.traced /\ c.op \in TraceEnabled},
     programs |-> Cases,
     plans |-> {c \in Cases : c.traced /\ c.op \in TraceEnabled},
     traceDecision |-> [op \in Ops |-> IF op \in TraceEnabled THEN "traced" ELSE "eager"],
     samplingDecision |-> [op \in Ops |-> "device"],
     buffers |-> TRUE, captured |-> TraceEnabled # {}, pending |-> FALSE]

WarmupInit ==
    /\ scenario \in Scenarios
    /\ script = scenario.calls
    /\ stage = "idle"
    /\ turn = 1
    /\ lane = [l \in Lanes |-> IF l \in scenario.joined THEN WarmLane ELSE FreshLane]
    /\ deferred = FALSE
    /\ terminal = FALSE
    /\ failures = 0

-----------------------------------------------------------------------------
(* One lane's coordinator. *)

call == Head(script)

\* _plan: the cases of an operation, with or without device sampling.
Plan(op, device) == {c \in Cases : c.op = op /\ (c.sampled => device)}

\* The ledger a case of a call goes to: _trace_registered or _eager.
AsTraced(c, request) == request.traced /\ c.traced
Ledger(state, c, request) == IF AsTraced(c, request) THEN state.traced ELSE state.eager

\* Cases the call has still to compile in a lane.
Todo(state, request) ==
    {c \in Plan(request.op, request.sample) : c \notin Ledger(state, c, request)}

\* The programs and plans a case needs are registered, or may still be: the gate is open.
Accepted(state, c, request) ==
    \/ ~state.captured
    \/ c \in state.programs /\ (AsTraced(c, request) => c \in state.plans)

\* The decisions a call records before it compiles anything.  A traced prefill withdraws
\* the decision of an earlier eager decode, when a traced one is still to come.
Decided(state, request) ==
    LET Withdrawn(decision) ==
          IF request.op = "prefill" /\ request.traced /\ decision["decode"] = "eager"
                                    /\ "decode" \in TraceEnabled
            THEN [decision EXCEPT !["decode"] = "none"]
            ELSE decision
    IN  [state EXCEPT
           !.samplingDecision[request.op] = IF request.sample THEN "device" ELSE "host",
           !.traceDecision = Withdrawn([@ EXCEPT ![request.op] = IF request.traced THEN "traced" ELSE "eager"])]

\* The cases of the operations with a decision for traces that capture has to hold.
RequiredTraces(state) ==
    UNION {{c \in Plan(op, state.samplingDecision[op] = "device") : c.traced} :
             op \in {op \in TraceEnabled : state.traceDecision[op] = "traced"}}

\* Mutant: cases compiled for a trace do not count as compiled.
CompleteFromEager(state) ==
    /\ ~state.captured
    /\ \A op \in Ops :
         /\ state.samplingDecision[op] # "none"
         /\ Plan(op, state.samplingDecision[op] = "device") \subseteq state.eager
    /\ \A op \in TraceEnabled : state.traceDecision[op] # "none"
    /\ RequiredTraces(state) # {}
    /\ RequiredTraces(state) \subseteq state.traced

\* _maybe_capture reaches the capture: both operations are compiled, every operation with
\* traces has a decision, and the required traces are registered.
Complete(state) ==
    /\ ~state.captured
    /\ \A op \in Ops :
         /\ state.samplingDecision[op] # "none"
         /\ Plan(op, state.samplingDecision[op] = "device") \subseteq state.eager \cup state.traced
    /\ \A op \in TraceEnabled : state.traceDecision[op] # "none"
    /\ RequiredTraces(state) # {}
    /\ RequiredTraces(state) \subseteq state.traced

-----------------------------------------------------------------------------
(* A call of warmup_model_prefill or warmup_model_decode. *)

Grouped == LaneCount > 1

\* Mutant: the group goes on after a failure.
RaiseAndGoOn(lanes) ==
    /\ stage' = "idle"
    /\ turn' = 1
    /\ lane' = [l \in Lanes |-> [lanes[l] EXCEPT !.pending = FALSE]]
    /\ deferred' = FALSE
    /\ UNCHANGED <<scenario, script, terminal>>

\* The call raises: the deferral ends and drops what was pending.  A group cleans up all
\* its lanes and is terminal; a single lane stays and the caller repeats the call.
Raise(lanes) ==
    /\ stage' = "idle"
    /\ turn' = 1
    /\ lane' = [l \in Lanes |-> [lanes[l] EXCEPT !.pending = FALSE]]
    /\ deferred' = FALSE
    /\ terminal' = Grouped
    /\ UNCHANGED <<scenario, script>>

\* A device operation of the call raised.
CountFailure ==
    /\ failures < scenario.failures
    /\ failures' = failures + 1

\* The call returns.
Return(lanes) ==
    /\ stage' = "idle"
    /\ turn' = 1
    /\ lane' = lanes
    /\ deferred' = FALSE
    /\ script' = Tail(script)
    /\ UNCHANGED <<scenario, terminal, failures>>

\* Mutant: no call defers capture.
StartCallUndeferred ==
    /\ stage = "idle"
    /\ ~terminal
    /\ script # <<>>
    /\ stage' = "enter"
    /\ UNCHANGED <<scenario, script, turn, lane, deferred, terminal, failures>>

\* Only a traced call of a group defers capture.
StartCall ==
    /\ stage = "idle"
    /\ ~terminal
    /\ script # <<>>
    /\ stage' = "enter"
    /\ deferred' = (Grouped /\ call.traced)
    /\ UNCHANGED <<scenario, script, turn, lane, terminal, failures>>

\* The lane records the decisions and materializes its sampling buffers.
EnterLane ==
    /\ stage = "enter"
    /\ LET decided == Decided(lane[turn], call)
       IN IF call.sample /\ ~decided.buffers /\ decided.captured
            THEN Raise([lane EXCEPT ![turn] = decided]) /\ UNCHANGED failures
            ELSE /\ lane' = [lane EXCEPT ![turn] = [decided EXCEPT !.buffers = @ \/ call.sample]]
                 /\ stage' = "cases"
                 /\ UNCHANGED <<scenario, script, turn, deferred, terminal, failures>>

\* One case is compiled, and with a trace its plan is registered.
WarmCase(c) ==
    /\ stage = "cases"
    /\ c \in Todo(lane[turn], call)
    /\ Accepted(lane[turn], c, call)
    /\ lane' = [lane EXCEPT
                  ![turn].programs = @ \cup {c},
                  ![turn].plans = IF AsTraced(c, call) THEN @ \cup {c} ELSE @,
                  ![turn].traced = IF AsTraced(c, call) THEN @ \cup {c} ELSE @,
                  ![turn].eager = IF AsTraced(c, call) THEN @ ELSE @ \cup {c}]
    /\ UNCHANGED <<scenario, script, stage, turn, deferred, terminal, failures>>

\* Mutant: the case is recorded before it is compiled.
CaseFailsRecorded(c) ==
    /\ stage = "cases"
    /\ c \in Todo(lane[turn], call)
    /\ ~lane[turn].captured
    /\ CountFailure
    /\ Raise([lane EXCEPT ![turn].traced = IF AsTraced(c, call) THEN @ \cup {c} ELSE @,
                          ![turn].eager = IF AsTraced(c, call) THEN @ ELSE @ \cup {c}])

\* A case raises on the device, before its program is registered or after it.
CaseFails(c) ==
    /\ stage = "cases"
    /\ c \in Todo(lane[turn], call)
    /\ ~lane[turn].captured
    /\ CountFailure
    /\ \E programs \in {{}, {c}} : Raise([lane EXCEPT ![turn].programs = @ \cup programs])

\* A case is refused: its program or its plan comes after activation.
CaseRefused(c) ==
    /\ stage = "cases"
    /\ c \in Todo(lane[turn], call)
    /\ ~Accepted(lane[turn], c, call)
    /\ Raise(lane)
    /\ UNCHANGED failures

\* The lane has its cases and goes on to the next lane; the last one ends the loop.
NextLane(lanes) ==
    /\ lane' = lanes
    /\ IF turn < LaneCount
         THEN turn' = turn + 1 /\ stage' = "enter"
         ELSE turn' = 1 /\ stage' = "commit"
    /\ UNCHANGED <<scenario, script, deferred, terminal, failures>>

LaneDone == stage = "cases" /\ Todo(lane[turn], call) = {}

\* Nothing to capture yet, or no more.
LaneWaits ==
    /\ LaneDone
    /\ ~Complete(lane[turn])
    /\ NextLane(lane)

\* Under the barrier a lane that is ready only reports so.
LanePends ==
    /\ LaneDone
    /\ Complete(lane[turn])
    /\ deferred
    /\ NextLane([lane EXCEPT ![turn].pending = TRUE])

\* Without the barrier it captures at once.
LaneCaptures ==
    /\ LaneDone
    /\ Complete(lane[turn])
    /\ ~deferred
    /\ \/ NextLane([lane EXCEPT ![turn].captured = TRUE])
       \/ CountFailure /\ Raise(lane)

\* What a lane reports to the barrier.
Readiness(l) ==
    IF lane[l].captured THEN "activated" ELSE IF lane[l].pending THEN "pending" ELSE "incomplete"

Mixed == \E l, m \in Lanes : Readiness(l) # Readiness(m)

\* Every lane was visited and there is nothing to commit.
FinishCall ==
    /\ stage = "commit"
    /\ turn = 1
    /\ deferred => ~Mixed /\ Readiness(1) # "pending"
    /\ Return(lane)

\* Lanes that disagree are an error of the group.
RefuseMixed ==
    /\ stage = "commit"
    /\ turn = 1
    /\ deferred
    /\ Mixed
    /\ Raise(lane)
    /\ UNCHANGED failures

\* activate_pending_capture of one lane; the others follow in order.
Activate ==
    /\ stage = "commit"
    /\ deferred
    /\ turn = 1 => ~Mixed
    /\ lane[turn].pending
    /\ LET captured == [lane EXCEPT ![turn].captured = TRUE, ![turn].pending = FALSE]
       IN \/ turn = LaneCount /\ Return(captured)
          \/ /\ turn < LaneCount
             /\ turn' = turn + 1
             /\ lane' = captured
             /\ UNCHANGED <<scenario, script, stage, deferred, terminal, failures>>
          \/ CountFailure /\ Raise(lane)

WarmupNext ==
    \/ StartCall
    \/ EnterLane
    \/ \E c \in Cases : WarmCase(c) \/ CaseFails(c) \/ CaseRefused(c)
    \/ LaneWaits
    \/ LanePends
    \/ LaneCaptures
    \/ FinishCall
    \/ RefuseMixed
    \/ Activate

\* The caller's thread runs on, and makes the next call of its script.
WarmupSpec == WarmupInit /\ [][WarmupNext]_warmupVars /\ WF_warmupVars(WarmupNext)

-----------------------------------------------------------------------------
(* Properties. *)

\* A lane has compiled what both operations were configured to run, and registered the
\* traces the calls so far asked of it.
Covered(l) ==
    \A op \in Ops :
      /\ lane[l].samplingDecision[op] # "none"
      /\ Plan(op, lane[l].samplingDecision[op] = "device") \subseteq lane[l].programs
      /\ RequiredTraces(lane[l]) \subseteq lane[l].plans

\* The barrier: no lane of a group captures before every lane has compiled its programs and
\* registered its traces, in whichever order the caller makes the phased calls.
CaptureIsOneBarrier ==
    scenario.kind = "phased" /\ (\E l \in Lanes : lane[l].captured) => \A m \in Lanes : Covered(m)

\* Between two calls the lanes of a live group have all captured or none has: a failure of
\* one lane's compilation or capture never leaves a group that serves with some traces.
LanesAgree ==
    scenario.joined = {} /\ stage = "idle" /\ ~terminal => \A l, m \in Lanes : lane[l].captured = lane[m].captured

\* already_warmed_up_prefill.
AlreadyWarmedUpPrefill(l) ==
    LET state == lane[l]
        required(device) == Plan("prefill", device)
    IN  \E device \in BOOLEAN :
          /\ CASE state.samplingDecision["prefill"] = "none" -> device
               [] OTHER -> device = (state.samplingDecision["prefill"] = "device")
          /\ required(device) \subseteq state.eager
          /\ "prefill" \in TraceEnabled /\ state.traceDecision["prefill"] # "eager" =>
               {c \in required(device) : c.traced} \subseteq state.traced /\ state.captured

\* A lane that reports prefill as warmed up serves every prefill case: its program is
\* registered, and its trace was captured when the traces of prefill were asked for.
WarmedUpIsReady ==
    \A l \in Lanes : AlreadyWarmedUpPrefill(l) =>
      \A c \in Plan("prefill", lane[l].samplingDecision["prefill"] = "device") :
        /\ c \in lane[l].programs
        /\ lane[l].traceDecision["prefill"] = "traced" /\ c.traced =>
             c \in lane[l].plans /\ lane[l].captured

\* A caller that makes all the calls of its script ends with the traces captured in every
\* lane, unless the group became terminal.
WarmupEndsCaptured == scenario.kind # "late" => <>(terminal \/ \A l \in Lanes : lane[l].captured)

=============================================================================

----------------------------- MODULE LaneGroupProofs ----------------------------
(***************************************************************************)
(* Proofs about Warmup and LaneGroup, for any number of lanes, any slots,  *)
(* cases, scripts and failures, and about OutputPool.                      *)
(*                                                                         *)
(* The lanes of a group are visited one after the other, so between two    *)
(* visits they differ.  The argument is that they are in lock step: the    *)
(* lanes visited are what one visit makes of the state in which the call   *)
(* found every lane, and the others still have that state.  On top of it:  *)
(* the barrier of the phased scripts, what a script has still to ask for,  *)
(* what a group that has done its script can serve, and the refinement of  *)
(* OneBatch.                                                               *)
(*                                                                         *)
(* Last, OutputPool: a cleanup of the group waits for every read that was  *)
(* submitted, for any number of threads, lanes, interrupted waits and      *)
(* failing cleanup actions, as long as submissions succeed.                *)
(***************************************************************************)
EXTENDS LaneGroup, OutputPool, FiniteSetTheorems, TLAPS

-----------------------------------------------------------------------------
(* Types, and what one lane's ledgers say of its registries. *)

Backed(s) ==
    /\ s.eager \subseteq s.programs
    /\ s.traced \subseteq s.programs \cap s.plans
    /\ \A op \in Ops : s.traceDecision[op] = "traced" => op \in TraceEnabled

WarmupTypes ==
    /\ scenario \in Scenarios
    /\ script \in Seq(Call)
    /\ \A i \in DOMAIN script : script[i].traced => script[i].op \in TraceEnabled
    /\ stage \in {"idle", "enter", "cases", "commit"}
    /\ stage # "idle" => script # <<>>
    /\ turn \in Lanes
    /\ stage = "idle" => turn = 1
    /\ lane \in [Lanes -> LaneState]
    /\ deferred \in BOOLEAN /\ terminal \in BOOLEAN

LanesBacked == \A l \in Lanes : Backed(lane[l])

LEMMA ScenarioFacts ==
    WarmupTypes => /\ Scenario(scenario) /\ LaneCount \in Nat \ {0}
                   /\ 1 \in Lanes /\ Lanes \subseteq Nat
BY ScenariosAssumption DEF WarmupTypes, Scenario, LaneCount, Lanes

\* The call that runs asks for traces only where the policy allows them.
LEMMA CallFacts ==
    WarmupTypes /\ script # <<>> =>
      /\ call \in Call /\ (call.traced => call.op \in TraceEnabled)
      /\ Tail(script) \in Seq(Call)
      /\ \A i \in DOMAIN Tail(script) : Tail(script)[i].traced => Tail(script)[i].op \in TraceEnabled
<1> SUFFICES ASSUME WarmupTypes, script # <<>>
             PROVE  /\ call \in Call /\ (call.traced => call.op \in TraceEnabled)
                    /\ Tail(script) \in Seq(Call)
                    /\ \A i \in DOMAIN Tail(script) :
                         Tail(script)[i].traced => Tail(script)[i].op \in TraceEnabled
  OBVIOUS
<1>1. /\ script \in Seq(Call) /\ Len(script) \in Nat /\ Len(script) > 0
      /\ \A i \in DOMAIN script : script[i].traced => script[i].op \in TraceEnabled
  BY DEF WarmupTypes
<1>2. 1 \in DOMAIN script /\ call = script[1] /\ script[1] \in Call
  BY <1>1 DEF call
<1>3. /\ Tail(script) \in Seq(Call)
      /\ \A i \in DOMAIN Tail(script) : i + 1 \in DOMAIN script /\ Tail(script)[i] = script[i + 1]
  BY <1>1
<1> QED BY <1>1, <1>2, <1>3

LEMMA FreshFacts == FreshLane \in LaneState /\ Backed(FreshLane) /\ ~FreshLane.pending
BY DEF FreshLane, LaneState, Backed, Ops

LEMMA WarmFacts == WarmLane \in LaneState /\ Backed(WarmLane)
<1>1. /\ [op \in Ops |-> IF op \in TraceEnabled THEN "traced" ELSE "eager"]
           \in [Ops -> {"none", "eager", "traced"}]
      /\ [op \in Ops |-> "device"] \in [Ops -> {"none", "host", "device"}]
  OBVIOUS
<1>2. {c \in Cases : c.traced /\ c.op \in TraceEnabled} \in SUBSET Cases
  OBVIOUS
<1>3. (TraceEnabled # {}) \in BOOLEAN
  OBVIOUS
<1> QED BY <1>1, <1>2, <1>3 DEF WarmLane, LaneState, Backed

LEMMA WarmupInitial == WarmupInit => WarmupTypes /\ LanesBacked
<1> SUFFICES ASSUME WarmupInit PROVE WarmupTypes /\ LanesBacked
  OBVIOUS
<1>1. scenario \in Scenarios /\ Scenario(scenario)
  BY ScenariosAssumption DEF WarmupInit
<1>2. /\ script \in Seq(Call) /\ 1 \in Lanes
      /\ \A i \in DOMAIN script : script[i].traced => script[i].op \in TraceEnabled
  BY <1>1 DEF WarmupInit, Scenario, TraceEnabled, Lanes, LaneCount
<1>3. lane \in [Lanes -> LaneState] /\ LanesBacked
  BY FreshFacts, WarmFacts DEF WarmupInit, LanesBacked
<1> QED BY <1>1, <1>2, <1>3 DEF WarmupInit, WarmupTypes

\* The decisions touch nothing else.
LEMMA DecidedFacts ==
    ASSUME NEW s \in LaneState, NEW request \in Call
    PROVE  /\ Decided(s, request) \in LaneState
           /\ \A f \in {"eager", "traced", "programs", "plans", "buffers", "captured", "pending"} :
                Decided(s, request)[f] = s[f]
           /\ Backed(s) /\ (request.traced => request.op \in TraceEnabled) =>
                Backed(Decided(s, request))
<1> DEFINE mine == [s.traceDecision EXCEPT ![request.op] = IF request.traced THEN "traced" ELSE "eager"]
           traces == IF request.op = "prefill" /\ request.traced /\ mine["decode"] = "eager"
                                               /\ "decode" \in TraceEnabled
                       THEN [mine EXCEPT !["decode"] = "none"] ELSE mine
           sampling == [s.samplingDecision EXCEPT
                          ![request.op] = IF request.sample THEN "device" ELSE "host"]
<1>1. /\ mine \in [Ops -> {"none", "eager", "traced"}]
      /\ \A op \in Ops : mine[op] = IF op = request.op
                                      THEN IF request.traced THEN "traced" ELSE "eager"
                                      ELSE s.traceDecision[op]
  BY DEF LaneState, Call
<1>2. traces \in [Ops -> {"none", "eager", "traced"}] /\ \A op \in Ops : traces[op] \in {"none", mine[op]}
  BY <1>1 DEF Ops
<1>3. sampling \in [Ops -> {"none", "host", "device"}]
  BY DEF LaneState, Call
<1>4. Decided(s, request) = [s EXCEPT !.samplingDecision = sampling, !.traceDecision = traces]
  BY DEF Decided, LaneState
<1> HIDE DEF mine, traces, sampling
<1>5. /\ Decided(s, request) \in LaneState /\ Decided(s, request).traceDecision = traces
      /\ \A f \in {"eager", "traced", "programs", "plans", "buffers", "captured", "pending"} :
           Decided(s, request)[f] = s[f]
  BY <1>2, <1>3, <1>4 DEF LaneState
<1>6. ASSUME Backed(s), request.traced => request.op \in TraceEnabled
      PROVE  Backed(Decided(s, request))
  BY <1>1, <1>2, <1>5, <1>6 DEF Backed
<1> QED BY <1>5, <1>6

-----------------------------------------------------------------------------
(* What one visit makes of a lane. *)

\* The decisions are recorded and the sampling buffers are there.
Entered(s) == [Decided(s, call) EXCEPT !.buffers = @ \/ call.sample]

\* Every case of the call is compiled.
TracedTodo(s) == {c \in Todo(s, call) : AsTraced(c, call)}

Cased(s) ==
    [eager |-> s.eager \cup (Todo(s, call) \ TracedTodo(s)),
     traced |-> s.traced \cup TracedTodo(s),
     programs |-> s.programs \cup Todo(s, call),
     plans |-> s.plans \cup TracedTodo(s),
     traceDecision |-> s.traceDecision, samplingDecision |-> s.samplingDecision,
     buffers |-> s.buffers, captured |-> s.captured, pending |-> s.pending]

Pending(s) == [s EXCEPT !.pending = TRUE]
Activated(s) == [s EXCEPT !.captured = TRUE, !.pending = FALSE]

\* The lane is left as it is, reports that it is ready, or captures.
Committed(s) ==
    IF ~Complete(s) THEN s ELSE IF deferred THEN Pending(s) ELSE [s EXCEPT !.captured = TRUE]

\* One more case is compiled.
Warmed(s, c) ==
    [s EXCEPT !.programs = @ \cup {c},
              !.plans = IF AsTraced(c, call) THEN @ \cup {c} ELSE @,
              !.traced = IF AsTraced(c, call) THEN @ \cup {c} ELSE @,
              !.eager = IF AsTraced(c, call) THEN @ ELSE @ \cup {c}]

LEMMA EnteredFacts ==
    ASSUME WarmupTypes, script # <<>>, NEW s \in LaneState
    PROVE  /\ Entered(s) \in LaneState /\ Entered(s).pending = s.pending
           /\ Backed(s) => Backed(Entered(s))
           /\ Decided(s, call) \in LaneState /\ Decided(s, call).pending = s.pending
           /\ Backed(s) => Backed(Decided(s, call))
<1> DEFINE d == Decided(s, call)
<1>1. call \in Call /\ (call.traced => call.op \in TraceEnabled)
  BY CallFacts
<1>2. d \in LaneState /\ d.pending = s.pending /\ (Backed(s) => Backed(d))
  BY <1>1, DecidedFacts
<1>3. Entered(s) = [d EXCEPT !.buffers = d.buffers \/ call.sample]
  BY DEF Entered
<1> HIDE DEF d
<1>4. (d.buffers \/ call.sample) \in BOOLEAN
  OBVIOUS
<1>5. /\ Entered(s) \in LaneState /\ Entered(s).pending = d.pending
      /\ Backed(d) => Backed(Entered(s))
  BY <1>2, <1>3, <1>4 DEF LaneState, Backed
<1> QED BY <1>2, <1>5 DEF d

\* With no case left, nothing is added.
LEMMA CasedDone ==
    ASSUME NEW s \in LaneState, Todo(s, call) = {}
    PROVE  Cased(s) = s
<1>1. /\ s.eager \cup (Todo(s, call) \ TracedTodo(s)) = s.eager
      /\ s.traced \cup TracedTodo(s) = s.traced
      /\ s.programs \cup Todo(s, call) = s.programs
      /\ s.plans \cup TracedTodo(s) = s.plans
  BY DEF TracedTodo
<1>2. s = [eager |-> s.eager, traced |-> s.traced, programs |-> s.programs, plans |-> s.plans,
           traceDecision |-> s.traceDecision, samplingDecision |-> s.samplingDecision,
           buffers |-> s.buffers, captured |-> s.captured, pending |-> s.pending]
  BY DEF LaneState
<1> QED BY <1>1, <1>2 DEF Cased

\* In whichever order the cases are compiled, the visit ends in the same state.
LEMMA WarmedFacts ==
    ASSUME NEW s \in LaneState, NEW c \in Todo(s, call)
    PROVE  /\ Warmed(s, c) \in LaneState
           /\ Warmed(s, c).pending = s.pending
           /\ Backed(s) => Backed(Warmed(s, c))
           /\ Cased(Warmed(s, c)) = Cased(s)
<1> DEFINE w == Warmed(s, c)
<1>1. c \in Cases
  BY DEF Todo, Plan
<1>2. /\ w.programs = s.programs \cup {c}
      /\ w.plans = IF AsTraced(c, call) THEN s.plans \cup {c} ELSE s.plans
      /\ w.traced = IF AsTraced(c, call) THEN s.traced \cup {c} ELSE s.traced
      /\ w.eager = IF AsTraced(c, call) THEN s.eager ELSE s.eager \cup {c}
      /\ w.traceDecision = s.traceDecision /\ w.samplingDecision = s.samplingDecision
      /\ w.buffers = s.buffers /\ w.captured = s.captured /\ w.pending = s.pending
  BY DEF Warmed, LaneState
<1>3. w \in LaneState
  BY <1>1, <1>2 DEF Warmed, LaneState
<1> HIDE DEF w
<1>4. Backed(s) => Backed(w)
  BY <1>2 DEF Backed
<1>5. Todo(w, call) = Todo(s, call) \ {c}
  BY <1>2 DEF Todo, Ledger
<1>6. TracedTodo(w) = TracedTodo(s) \ {c}
  BY <1>5 DEF TracedTodo
<1>7. /\ w.programs \cup Todo(w, call) = s.programs \cup Todo(s, call)
      /\ w.plans \cup TracedTodo(w) = s.plans \cup TracedTodo(s)
      /\ w.traced \cup TracedTodo(w) = s.traced \cup TracedTodo(s)
      /\ w.eager \cup (Todo(w, call) \ TracedTodo(w)) = s.eager \cup (Todo(s, call) \ TracedTodo(s))
  <2>1. CASE AsTraced(c, call)
    BY <1>2, <1>5, <1>6, <2>1 DEF TracedTodo
  <2>2. CASE ~AsTraced(c, call)
    BY <1>2, <1>5, <1>6, <2>2 DEF TracedTodo
  <2> QED BY <2>1, <2>2
<1>8. Cased(w) = Cased(s)
  BY <1>2, <1>7 DEF Cased
<1> QED BY <1>2, <1>3, <1>4, <1>8 DEF w

LEMMA FlagFacts ==
    ASSUME NEW s \in LaneState
    PROVE  /\ Pending(s) \in LaneState /\ (Backed(s) => Backed(Pending(s)))
           /\ Activated(s) \in LaneState /\ (Backed(s) => Backed(Activated(s)))
           /\ [s EXCEPT !.captured = TRUE] \in LaneState
           /\ Backed(s) => Backed([s EXCEPT !.captured = TRUE])
           /\ [s EXCEPT !.pending = FALSE] \in LaneState
           /\ Backed(s) => Backed([s EXCEPT !.pending = FALSE])
           /\ ~[s EXCEPT !.pending = FALSE].pending /\ ~Activated(s).pending
           /\ Pending(s).pending /\ Pending(s).captured = s.captured
           /\ [s EXCEPT !.captured = TRUE].pending = s.pending
BY DEF LaneState, Backed, Pending, Activated

-----------------------------------------------------------------------------
(* The lock step. *)

Together == scenario.joined = {} /\ ~terminal

\* What a whole visit makes of the state s.
Visited(s) == Committed(Cased(Entered(s)))

\* base: the state in which the call, or its commit, found every lane.
InStep ==
    /\ stage = "idle" => \E base \in LaneState : ~base.pending /\ \A l \in Lanes : lane[l] = base
    /\ stage \in {"enter", "cases"} =>
         \E base \in LaneState :
           /\ ~base.pending
           /\ \A l \in Lanes : (l < turn => lane[l] = Visited(base)) /\ (l > turn => lane[l] = base)
           /\ stage = "enter" => lane[turn] = base
           /\ stage = "cases" => Cased(lane[turn]) = Cased(Entered(base))
    /\ stage = "commit" =>
         \E base \in LaneState :
           /\ base.pending => deferred /\ ~base.captured
           /\ turn > 1 => base.pending
           /\ \A l \in Lanes : lane[l] = IF l < turn THEN Activated(base) ELSE base

WarmupInv == WarmupTypes /\ LanesBacked /\ (Together => InStep)

Lawful(lanes) == lanes \in [Lanes -> LaneState] /\ \A l \in Lanes : Backed(lanes[l])

LEMMA LawfulChange ==
    ASSUME WarmupTypes, LanesBacked, NEW s \in LaneState, Backed(s)
    PROVE  /\ Lawful(lane) /\ Lawful([lane EXCEPT ![turn] = s])
           /\ \A l \in Lanes : [lane EXCEPT ![turn] = s][l] = IF l = turn THEN s ELSE lane[l]
BY DEF WarmupTypes, LanesBacked, Lawful

\* A call that raises leaves one lane, or a terminal group.
LEMMA RaiseKeeps ==
    ASSUME WarmupInv, NEW lanes, Lawful(lanes), Raise(lanes)
    PROVE  WarmupInv'
<1> DEFINE cleared == [l \in Lanes |-> [lanes[l] EXCEPT !.pending = FALSE]]
<1>1. /\ stage' = "idle" /\ turn' = 1 /\ lane' = cleared /\ deferred' = FALSE
      /\ terminal' = Grouped /\ UNCHANGED <<scenario, script>> /\ Lanes' = Lanes
  BY DEF Raise, Lanes, LaneCount
<1>2. \A l \in Lanes : cleared[l] \in LaneState /\ Backed(cleared[l]) /\ ~cleared[l].pending
  BY FlagFacts DEF Lawful
<1>3. WarmupTypes'
  <2>1. lane' \in [Lanes -> LaneState]
    BY <1>1, <1>2
  <2>2. turn' \in Lanes' /\ terminal' \in BOOLEAN /\ deferred' \in BOOLEAN
    <3>1. Grouped \in BOOLEAN
      BY DEF Grouped
    <3> QED BY <1>1, <3>1, ScenarioFacts DEF WarmupInv
  <2>3. (\A i \in DOMAIN script : script[i].traced => script[i].op \in TraceEnabled)'
    BY <1>1 DEF WarmupInv, WarmupTypes, TraceEnabled
  <2> QED BY <1>1, <2>1, <2>2, <2>3 DEF WarmupInv, WarmupTypes
<1>4. LanesBacked'
  BY <1>1, <1>2 DEF LanesBacked, Backed, TraceEnabled
<1>5. Together' => InStep'
  <2> SUFFICES ASSUME Together' PROVE InStep'
    OBVIOUS
  <2>1. LaneCount \in Nat \ {0} /\ ~(LaneCount > 1)
    BY <1>1, ScenarioFacts DEF Together, Grouped, WarmupInv
  <2>2. Lanes = {1}
    BY <2>1 DEF Lanes
  <2>3. cleared[1] \in LaneState /\ ~cleared[1].pending /\ \A l \in Lanes' : lane'[l] = cleared[1]
    BY <1>1, <1>2, <2>2
  <2> HIDE DEF cleared
  <2> QED BY <1>1, <2>3 DEF InStep
<1> QED BY <1>3, <1>4, <1>5 DEF WarmupInv

LEMMA ReturnKeeps ==
    ASSUME WarmupInv, script # <<>>, NEW lanes, Lawful(lanes), Return(lanes),
           Together => \E base \in LaneState : ~base.pending /\ \A l \in Lanes : lanes[l] = base
    PROVE  WarmupInv'
<1>1. /\ stage' = "idle" /\ turn' = 1 /\ lane' = lanes /\ deferred' = FALSE
      /\ script' = Tail(script) /\ UNCHANGED <<scenario, terminal>> /\ Lanes' = Lanes
      /\ TraceEnabled' = TraceEnabled
  BY DEF Return, Lanes, LaneCount, TraceEnabled
<1>2. WarmupTypes'
  <2>1. /\ script' \in Seq(Call)
        /\ \A i \in DOMAIN script' : script'[i].traced => script'[i].op \in TraceEnabled'
    BY <1>1, CallFacts DEF WarmupInv
  <2>2. turn' \in Lanes' /\ lane' \in [Lanes' -> LaneState]
    BY <1>1, ScenarioFacts DEF WarmupInv, Lawful
  <2> QED BY <1>1, <2>1, <2>2 DEF WarmupInv, WarmupTypes
<1>3. LanesBacked'
  BY <1>1 DEF LanesBacked, Lawful, Backed
<1>4. Together' => InStep'
  BY <1>1 DEF Together, InStep
<1> QED BY <1>2, <1>3, <1>4 DEF WarmupInv

\* Within a call, the base of the lock step stays what it is.
LEMMA VisitedStays ==
    UNCHANGED <<scenario, script, deferred>> =>
      \A s : Entered(s)' = Entered(s) /\ Cased(s)' = Cased(s) /\ Visited(s)' = Visited(s)
<1> SUFFICES ASSUME UNCHANGED <<scenario, script, deferred>>, NEW s
             PROVE  Entered(s)' = Entered(s) /\ Cased(s)' = Cased(s) /\ Visited(s)' = Visited(s)
  OBVIOUS
<1>1. TraceEnabled' = TraceEnabled /\ call' = call
  BY DEF TraceEnabled, call
<1>2. \A t : Decided(t, call)' = Decided(t, call) /\ Todo(t, call)' = Todo(t, call)
  BY <1>1 DEF Decided, Todo, Ledger, AsTraced, Plan
<1>3. \A t : Entered(t)' = Entered(t)
  BY <1>1, <1>2 DEF Entered
<1>4. \A t : Cased(t)' = Cased(t)
  BY <1>1, <1>2 DEF Cased, TracedTodo, AsTraced
<1>5. \A t : Complete(t)' = Complete(t)
  BY <1>1 DEF Complete, RequiredTraces, Plan
<1>6. \A t : Committed(t)' = Committed(t)
  BY <1>5 DEF Committed, Pending
<1> QED BY <1>3, <1>4, <1>6 DEF Visited

\* A change of the lane at its turn that keeps types.
LEMMA TurnKeeps ==
    ASSUME WarmupInv, UNCHANGED <<scenario, script, terminal, deferred>>,
           NEW lanes, Lawful(lanes), lane' = lanes, script # <<>>,
           stage' \in {"enter", "cases", "commit"}, turn' \in Lanes
    PROVE  WarmupTypes' /\ LanesBacked'
BY DEF WarmupInv, WarmupTypes, LanesBacked, Lawful, Backed, TraceEnabled, Lanes, LaneCount

-----------------------------------------------------------------------------
(* The steps. *)

LEMMA StartKeeps == WarmupInv /\ StartCall => WarmupInv'
<1> SUFFICES ASSUME WarmupInv, StartCall PROVE WarmupInv'
  OBVIOUS
<1>1. /\ stage = "idle" /\ stage' = "enter" /\ script # <<>> /\ turn = 1
      /\ UNCHANGED <<scenario, script, turn, lane, terminal>> /\ Lanes' = Lanes
      /\ TraceEnabled' = TraceEnabled
  BY DEF StartCall, WarmupInv, WarmupTypes, Lanes, LaneCount, TraceEnabled
<1>2. deferred' \in BOOLEAN
  <2>1. call.traced \in BOOLEAN
    BY <1>1, CallFacts DEF WarmupInv, Call
  <2> QED BY <2>1 DEF StartCall, Grouped
<1>3. WarmupTypes' /\ LanesBacked'
  BY <1>1, <1>2 DEF WarmupInv, WarmupTypes, LanesBacked, Backed
<1>4. Together' => InStep'
  <2> SUFFICES ASSUME Together PROVE InStep'
    BY <1>1 DEF Together
  <2>1. PICK base \in LaneState : ~base.pending /\ \A l \in Lanes : lane[l] = base
    BY <1>1 DEF WarmupInv, InStep
  <2>2. \A l \in Lanes : ~(l < 1)
    BY DEF Lanes
  <2>3. 1 \in Lanes
    BY ScenarioFacts DEF WarmupInv
  <2> QED BY <1>1, <2>1, <2>2, <2>3 DEF InStep
<1> QED BY <1>3, <1>4 DEF WarmupInv

\* What the lock step says during a visit, and is left to show after a step of the visit.
LEMMA VisitKeeps ==
    ASSUME WarmupInv, stage \in {"enter", "cases"}, UNCHANGED <<scenario, script, terminal, deferred, turn>>,
           stage' = "cases", NEW s \in LaneState, Backed(s), lane' = [lane EXCEPT ![turn] = s],
           \/ stage = "enter" /\ s = Entered(lane[turn])
           \/ stage = "cases" /\ Cased(s) = Cased(lane[turn])
    PROVE  WarmupInv'
<1>1. script # <<>> /\ turn \in Lanes /\ Lanes' = Lanes
  BY DEF WarmupInv, WarmupTypes, Lanes, LaneCount
<1>2. /\ Lawful([lane EXCEPT ![turn] = s])
      /\ \A l \in Lanes : lane'[l] = IF l = turn THEN s ELSE lane[l]
  BY LawfulChange DEF WarmupInv
<1>3. WarmupTypes' /\ LanesBacked'
  BY <1>1, <1>2, TurnKeeps
<1>4. Together' => InStep'
  <2> SUFFICES ASSUME Together PROVE InStep'
    BY DEF Together
  <2>1. PICK base \in LaneState :
          /\ ~base.pending
          /\ \A l \in Lanes : (l < turn => lane[l] = Visited(base)) /\ (l > turn => lane[l] = base)
          /\ stage = "enter" => lane[turn] = base
          /\ stage = "cases" => Cased(lane[turn]) = Cased(Entered(base))
    BY DEF WarmupInv, InStep
  <2>2. Cased(s) = Cased(Entered(base))
    BY <2>1
  <2>3. \A l \in Lanes : (l < turn => lane'[l] = Visited(base)) /\ (l > turn => lane'[l] = base)
    <3>1. \A l \in Lanes : l < turn \/ l > turn => l # turn
      BY <1>1 DEF Lanes
    <3> QED BY <1>2, <2>1, <3>1
  <2>4. Visited(base)' = Visited(base) /\ Cased(Entered(base))' = Cased(Entered(base))
        /\ Cased(s)' = Cased(s)
    <3>1. Entered(base)' = Entered(base) /\ Visited(base)' = Visited(base)
      BY VisitedStays
    <3>2. \A t : Cased(t)' = Cased(t)
      BY VisitedStays
    <3> QED BY <3>1, <3>2
  <2>5. lane'[turn] = s
    BY <1>1, <1>2
  <2>6. (Cased(lane[turn]) = Cased(Entered(base)))'
    BY <2>2, <2>4, <2>5
  <2> QED BY <1>1, <2>1, <2>3, <2>4, <2>6 DEF InStep
<1> QED BY <1>3, <1>4 DEF WarmupInv

LEMMA EnterKeeps == WarmupInv /\ EnterLane => WarmupInv'
<1> SUFFICES ASSUME WarmupInv, EnterLane PROVE WarmupInv'
  OBVIOUS
<1>1. stage = "enter" /\ script # <<>> /\ lane[turn] \in LaneState /\ Backed(lane[turn])
  BY DEF EnterLane, WarmupInv, WarmupTypes, LanesBacked
<1> DEFINE decided == Decided(lane[turn], call)
<1>2. decided \in LaneState /\ Backed(decided) /\ Entered(lane[turn]) \in LaneState
      /\ Backed(Entered(lane[turn]))
  BY <1>1, EnteredFacts DEF WarmupInv
<1>3. CASE Raise([lane EXCEPT ![turn] = decided])
  <2>1. Lawful([lane EXCEPT ![turn] = decided])
    BY <1>2, LawfulChange DEF WarmupInv
  <2> QED BY <1>3, <2>1, RaiseKeeps
<1>4. CASE /\ lane' = [lane EXCEPT ![turn] = Entered(lane[turn])] /\ stage' = "cases"
           /\ UNCHANGED <<scenario, script, turn, deferred, terminal>>
  BY <1>1, <1>2, <1>4, VisitKeeps
<1> QED BY <1>3, <1>4 DEF EnterLane, Entered

LEMMA CaseKeeps == \A c \in Cases : WarmupInv /\ WarmCase(c) => WarmupInv'
<1> SUFFICES ASSUME NEW c \in Cases, WarmupInv, WarmCase(c) PROVE WarmupInv'
  OBVIOUS
<1>1. /\ stage = "cases" /\ stage' = "cases" /\ lane[turn] \in LaneState /\ Backed(lane[turn])
      /\ c \in Todo(lane[turn], call) /\ UNCHANGED <<scenario, script, turn, deferred, terminal>>
  BY DEF WarmCase, WarmupInv, WarmupTypes, LanesBacked
<1>2. lane' = [lane EXCEPT ![turn] = Warmed(lane[turn], c)]
  BY DEF WarmCase, Warmed
<1>3. /\ Warmed(lane[turn], c) \in LaneState /\ Backed(Warmed(lane[turn], c))
      /\ Cased(Warmed(lane[turn], c)) = Cased(lane[turn])
  BY <1>1, WarmedFacts
<1> QED BY <1>1, <1>2, <1>3, VisitKeeps

LEMMA CaseRaises == \A c \in Cases : WarmupInv /\ (CaseFails(c) \/ CaseRefused(c)) => WarmupInv'
<1> SUFFICES ASSUME NEW c \in Cases, WarmupInv, CaseFails(c) \/ CaseRefused(c) PROVE WarmupInv'
  OBVIOUS
<1>1. lane[turn] \in LaneState /\ Backed(lane[turn])
  BY DEF WarmupInv, WarmupTypes, LanesBacked
<1>2. CASE CaseFails(c)
  <2>1. PICK programs \in {{}, {c}} : Raise([lane EXCEPT ![turn].programs = @ \cup programs])
    BY <1>2 DEF CaseFails
  <2> DEFINE s == [lane[turn] EXCEPT !.programs = lane[turn].programs \cup programs]
  <2>2. s \in LaneState /\ Backed(s)
    BY <1>1 DEF LaneState, Backed
  <2>3. Lawful([lane EXCEPT ![turn] = s])
    BY <2>2, LawfulChange DEF WarmupInv
  <2>4. Raise([lane EXCEPT ![turn] = s])
    BY <2>1
  <2> HIDE DEF s
  <2> QED BY <2>3, <2>4, RaiseKeeps
<1>3. CASE CaseRefused(c)
  <2>1. Lawful(lane)
    BY DEF WarmupInv, WarmupTypes, LanesBacked, Lawful
  <2> QED BY <1>3, <2>1, RaiseKeeps DEF CaseRefused
<1> QED BY <1>2, <1>3

\* A visit ends.
LEMMA NextLaneKeeps ==
    ASSUME WarmupInv, LaneDone, NextLane([lane EXCEPT ![turn] = Committed(lane[turn])])
    PROVE  WarmupInv'
<1> DEFINE s == Committed(lane[turn])
<1>1. /\ stage = "cases" /\ script # <<>> /\ Todo(lane[turn], call) = {}
      /\ turn \in Lanes /\ LaneCount \in Nat /\ lane[turn] \in LaneState /\ Backed(lane[turn])
      /\ Lanes' = Lanes /\ LaneCount' = LaneCount /\ 1 \in Lanes
      /\ UNCHANGED <<scenario, script, deferred, terminal>> /\ lane' = [lane EXCEPT ![turn] = s]
  BY ScenarioFacts DEF NextLane, LaneDone, WarmupInv, WarmupTypes, LanesBacked, Lanes, LaneCount
<1>2. s \in LaneState /\ Backed(s)
  BY <1>1, FlagFacts DEF Committed
<1>3. /\ Lawful([lane EXCEPT ![turn] = s])
      /\ \A l \in Lanes : lane'[l] = IF l = turn THEN s ELSE lane[l]
  BY <1>1, <1>2, LawfulChange DEF WarmupInv
<1>4. \/ turn < LaneCount /\ turn' = turn + 1 /\ stage' = "enter"
      \/ turn = LaneCount /\ turn' = 1 /\ stage' = "commit"
  BY <1>1 DEF NextLane, Lanes
<1>5. turn' \in Lanes
  BY <1>1, <1>4 DEF Lanes
<1>6. WarmupTypes' /\ LanesBacked'
  BY <1>1, <1>3, <1>4, <1>5, TurnKeeps
<1>7. Together' => InStep'
  <2> SUFFICES ASSUME Together PROVE InStep'
    BY <1>1 DEF Together
  <2>1. PICK base \in LaneState :
          /\ ~base.pending
          /\ \A l \in Lanes : (l < turn => lane[l] = Visited(base)) /\ (l > turn => lane[l] = base)
          /\ Cased(lane[turn]) = Cased(Entered(base))
    BY <1>1 DEF WarmupInv, InStep
  <2>2. s = Visited(base) /\ lane[turn] = Cased(Entered(base))
    BY <1>1, <2>1, CasedDone DEF Visited
  <2>3. Visited(base)' = Visited(base)
    BY <1>1, VisitedStays
  <2> HIDE DEF s
  <2>4. CASE turn < LaneCount
    <3>1. /\ turn' = turn + 1 /\ stage' = "enter"
          /\ \A l \in Lanes : /\ l < turn' => l < turn \/ l = turn
                              /\ l > turn' => l > turn /\ l # turn
                              /\ l < turn => l # turn
          /\ turn' > turn /\ turn' # turn
      BY <1>1, <1>4, <2>4 DEF Lanes
    <3>2. \A l \in Lanes : (l < turn' => lane'[l] = Visited(base)) /\ (l > turn' => lane'[l] = base)
      BY <1>3, <2>1, <2>2, <3>1
    <3>3. lane'[turn'] = base
      BY <1>3, <1>5, <2>1, <3>1
    <3> QED BY <1>1, <2>1, <2>3, <3>1, <3>2, <3>3 DEF InStep
  <2>5. CASE turn = LaneCount
    <3>1. /\ turn' = 1 /\ stage' = "commit" /\ \A l \in Lanes : ~(l < 1) /\ (l # turn => l < turn)
      BY <1>1, <1>4, <2>5 DEF Lanes
    <3>2. \A l \in Lanes : lane'[l] = s
      BY <1>3, <2>1, <2>2, <3>1
    <3>3. s.pending => deferred /\ ~s.captured
      <4>1. ~lane[turn].pending
        <5>1. Cased(Entered(base)).pending = Entered(base).pending
          BY DEF Cased
        <5> QED BY <1>1, <2>1, <2>2, <5>1, EnteredFacts DEF WarmupInv
      <4>2. Complete(lane[turn]) => ~lane[turn].captured
        BY DEF Complete
      <4> QED BY <1>1, <4>1, <4>2, FlagFacts DEF s, Committed
    <3> QED BY <1>1, <1>2, <3>1, <3>2, <3>3 DEF InStep
  <2> QED BY <1>4, <2>4, <2>5
<1> QED BY <1>6, <1>7 DEF WarmupInv

LEMMA VisitEnds == WarmupInv /\ (LaneWaits \/ LanePends \/ LaneCaptures) => WarmupInv'
<1> SUFFICES ASSUME WarmupInv, LaneWaits \/ LanePends \/ LaneCaptures PROVE WarmupInv'
  OBVIOUS
<1>1. lane \in [Lanes -> LaneState] /\ turn \in Lanes /\ LaneDone /\ Lawful(lane)
  BY DEF WarmupInv, WarmupTypes, LanesBacked, Lawful, LaneWaits, LanePends, LaneCaptures
<1>2. CASE LaneWaits
  <2>1. lane = [lane EXCEPT ![turn] = lane[turn]] /\ Committed(lane[turn]) = lane[turn]
    BY <1>1, <1>2 DEF LaneWaits, Committed
  <2> QED BY <1>1, <1>2, <2>1, NextLaneKeeps DEF LaneWaits
<1>3. CASE LanePends
  <2>1. NextLane([lane EXCEPT ![turn] = Committed(lane[turn])])
    BY <1>3 DEF LanePends, Committed, Pending
  <2> QED BY <1>1, <2>1, NextLaneKeeps
<1>4. CASE LaneCaptures
  <2>1. \/ NextLane([lane EXCEPT ![turn] = Committed(lane[turn])])
        \/ Raise(lane)
    BY <1>4 DEF LaneCaptures, Committed
  <2> QED BY <1>1, <2>1, NextLaneKeeps, RaiseKeeps
<1> QED BY <1>2, <1>3, <1>4

LEMMA FinishKeeps == WarmupInv /\ (FinishCall \/ RefuseMixed) => WarmupInv'
<1> SUFFICES ASSUME WarmupInv, FinishCall \/ RefuseMixed PROVE WarmupInv'
  OBVIOUS
<1>1. /\ stage = "commit" /\ turn = 1 /\ script # <<>> /\ Lawful(lane)
      /\ 1 \in Lanes /\ \A l \in Lanes : ~(l < 1)
  BY ScenarioFacts DEF WarmupInv, WarmupTypes, LanesBacked, Lawful, FinishCall, RefuseMixed, Lanes
<1>2. CASE RefuseMixed
  BY <1>1, <1>2, RaiseKeeps DEF RefuseMixed
<1>3. CASE FinishCall
  <2>1. ASSUME Together
        PROVE  \E base \in LaneState : ~base.pending /\ \A l \in Lanes : lane[l] = base
    <3>1. PICK base \in LaneState :
            /\ base.pending => deferred /\ ~base.captured
            /\ \A l \in Lanes : lane[l] = base
      BY <1>1, <2>1 DEF WarmupInv, InStep
    <3>2. ~base.pending
      BY <1>1, <1>3, <3>1 DEF FinishCall, Readiness
    <3> QED BY <3>1, <3>2
  <2> QED BY <1>1, <1>3, <2>1, ReturnKeeps DEF FinishCall
<1> QED BY <1>2, <1>3

LEMMA ActivateKeeps == WarmupInv /\ Activate => WarmupInv'
<1> SUFFICES ASSUME WarmupInv, Activate PROVE WarmupInv'
  OBVIOUS
<1> DEFINE s == Activated(lane[turn])
           lanes == [lane EXCEPT ![turn] = s]
<1>1. /\ stage = "commit" /\ script # <<>> /\ Lawful(lane) /\ turn \in Lanes /\ LaneCount \in Nat
      /\ lane[turn] \in LaneState /\ Backed(lane[turn]) /\ lane[turn].pending
      /\ lanes = [lane EXCEPT ![turn].captured = TRUE, ![turn].pending = FALSE]
  BY ScenarioFacts DEF WarmupInv, WarmupTypes, LanesBacked, Lawful, Activate, Activated
<1>2. s \in LaneState /\ Backed(s) /\ ~s.pending
  BY <1>1, FlagFacts
<1>3. Lawful(lanes) /\ \A l \in Lanes : lanes[l] = IF l = turn THEN s ELSE lane[l]
  BY <1>2, LawfulChange DEF WarmupInv
<1>4. ASSUME Together
      PROVE  \E base \in LaneState :
               /\ base.pending => deferred /\ ~base.captured
               /\ base.pending /\ Activated(base) = s
               /\ \A l \in Lanes : lane[l] = IF l < turn THEN Activated(base) ELSE base
  <2>1. PICK base \in LaneState :
          /\ base.pending => deferred /\ ~base.captured
          /\ \A l \in Lanes : lane[l] = IF l < turn THEN Activated(base) ELSE base
    BY <1>1, <1>4 DEF WarmupInv, InStep
  <2>2. lane[turn] = base
    BY <1>1, <2>1 DEF Lanes
  <2> QED BY <1>1, <2>1, <2>2
<1>5. CASE turn = LaneCount /\ Return(lanes)
  <2>1. \A l \in Lanes : l # turn => l < turn
    BY <1>1, <1>5 DEF Lanes
  <2>2. ASSUME Together PROVE \A l \in Lanes : lanes[l] = s
    BY <1>3, <1>4, <2>1, <2>2
  <2> HIDE DEF s, lanes
  <2> QED BY <1>1, <1>2, <1>3, <1>5, <2>2, ReturnKeeps
<1>6. CASE /\ turn < LaneCount /\ turn' = turn + 1 /\ lane' = lanes /\ stage' = stage
           /\ UNCHANGED <<scenario, script, deferred, terminal>>
  <2>1. /\ turn' \in Lanes /\ Lanes' = Lanes /\ turn' > 1
        /\ \A l \in Lanes : l < turn' <=> (l < turn \/ l = turn)
    BY <1>1, <1>6 DEF Lanes, LaneCount
  <2>2. WarmupTypes' /\ LanesBacked'
    BY <1>1, <1>3, <1>6, <2>1, TurnKeeps
  <2>3. Together' => InStep'
    <3> SUFFICES ASSUME Together PROVE InStep'
      BY <1>6 DEF Together
    <3>1. PICK base \in LaneState :
            /\ base.pending => deferred /\ ~base.captured
            /\ base.pending /\ Activated(base) = s
            /\ \A l \in Lanes : lane[l] = IF l < turn THEN Activated(base) ELSE base
      BY <1>4
    <3> HIDE DEF s
    <3>2. \A l \in Lanes : lane'[l] = IF l < turn' THEN Activated(base) ELSE base
      BY <1>3, <1>6, <2>1, <3>1
    <3>3. Activated(base)' = Activated(base)
      BY DEF Activated
    <3> QED BY <1>1, <1>6, <2>1, <3>1, <3>2, <3>3 DEF InStep
  <2> QED BY <2>2, <2>3 DEF WarmupInv
<1>7. CASE Raise(lane)
  BY <1>1, <1>7, RaiseKeeps
<1> QED BY <1>1, <1>5, <1>6, <1>7 DEF Activate

LEMMA WarmupKeeps == WarmupInv /\ [WarmupNext]_warmupVars => WarmupInv'
<1> SUFFICES ASSUME WarmupInv, [WarmupNext]_warmupVars PROVE WarmupInv'
  OBVIOUS
<1>1. CASE UNCHANGED warmupVars
  <2>1. /\ UNCHANGED <<scenario, script, stage, turn, lane, deferred, terminal>>
        /\ Lanes' = Lanes /\ TraceEnabled' = TraceEnabled
    BY <1>1 DEF warmupVars, Lanes, LaneCount, TraceEnabled
  <2>2. WarmupTypes' /\ LanesBacked'
    BY <2>1 DEF WarmupInv, WarmupTypes, LanesBacked, Backed
  <2>3. Together' => InStep'
    <3>1. \A t : Visited(t)' = Visited(t) /\ Cased(t)' = Cased(t) /\ Entered(t)' = Entered(t)
      BY <2>1, VisitedStays
    <3>2. \A t : Activated(t)' = Activated(t) /\ Cased(Entered(t))' = Cased(Entered(t))
      BY <3>1 DEF Activated
    <3>3. Cased(lane[turn])' = Cased(lane[turn])
      BY <2>1, <3>1
    <3> QED BY <2>1, <3>1, <3>2, <3>3 DEF WarmupInv, Together, InStep
  <2> QED BY <2>2, <2>3 DEF WarmupInv
<1> QED BY <1>1, StartKeeps, EnterKeeps, CaseKeeps, CaseRaises, VisitEnds, FinishKeeps, ActivateKeeps
        DEF WarmupNext

-----------------------------------------------------------------------------
(* The barrier: capture is deferred by the traced calls of a group, and a lane pends only   *)
(* from its visit to its activation.                                                         *)

BarrierInv ==
    /\ stage = "idle" => ~deferred
    /\ stage # "idle" => ~terminal /\ deferred = (Grouped /\ call.traced)
    /\ \A l \in Lanes : lane[l].pending => deferred /\ ~lane[l].captured /\ stage # "idle"
    /\ stage \in {"enter", "cases"} => \A l \in Lanes : l >= turn => ~lane[l].pending
    /\ stage = "commit" => \A l \in Lanes : l < turn => ~lane[l].pending


LEMMA BarrierKeeps == WarmupInv /\ BarrierInv /\ [WarmupNext]_warmupVars => BarrierInv'
<1> SUFFICES ASSUME WarmupInv, BarrierInv, [WarmupNext]_warmupVars PROVE BarrierInv'
  OBVIOUS
<1>1. /\ lane \in [Lanes -> LaneState] /\ turn \in Lanes /\ LaneCount \in Nat \ {0} /\ 1 \in Lanes
      /\ stage \in {"idle", "enter", "cases", "commit"} /\ (stage = "idle" => turn = 1)
      /\ (stage # "idle" => script # <<>>) /\ deferred \in BOOLEAN
  BY ScenarioFacts DEF WarmupInv, WarmupTypes
<1>2. ASSUME NEW lanes, Raise(lanes), lanes \in [Lanes -> LaneState] PROVE BarrierInv'
  BY <1>2 DEF Raise, BarrierInv, Lanes, LaneCount, LaneState
<1>3. ASSUME NEW lanes, Return(lanes), \A l \in Lanes : ~lanes[l].pending PROVE BarrierInv'
  BY <1>3 DEF Return, BarrierInv, Lanes, LaneCount
<1>4. ASSUME NEW s \in LaneState, s.pending = lane[turn].pending, s.captured = lane[turn].captured,
             lane' = [lane EXCEPT ![turn] = s], stage \in {"enter", "cases"}, stage' = "cases",
             UNCHANGED <<scenario, script, turn, deferred, terminal>>
      PROVE  BarrierInv'
  <2>1. /\ Lanes' = Lanes /\ Grouped' = Grouped /\ call' = call
        /\ \A l \in Lanes : lane'[l] = IF l = turn THEN s ELSE lane[l]
    BY <1>1, <1>4 DEF Lanes, LaneCount, Grouped, call
  <2> QED BY <1>4, <2>1 DEF BarrierInv
<1>5. ASSUME NEW s \in LaneState, s.pending => deferred /\ ~s.captured, NextLane([lane EXCEPT ![turn] = s]),
             stage = "cases"
      PROVE  BarrierInv'
  <2>1. /\ Lanes' = Lanes /\ Grouped' = Grouped /\ call' = call
        /\ UNCHANGED <<scenario, script, deferred, terminal>>
        /\ \A l \in Lanes : lane'[l] = IF l = turn THEN s ELSE lane[l]
    BY <1>1, <1>5 DEF Lanes, LaneCount, Grouped, call, NextLane
  <2>2. \/ stage' = "enter" /\ turn' = turn + 1
        \/ stage' = "commit" /\ turn' = 1
    BY <1>5 DEF NextLane
  <2>3. \A l \in Lanes : (l >= turn + 1 => l # turn /\ l >= turn) /\ ~(l < 1)
    BY <1>1 DEF Lanes
  <2>4. \A l \in Lanes : lane'[l].pending => deferred' /\ ~lane'[l].captured /\ stage' # "idle"
    BY <1>5, <2>1, <2>2 DEF BarrierInv
  <2>5. stage' \in {"enter", "cases"} => \A l \in Lanes : l >= turn' => ~lane'[l].pending
    BY <1>5, <2>1, <2>2, <2>3 DEF BarrierInv
  <2>6. stage' = "commit" => \A l \in Lanes : l < turn' => ~lane'[l].pending
    BY <2>2, <2>3
  <2>7. stage' # "idle" /\ ~terminal' /\ deferred' = (Grouped /\ call.traced)'
    BY <1>5, <2>1, <2>2 DEF BarrierInv
  <2> QED BY <2>1, <2>4, <2>5, <2>6, <2>7 DEF BarrierInv
<1>6. CASE UNCHANGED warmupVars
  BY <1>6 DEF BarrierInv, warmupVars, Lanes, LaneCount, Grouped, call
<1>7. CASE StartCall
  BY <1>1, <1>7 DEF BarrierInv, StartCall, Lanes, LaneCount, Grouped, call
<1>8. CASE EnterLane
  <2>1. /\ Entered(lane[turn]) \in LaneState /\ Decided(lane[turn], call) \in LaneState
        /\ Entered(lane[turn]).pending = lane[turn].pending
    BY <1>1, <1>8, EnteredFacts DEF EnterLane, WarmupInv
  <2>2. Entered(lane[turn]).captured = lane[turn].captured
    <3>1. Decided(lane[turn], call).captured = lane[turn].captured
      BY <1>1, <1>8, DecidedFacts, CallFacts DEF EnterLane, WarmupInv
    <3> QED BY <2>1, <3>1 DEF Entered, LaneState
  <2>3. CASE Raise([lane EXCEPT ![turn] = Decided(lane[turn], call)])
    BY <1>1, <1>2, <2>1, <2>3
  <2>4. CASE /\ lane' = [lane EXCEPT ![turn] = Entered(lane[turn])] /\ stage' = "cases"
             /\ UNCHANGED <<scenario, script, turn, deferred, terminal>>
    BY <1>4, <1>8, <2>1, <2>2, <2>4 DEF EnterLane
  <2> QED BY <1>8, <2>3, <2>4 DEF EnterLane, Entered
<1>9. ASSUME NEW c \in Cases, WarmCase(c) PROVE BarrierInv'
  <2>1. /\ Warmed(lane[turn], c) \in LaneState /\ Warmed(lane[turn], c).pending = lane[turn].pending
    BY <1>1, <1>9, WarmedFacts DEF WarmCase
  <2>2. Warmed(lane[turn], c).captured = lane[turn].captured
    BY <1>1 DEF Warmed, LaneState
  <2>3. lane' = [lane EXCEPT ![turn] = Warmed(lane[turn], c)]
    BY <1>9 DEF WarmCase, Warmed
  <2> QED BY <1>4, <1>9, <2>1, <2>2, <2>3 DEF WarmCase
<1>10. ASSUME NEW c \in Cases, CaseFails(c) \/ CaseRefused(c) PROVE BarrierInv'
  <2>1. CASE CaseFails(c)
    <3>1. PICK programs \in {{}, {c}} : Raise([lane EXCEPT ![turn].programs = @ \cup programs])
      BY <2>1 DEF CaseFails
    <3>2. /\ lane[turn] \in LaneState /\ programs \subseteq Cases
          /\ \A s \in LaneState, p \in SUBSET Cases : [s EXCEPT !.programs = @ \cup p] \in LaneState
      BY <1>1, <1>10 DEF LaneState
    <3>3. [lane[turn] EXCEPT !.programs = @ \cup programs] \in LaneState
      BY <3>2
    <3>4. [lane EXCEPT ![turn].programs = @ \cup programs] \in [Lanes -> LaneState]
      BY <1>1, <3>3
    <3> QED BY <1>2, <3>1, <3>4
  <2>2. CASE CaseRefused(c)
    BY <1>1, <1>2, <2>2 DEF CaseRefused
  <2> QED BY <1>10, <2>1, <2>2
<1>11. CASE LaneWaits
  <2>1. lane = [lane EXCEPT ![turn] = lane[turn]]
    BY <1>1
  <2> QED BY <1>1, <1>5, <1>11, <2>1 DEF LaneWaits, LaneDone, BarrierInv
<1>12. CASE LanePends
  <2>1. Pending(lane[turn]) \in LaneState /\ Pending(lane[turn]).captured = lane[turn].captured
    BY <1>1, FlagFacts
  <2> QED BY <1>5, <1>12, <2>1 DEF LanePends, LaneDone, Complete, Pending
<1>13. CASE LaneCaptures
  <2>1. CASE Raise(lane)
    BY <1>1, <1>2, <2>1
  <2>2. CASE NextLane([lane EXCEPT ![turn].captured = TRUE])
    <3> DEFINE s == [lane[turn] EXCEPT !.captured = TRUE]
    <3>1. s \in LaneState /\ s.pending = lane[turn].pending
      BY <1>1, FlagFacts
    <3>2. ~lane[turn].pending
      BY <1>1, <1>13 DEF BarrierInv, LaneCaptures, LaneDone, Lanes
    <3> QED BY <1>5, <1>13, <2>2, <3>1, <3>2 DEF LaneCaptures, LaneDone
  <2> QED BY <1>13, <2>1, <2>2 DEF LaneCaptures
<1>14. CASE FinishCall
  <2>1. \A l \in Lanes : ~lane[l].pending
    BY <1>1, <1>14 DEF FinishCall, BarrierInv, Mixed, Readiness
  <2> QED BY <1>3, <1>14, <2>1 DEF FinishCall
<1>15. CASE RefuseMixed
  BY <1>1, <1>2, <1>15 DEF RefuseMixed
<1>16. CASE Activate
  <2> DEFINE s == Activated(lane[turn])
             lanes == [lane EXCEPT ![turn] = s]
  <2>1. /\ lanes = [lane EXCEPT ![turn].captured = TRUE, ![turn].pending = FALSE]
        /\ s \in LaneState /\ ~s.pending /\ stage = "commit" /\ lane[turn].pending
        /\ \A l \in Lanes : lanes[l] = IF l = turn THEN s ELSE lane[l]
    BY <1>1, <1>16, FlagFacts DEF Activate, Activated
  <2>2. CASE Raise(lane)
    BY <1>1, <1>2, <2>2
  <2>3. CASE turn = LaneCount /\ Return(lanes)
    <3>1. \A l \in Lanes : l = turn \/ l < turn
      BY <1>1, <2>3 DEF Lanes
    <3>2. \A l \in Lanes : ~lanes[l].pending
      BY <2>1, <3>1 DEF BarrierInv
    <3> HIDE DEF lanes, s
    <3> QED BY <1>3, <2>3, <3>2
  <2>4. CASE /\ turn' = turn + 1 /\ lane' = lanes /\ stage' = stage
             /\ UNCHANGED <<scenario, script, deferred, terminal>>
    <3>1. /\ Lanes' = Lanes /\ Grouped' = Grouped /\ call' = call
          /\ \A l \in Lanes : l < turn' => l = turn \/ l < turn
      BY <1>1, <2>4 DEF Lanes, LaneCount, Grouped, call
    <3> HIDE DEF s
    <3> QED BY <2>1, <2>4, <3>1 DEF BarrierInv
  <2> QED BY <1>16, <2>1, <2>2, <2>3, <2>4 DEF Activate
<1> QED BY <1>6, <1>7, <1>8, <1>9, <1>10, <1>11, <1>12, <1>13, <1>14, <1>15, <1>16 DEF WarmupNext

-----------------------------------------------------------------------------
(* Phased calls: nothing is captured before the last call of the script.                    *)

\* What is left of a phased script.
PhasedRest ==
    LET n == Len(script)
    IN  /\ TraceEnabled = Ops /\ scenario.joined = {}
        /\ n >= 2 => script[n - 1].op # script[n].op
        /\ \A i \in 1 .. n : script[i].traced <=> i >= n - 1
        /\ \A i \in 1 .. n - 2 : script[i].op = "prefill" => script[n].op = "decode"

\* A lane that cannot capture yet: no decision asks for traces of the operation the script
\* ends with, and none is left of an earlier call once the other one asks for them.
Early(s) ==
    LET final == script[Len(script)].op
    IN  /\ s.traceDecision[final] # "traced"
        /\ final = "prefill" => s.traceDecision[final] = "none"
        /\ \A op \in Ops : s.traceDecision[op] = "traced" => Len(script) = 2 /\ s.traceDecision[final] = "none"

\* Covered, of the state of a lane.
Whole(s) ==
    \A op \in Ops :
      /\ s.samplingDecision[op] # "none"
      /\ Plan(op, s.samplingDecision[op] = "device") \subseteq s.programs
      /\ RequiredTraces(s) \subseteq s.plans

OnlyAtTheEnd ==
    /\ PhasedRest
    /\ \A l \in Lanes : lane[l].pending \/ lane[l].captured => Whole(lane[l])
    /\ (\E l \in Lanes : lane[l].captured) => \A m \in Lanes : Whole(lane[m])
    /\ ~terminal =>
        /\ Len(script) >= 2 => \A l \in Lanes : ~lane[l].captured /\ ~lane[l].pending /\ Early(lane[l])
        /\ script # <<>> /\ stage # "commit" => \A l \in Lanes : ~lane[l].captured
        /\ stage = "commit" /\ turn > 1 => \A l \in Lanes : Whole(lane[l])
PhasedInv == scenario.kind = "phased" => OnlyAtTheEnd


LEMMA SameFields ==
    ASSUME NEW s, NEW t, s.traceDecision = t.traceDecision
    PROVE  /\ Early(s) <=> Early(t)
           /\ s.samplingDecision = t.samplingDecision /\ s.programs = t.programs /\ s.plans = t.plans =>
                (Whole(s) <=> Whole(t))
BY DEF Early, Whole, RequiredTraces

LEMMA CompleteIsWhole == ASSUME NEW s, Backed(s), Complete(s) PROVE Whole(s)
BY DEF Backed, Complete, Whole

LEMMA EarlyIsIncomplete ==
    ASSUME PhasedRest, script \in Seq(Call), Len(script) >= 2, NEW s, Early(s)
    PROVE  ~Complete(s)
<1> DEFINE final == script[Len(script)].op
<1>1. final \in TraceEnabled /\ TraceEnabled = Ops
  <2>1. Len(script) \in Nat /\ script[Len(script)] \in Call
    OBVIOUS
  <2> QED BY <2>1 DEF PhasedRest, Call
<1>2. CASE s.traceDecision[final] = "none"
  BY <1>1, <1>2 DEF Complete
<1>3. CASE s.traceDecision[final] # "none"
  BY <1>1, <1>3 DEF Early, Complete, RequiredTraces
<1> QED BY <1>2, <1>3

\* A call but the last one leaves the decisions early.
LEMMA EarlyDecided ==
    ASSUME PhasedRest, script \in Seq(Call), Len(script) >= 2, NEW s \in LaneState, Early(s)
    PROVE  Early(Decided(s, call))
<1>0. PICK n \in Nat : n = Len(script) /\ n >= 2
  OBVIOUS
<1> DEFINE final == script[n].op
           mine == [s.traceDecision EXCEPT ![call.op] = IF call.traced THEN "traced" ELSE "eager"]
           traces == IF call.op = "prefill" /\ call.traced /\ mine["decode"] = "eager"
                                            /\ "decode" \in TraceEnabled
                       THEN [mine EXCEPT !["decode"] = "none"] ELSE mine
<1>1. call = script[1] /\ call \in Call /\ script[n] \in Call
  BY <1>0 DEF call
<1>2. call.op \in Ops /\ final \in Ops /\ Ops = {"prefill", "decode"} /\ TraceEnabled = Ops
      /\ call.traced \in BOOLEAN
  BY <1>1 DEF Call, Ops, PhasedRest
<1>3. /\ call.traced <=> n = 2
      /\ n = 2 => call.op # final
      /\ n > 2 => (call.op = "prefill" => final = "decode")
  <2>1. /\ 1 \in 1 .. n /\ (n = 2 => n - 1 = 1) /\ (n > 2 => 1 \in 1 .. n - 2)
        /\ 1 >= n - 1 <=> n = 2
    BY <1>0
  <2>2. /\ script[n - 1].op # script[n].op
        /\ \A i \in 1 .. n : script[i].traced <=> i >= n - 1
        /\ \A i \in 1 .. n - 2 : script[i].op = "prefill" => script[n].op = "decode"
    BY <1>0 DEF PhasedRest
  <2> QED BY <1>1, <2>1, <2>2
<1>4. \A op \in Ops : mine[op] = IF op = call.op THEN IF call.traced THEN "traced" ELSE "eager"
                                               ELSE s.traceDecision[op]
  BY <1>2 DEF LaneState
<1>5. mine \in [Ops -> {"none", "eager", "traced"}]
  BY <1>2 DEF LaneState
<1>6. Decided(s, call).traceDecision = traces
  BY DEF Decided, LaneState
<1>7. \A op \in Ops : traces[op] = IF op = "decode" /\ call.op = "prefill" /\ call.traced /\ mine["decode"] = "eager"
                                     THEN "none" ELSE mine[op]
  BY <1>2, <1>5
<1>8. /\ s.traceDecision[final] # "traced"
      /\ final = "prefill" => s.traceDecision[final] = "none"
      /\ \A op \in Ops : s.traceDecision[op] = "traced" => n = 2 /\ s.traceDecision[final] = "none"
      /\ \A op \in Ops : s.traceDecision[op] \in {"none", "eager", "traced"}
  BY <1>0 DEF Early, LaneState
<1> HIDE DEF mine, traces
<1>9. CASE n = 2
  <2>1. traces[final] = "none"
    <3>1. CASE call.op = "prefill"
      <4>1. final = "decode" /\ mine["decode"] = s.traceDecision["decode"] /\ call.traced
        BY <1>2, <1>3, <1>4, <1>9, <3>1
      <4> QED BY <1>2, <1>7, <1>8, <3>1, <4>1
    <3>2. CASE call.op = "decode"
      <4>1. final = "prefill" /\ mine["prefill"] = s.traceDecision["prefill"]
        BY <1>2, <1>3, <1>4, <1>9, <3>2
      <4> QED BY <1>2, <1>7, <1>8, <3>2, <4>1
    <3> QED BY <1>2, <3>1, <3>2
  <2> QED BY <1>0, <1>6, <1>9, <2>1 DEF Early
<1>10. CASE n > 2
  BY <1>1, <1>2, <1>3, <1>4, <1>6, <1>7, <1>8, <1>10, <1>0 DEF Early
<1>11. n = 2 \/ n > 2
  BY <1>0
<1> QED BY <1>9, <1>10, <1>11

\* The rest of a phased script is one.
LEMMA PhasedTail ==
    ASSUME WarmupTypes, script # <<>>, PhasedRest, script' = Tail(script), UNCHANGED scenario
    PROVE  /\ PhasedRest'
           /\ Len(script') = Len(script) - 1
           /\ Len(script') >= 2 => \A s : Early(s) => Early(s)'
<1>1. /\ script \in Seq(Call) /\ Len(script) \in Nat /\ Len(script) > 0 /\ Len(script') = Len(script) - 1
      /\ \A i \in 1 .. Len(script) - 1 : script'[i] = script[i + 1]
      /\ TraceEnabled' = TraceEnabled
  BY DEF WarmupTypes, TraceEnabled
<1>2. PhasedRest'
  <2>1. /\ TraceEnabled' = Ops' /\ scenario'.joined = {}
    BY <1>1 DEF PhasedRest, Ops
  <2>2. Len(script') >= 2 => script'[Len(script') - 1].op # script'[Len(script')].op
    BY <1>1 DEF PhasedRest
  <2>3. ASSUME NEW i \in 1 .. Len(script') PROVE script'[i].traced <=> i >= Len(script') - 1
    <3>1. script'[i] = script[i + 1] /\ i + 1 \in 1 .. Len(script)
      BY <1>1
    <3> QED BY <1>1, <3>1 DEF PhasedRest
  <2>4. ASSUME NEW i \in 1 .. Len(script') - 2, script'[i].op = "prefill"
        PROVE  script'[Len(script')].op = "decode"
    <3>1. script'[i] = script[i + 1] /\ i + 1 \in 1 .. Len(script) - 2
          /\ script'[Len(script')] = script[Len(script)]
      BY <1>1
    <3> QED BY <2>4, <3>1 DEF PhasedRest
  <2> QED BY <2>1, <2>2, <2>3, <2>4 DEF PhasedRest
<1>3. ASSUME Len(script') >= 2, NEW s, Early(s) PROVE Early(s)'
  <2>1. script'[Len(script')] = script[Len(script)] /\ Len(script) # 2
    BY <1>1, <1>3
  <2> QED BY <1>3, <2>1 DEF Early, Ops
<1> QED BY <1>1, <1>2, <1>3

LEMMA PhasedKeeps == WarmupInv /\ BarrierInv /\ PhasedInv /\ [WarmupNext]_warmupVars => PhasedInv'
<1> SUFFICES ASSUME WarmupInv, BarrierInv, PhasedInv, [WarmupNext]_warmupVars, scenario'.kind = "phased"
             PROVE  OnlyAtTheEnd'
  BY DEF PhasedInv
<1>1. /\ lane \in [Lanes -> LaneState] /\ turn \in Lanes /\ LaneCount \in Nat \ {0} /\ 1 \in Lanes
      /\ stage \in {"idle", "enter", "cases", "commit"} /\ (stage # "idle" => script # <<>> /\ ~terminal)
      /\ script \in Seq(Call) /\ Len(script) \in Nat /\ (script # <<>> => Len(script) >= 1)
      /\ deferred => Grouped /\ stage # "idle"
  <2>1. /\ lane \in [Lanes -> LaneState] /\ turn \in Lanes /\ script \in Seq(Call)
        /\ stage \in {"idle", "enter", "cases", "commit"}
        /\ LaneCount \in Nat \ {0} /\ 1 \in Lanes /\ (stage # "idle" => script # <<>> /\ ~terminal)
    BY ScenarioFacts DEF WarmupInv, WarmupTypes, BarrierInv
  <2>2. Len(script) \in Nat /\ (script # <<>> => Len(script) >= 1)
    BY <2>1
  <2>3. deferred => Grouped /\ stage # "idle"
    BY DEF BarrierInv
  <2> QED BY <2>1, <2>2, <2>3
<1>2. /\ UNCHANGED scenario /\ scenario.kind = "phased" /\ OnlyAtTheEnd
      /\ Lanes' = Lanes /\ LaneCount' = LaneCount
      /\ \A s : Whole(s)' = Whole(s)
      /\ UNCHANGED script => PhasedRest' /\ \A s : Early(s)' = Early(s)
  <2>1. UNCHANGED scenario
    BY DEF WarmupNext, warmupVars, StartCall, EnterLane, WarmCase, CaseFails, CaseRefused, LaneWaits,
           LanePends, LaneCaptures, NextLane, FinishCall, RefuseMixed, Activate, Raise, Return
  <2>2. scenario.kind = "phased" /\ OnlyAtTheEnd
    BY <2>1 DEF PhasedInv
  <2>3. TraceEnabled' = TraceEnabled
    BY <2>1 DEF TraceEnabled
  <2>4. UNCHANGED script => PhasedRest' /\ \A s : Early(s)' = Early(s)
    BY <2>1, <2>2, <2>3 DEF OnlyAtTheEnd, PhasedRest, Early
  <2> QED BY <2>1, <2>2, <2>3, <2>4 DEF Lanes, LaneCount, Whole, RequiredTraces
<1>3. ASSUME NEW lanes \in [Lanes -> LaneState], Raise(lanes), ~terminal,
             Len(script) >= 2 => \A l \in Lanes : Early(lanes[l]) /\ ~lanes[l].captured,
             \A l, m \in Lanes : lanes[l].captured => Whole(lanes[m]),
             ~Grouped => \A l \in Lanes : ~lanes[l].captured
      PROVE  OnlyAtTheEnd'
  <2> DEFINE cleared == [l \in Lanes |-> [lanes[l] EXCEPT !.pending = FALSE]]
  <2>1. /\ stage' = "idle" /\ lane' = cleared /\ terminal' = Grouped /\ UNCHANGED script
    BY <1>3 DEF Raise
  <2>2. \A l \in Lanes : /\ cleared[l].traceDecision = lanes[l].traceDecision
                         /\ cleared[l].samplingDecision = lanes[l].samplingDecision
                         /\ cleared[l].programs = lanes[l].programs /\ cleared[l].plans = lanes[l].plans
                         /\ cleared[l].captured = lanes[l].captured /\ ~cleared[l].pending
    BY DEF LaneState
  <2>3. \A l \in Lanes : (Whole(cleared[l]) <=> Whole(lanes[l])) /\ (Early(cleared[l]) <=> Early(lanes[l]))
    BY <2>2, SameFields
  <2> HIDE DEF cleared
  <2> QED BY <1>2, <1>3, <2>1, <2>2, <2>3 DEF OnlyAtTheEnd
<1>4. ASSUME NEW lanes \in [Lanes -> LaneState], Return(lanes), script # <<>>,
             Len(script) >= 2 => \A l \in Lanes : Early(lanes[l]) /\ ~lanes[l].captured,
             \A l, m \in Lanes : lanes[l].captured => Whole(lanes[m]),
             \A l \in Lanes : ~lanes[l].pending
      PROVE  OnlyAtTheEnd'
  <2>1. stage' = "idle" /\ lane' = lanes /\ UNCHANGED terminal /\ script' = Tail(script)
    BY <1>4 DEF Return
  <2>2. /\ PhasedRest' /\ Len(script') = Len(script) - 1
        /\ Len(script') >= 2 => \A s : Early(s) => Early(s)'
    BY <1>2, <1>4, <2>1, PhasedTail DEF WarmupInv, OnlyAtTheEnd
  <2>3. (script' # <<>> => Len(script) >= 2) /\ (Len(script') >= 2 => Len(script) >= 2)
    BY <1>1, <1>4, <2>1, <2>2
  <2> QED BY <1>2, <1>4, <2>1, <2>2, <2>3 DEF OnlyAtTheEnd
<1>5. ASSUME stage \in {"enter", "cases"}
      PROVE  /\ \A l \in Lanes : ~lane[l].captured
             /\ ~lane[turn].pending /\ (Len(script) >= 2 => Early(lane[turn]))
  BY <1>1, <1>2, <1>5 DEF OnlyAtTheEnd, BarrierInv, Lanes
<1>6. ASSUME NEW s \in LaneState, ~s.pending, ~s.captured, Len(script) >= 2 => Early(s),
             lane' = [lane EXCEPT ![turn] = s], stage \in {"enter", "cases"}, stage' = "cases",
             UNCHANGED <<script, turn, terminal>>
      PROVE  OnlyAtTheEnd'
  <2>1. \A l \in Lanes : lane'[l] = IF l = turn THEN s ELSE lane[l]
    BY <1>1, <1>6
  <2> QED BY <1>1, <1>2, <1>5, <1>6, <2>1 DEF OnlyAtTheEnd
<1>7. ASSUME NEW s \in LaneState, s.pending \/ s.captured => Whole(s) /\ ~(Len(script) >= 2),
             s.captured => ~Grouped, Len(script) >= 2 => Early(s),
             NextLane([lane EXCEPT ![turn] = s]), stage = "cases"
      PROVE  OnlyAtTheEnd'
  <2>1. /\ UNCHANGED <<script, terminal>>
        /\ \A l \in Lanes : lane'[l] = IF l = turn THEN s ELSE lane[l]
        /\ \/ stage' = "enter" /\ turn < LaneCount
           \/ stage' = "commit" /\ turn' = 1
    BY <1>1, <1>7 DEF NextLane
  <2>2. s.captured => stage' = "commit" /\ \A l \in Lanes : l = turn
    BY <1>1, <1>7, <2>1 DEF Grouped, Lanes
  <2>3. \A l \in Lanes : ~lane[l].captured
    BY <1>5, <1>7
  <2> QED BY <1>1, <1>2, <1>7, <2>1, <2>2, <2>3 DEF OnlyAtTheEnd
<1>8. CASE UNCHANGED warmupVars
  BY <1>2, <1>8 DEF OnlyAtTheEnd, warmupVars
<1>9. CASE StartCall
  BY <1>2, <1>9 DEF OnlyAtTheEnd, StartCall
<1>10. CASE EnterLane
  <2> DEFINE d == Decided(lane[turn], call)
             e == Entered(lane[turn])
  <2>1. /\ d \in LaneState /\ d.captured = lane[turn].captured /\ d.pending = lane[turn].pending
        /\ e \in LaneState
    BY <1>1, <1>10, DecidedFacts, CallFacts, EnteredFacts DEF EnterLane, WarmupInv
  <2>2. Len(script) >= 2 => Early(d)
    BY <1>1, <1>2, <1>5, <1>10, EarlyDecided DEF EnterLane, OnlyAtTheEnd
  <2>3. e.captured = d.captured /\ e.pending = d.pending /\ e.traceDecision = d.traceDecision
    BY <2>1 DEF Entered, LaneState
  <2>4. Early(e) <=> Early(d)
    BY <2>3, SameFields
  <2> HIDE DEF d, e
  <2>5. CASE Raise([lane EXCEPT ![turn] = d])
    <3>1. /\ [lane EXCEPT ![turn] = d] \in [Lanes -> LaneState]
          /\ \A l \in Lanes : [lane EXCEPT ![turn] = d][l] = IF l = turn THEN d ELSE lane[l]
      BY <1>1, <2>1
    <3>2. /\ \A l \in Lanes : ~[lane EXCEPT ![turn] = d][l].captured
          /\ Len(script) >= 2 => \A l \in Lanes : Early([lane EXCEPT ![turn] = d][l])
      BY <1>1, <1>2, <1>5, <1>10, <2>1, <2>2, <3>1 DEF EnterLane, OnlyAtTheEnd
    <3> QED BY <1>1, <1>3, <1>10, <2>5, <3>1, <3>2 DEF EnterLane
  <2>6. CASE /\ lane' = [lane EXCEPT ![turn] = e] /\ stage' = "cases"
             /\ UNCHANGED <<script, turn, terminal>>
    <3>1. stage = "enter"
      BY <1>10 DEF EnterLane
    <3>2. ~e.pending /\ ~e.captured /\ (Len(script) >= 2 => Early(e))
      BY <1>1, <1>5, <2>1, <2>2, <2>3, <2>4, <3>1
    <3> QED BY <1>6, <2>1, <2>6, <3>1, <3>2
  <2> QED BY <1>10, <2>5, <2>6 DEF EnterLane, Entered, d, e
<1>11. ASSUME NEW c \in Cases, WarmCase(c) PROVE OnlyAtTheEnd'
  <2> DEFINE w == Warmed(lane[turn], c)
  <2>1. /\ w \in LaneState /\ w.pending = lane[turn].pending /\ w.captured = lane[turn].captured
        /\ w.traceDecision = lane[turn].traceDecision
    <3>1. w \in LaneState /\ w.pending = lane[turn].pending
      BY <1>1, <1>11, WarmedFacts DEF WarmCase
    <3> QED BY <1>1, <3>1 DEF Warmed, LaneState
  <2>2. lane' = [lane EXCEPT ![turn] = w]
    BY <1>11 DEF WarmCase, Warmed
  <2>3. Early(w) <=> Early(lane[turn])
    BY <2>1, SameFields
  <2> HIDE DEF w
  <2>4. /\ stage = "cases" /\ stage' = "cases" /\ UNCHANGED <<script, turn, terminal>>
    BY <1>11 DEF WarmCase
  <2>5. ~w.pending /\ ~w.captured /\ (Len(script) >= 2 => Early(w))
    BY <1>1, <1>5, <2>1, <2>3, <2>4
  <2> QED BY <1>6, <2>1, <2>2, <2>4, <2>5
<1>12. ASSUME NEW c \in Cases, CaseFails(c) \/ CaseRefused(c) PROVE OnlyAtTheEnd'
  <2>1. stage = "cases" /\ ~terminal
    BY <1>1, <1>12 DEF CaseFails, CaseRefused
  <2>2. CASE CaseFails(c)
    <3>1. PICK programs \in {{}, {c}} : Raise([lane EXCEPT ![turn].programs = @ \cup programs])
      BY <2>2 DEF CaseFails
    <3> DEFINE s == [lane[turn] EXCEPT !.programs = @ \cup programs]
    <3>2. /\ s \in LaneState /\ s.captured = lane[turn].captured
          /\ s.traceDecision = lane[turn].traceDecision
      BY <1>1 DEF LaneState
    <3>3. Early(s) <=> Early(lane[turn])
      BY <3>2, SameFields
    <3>4. [lane EXCEPT ![turn].programs = @ \cup programs] = [lane EXCEPT ![turn] = s]
      BY <1>1
    <3> HIDE DEF s
    <3>5. /\ [lane EXCEPT ![turn] = s] \in [Lanes -> LaneState]
          /\ \A l \in Lanes : [lane EXCEPT ![turn] = s][l] = IF l = turn THEN s ELSE lane[l]
      BY <1>1, <3>2
    <3>6. /\ \A l \in Lanes : ~[lane EXCEPT ![turn] = s][l].captured
          /\ Len(script) >= 2 => \A l \in Lanes : Early([lane EXCEPT ![turn] = s][l])
      BY <1>1, <1>2, <1>5, <2>1, <3>2, <3>3, <3>5 DEF OnlyAtTheEnd
    <3> QED BY <1>3, <2>1, <3>1, <3>4, <3>5, <3>6
  <2>3. CASE CaseRefused(c)
    <3>1. Len(script) >= 2 => \A l \in Lanes : Early(lane[l])
      BY <1>2, <2>1 DEF OnlyAtTheEnd
    <3> QED BY <1>1, <1>3, <1>5, <2>1, <2>3, <3>1 DEF CaseRefused
  <2> QED BY <1>12, <2>2, <2>3
<1>13. ASSUME LaneDone, Complete(lane[turn])
       PROVE  Whole(lane[turn]) /\ ~(Len(script) >= 2) /\ stage = "cases"
  <2>1. stage = "cases" /\ Backed(lane[turn]) /\ (Len(script) >= 2 => Early(lane[turn]))
    BY <1>1, <1>5, <1>13 DEF LaneDone, WarmupInv, LanesBacked
  <2> QED BY <1>1, <1>2, <1>13, <2>1, CompleteIsWhole, EarlyIsIncomplete DEF OnlyAtTheEnd
<1>14. CASE LaneWaits
  <2>1. lane = [lane EXCEPT ![turn] = lane[turn]]
    BY <1>1
  <2> QED BY <1>1, <1>5, <1>7, <1>14, <2>1 DEF LaneWaits, LaneDone
<1>15. CASE LanePends
  <2> DEFINE s == Pending(lane[turn])
  <2>1. /\ s \in LaneState /\ s.captured = lane[turn].captured /\ s.traceDecision = lane[turn].traceDecision
        /\ s.samplingDecision = lane[turn].samplingDecision /\ s.programs = lane[turn].programs
        /\ s.plans = lane[turn].plans
    BY <1>1 DEF Pending, LaneState
  <2>2. Whole(s)
    BY <1>13, <1>15, <2>1, SameFields DEF LanePends
  <2>3. NextLane([lane EXCEPT ![turn] = s])
    BY <1>15 DEF LanePends, Pending
  <2> HIDE DEF s
  <2> QED BY <1>1, <1>5, <1>7, <1>13, <1>15, <2>1, <2>2, <2>3 DEF LanePends
<1>16. CASE LaneCaptures
  <2>1. CASE Raise(lane)
    <3>1. stage = "cases" /\ ~terminal /\ ~(Len(script) >= 2)
      BY <1>1, <1>13, <1>16 DEF LaneCaptures
    <3> QED BY <1>1, <1>3, <1>5, <2>1, <3>1
  <2>2. CASE NextLane([lane EXCEPT ![turn].captured = TRUE])
    <3> DEFINE s == [lane[turn] EXCEPT !.captured = TRUE]
    <3>1. /\ s \in LaneState /\ s.traceDecision = lane[turn].traceDecision
          /\ s.samplingDecision = lane[turn].samplingDecision /\ s.programs = lane[turn].programs
          /\ s.plans = lane[turn].plans
      BY <1>1 DEF LaneState
    <3>2. Whole(s)
      BY <1>13, <1>16, <3>1, SameFields DEF LaneCaptures
    <3>3. ~Grouped
      <4>1. script # <<>> /\ ~(Len(script) >= 2) /\ PhasedRest /\ stage = "cases"
        BY <1>1, <1>2, <1>13, <1>16 DEF LaneCaptures, OnlyAtTheEnd
      <4>2. Len(script) = 1
        <5>1. Len(script) \in Nat /\ Len(script) >= 1 /\ ~(Len(script) >= 2)
          BY <1>1, <4>1
        <5>2. \A n \in Nat : n >= 1 /\ ~(n >= 2) => n = 1
          OBVIOUS
        <5> QED BY <5>1, <5>2
      <4>3. call.traced
        BY <1>1, <4>1, <4>2 DEF PhasedRest, call
      <4> QED BY <1>16, <4>1, <4>3 DEF LaneCaptures, BarrierInv
    <3>4. NextLane([lane EXCEPT ![turn] = s])
      BY <2>2
    <3> HIDE DEF s
    <3> QED BY <1>7, <1>13, <1>16, <3>1, <3>2, <3>3, <3>4 DEF LaneCaptures
  <2> QED BY <1>16, <2>1, <2>2 DEF LaneCaptures
<1>17. CASE FinishCall
  <2>1. \A l \in Lanes : ~lane[l].pending
    BY <1>1, <1>17 DEF FinishCall, BarrierInv, Mixed, Readiness
  <2> QED BY <1>1, <1>2, <1>4, <1>17, <2>1 DEF FinishCall, OnlyAtTheEnd
<1>18. CASE RefuseMixed
  BY <1>1, <1>2, <1>3, <1>18 DEF RefuseMixed, OnlyAtTheEnd
<1>19. CASE Activate
  <2> DEFINE s == Activated(lane[turn])
             lanes == [lane EXCEPT ![turn] = s]
  <2>1. /\ lanes = [lane EXCEPT ![turn].captured = TRUE, ![turn].pending = FALSE]
        /\ s \in LaneState /\ ~s.pending /\ stage = "commit" /\ lane[turn].pending /\ deferred
        /\ \A l \in Lanes : lanes[l] = IF l = turn THEN s ELSE lane[l]
        /\ lanes \in [Lanes -> LaneState]
    BY <1>1, <1>19, FlagFacts DEF Activate, Activated
  <2>2. ~(Len(script) >= 2) /\ script # <<>> /\ ~terminal
    BY <1>1, <1>2, <2>1 DEF OnlyAtTheEnd
  <2>3. \A l \in Lanes : Whole(lane[l])
    <3>1. CASE turn = 1
      <4>1. \A l \in Lanes : lane[l].pending
        BY <1>1, <1>19, <2>1, <3>1 DEF Activate, Mixed, Readiness, BarrierInv
      <4> QED BY <1>2, <4>1 DEF OnlyAtTheEnd
    <3>2. CASE turn # 1
      <4>1. turn > 1
        BY <1>1, <3>2 DEF Lanes
      <4> QED BY <1>2, <2>1, <2>2, <4>1 DEF OnlyAtTheEnd
    <3> QED BY <3>1, <3>2
  <2>4. Whole(s)
    <3>1. /\ s.traceDecision = lane[turn].traceDecision
          /\ s.samplingDecision = lane[turn].samplingDecision /\ s.programs = lane[turn].programs
          /\ s.plans = lane[turn].plans
      BY <1>1 DEF Activated, LaneState
    <3> QED BY <1>1, <2>3, <3>1, SameFields
  <2> HIDE DEF s
  <2>5. \A l \in Lanes : Whole(lanes[l])
    BY <2>1, <2>3, <2>4
  <2> HIDE DEF lanes
  <2>6. CASE Raise(lane)
    BY <1>1, <1>3, <2>1, <2>2, <2>3, <2>6
  <2>7. CASE turn = LaneCount /\ Return(lanes)
    <3>1. \A l \in Lanes : l = turn \/ l < turn
      BY <1>1, <2>7 DEF Lanes
    <3>2. \A l \in Lanes : ~lanes[l].pending
      BY <2>1, <3>1 DEF BarrierInv
    <3> QED BY <1>4, <2>1, <2>2, <2>5, <2>7, <3>2
  <2>8. CASE lane' = lanes /\ stage' = stage /\ UNCHANGED <<script, terminal>>
    BY <1>2, <2>1, <2>2, <2>5, <2>8 DEF OnlyAtTheEnd
  <2> QED BY <1>19, <2>1, <2>6, <2>7, <2>8 DEF Activate
<1> QED BY <1>8, <1>9, <1>10, <1>11, <1>12, <1>14, <1>15, <1>16, <1>17, <1>18, <1>19 DEF WarmupNext

-----------------------------------------------------------------------------
(* A group that will serve: when the script of a caller has come to its end, every lane has *)
(* what both operations need, and has captured.                                             *)

Left(q, op) == \E i \in DOMAIN q : q[i].op = op

\* Every call that is left samples; one that leaves out traces is followed by another one.
AskedRest ==
    \A i \in DOMAIN script :
      /\ script[i].sample
      /\ \/ script[i].traced = (script[i].op \in TraceEnabled)
         \/ \E j \in DOMAIN script : i < j /\ script[j].op = script[i].op

\* The lane has all that serving an operation needs.
Settled(s, op) ==
    /\ s.traceDecision[op] = IF op \in TraceEnabled THEN "traced" ELSE "eager"
    /\ s.samplingDecision[op] = "device" /\ s.buffers
    /\ \A c \in Plan(op, TRUE) : c \in IF c.traced /\ op \in TraceEnabled THEN s.traced ELSE s.eager

Through(s, q) == \A op \in Ops : Settled(s, op) \/ Left(q, op)

\* The lanes the current call is done with.
Done(l) == stage = "commit" \/ (stage # "idle" /\ l < turn)

EndsCaptured ==
    /\ "decode" \in TraceEnabled /\ AskedRest
    /\ ~terminal =>
        /\ \A l \in Lanes : Through(lane[l], script)
        /\ script = <<>> => \A l \in Lanes : lane[l].captured
        /\ \A l \in Lanes : Done(l) =>
             /\ Through(lane[l], Tail(script))
             /\ Tail(script) = <<>> => lane[l].captured \/ lane[l].pending
        /\ stage = "cases" =>
             /\ lane[turn].traceDecision[call.op] = IF call.traced THEN "traced" ELSE "eager"
             /\ lane[turn].samplingDecision[call.op] = "device" /\ lane[turn].buffers
             /\ \A op \in Ops \ {call.op} : Settled(lane[turn], op) \/ Left(Tail(script), op)
        /\ stage = "commit" => \A l \in Lanes : l < turn => lane[l].captured

ServedInv == scenario.kind # "late" /\ scenario.forwards > 0 => EndsCaptured

LEMMA SettledStays ==
    ASSUME NEW s, NEW t, NEW op \in Ops, Settled(s, op),
           t.traceDecision[op] = s.traceDecision[op], t.samplingDecision[op] = s.samplingDecision[op],
           s.buffers => t.buffers, s.eager \subseteq t.eager, s.traced \subseteq t.traced
    PROVE  Settled(t, op)
BY DEF Settled

\* A lane that is settled and has not captured is complete.
LEMMA SettledIsComplete ==
    ASSUME NEW s, \A op \in Ops : Settled(s, op), "decode" \in TraceEnabled, TraceEnabled \subseteq Ops,
           ~s.captured
    PROVE  Complete(s)
<1>1. \A op \in Ops : /\ s.samplingDecision[op] = "device"
                      /\ Plan(op, s.samplingDecision[op] = "device") = Plan(op, TRUE)
  BY DEF Settled, Plan
<1>2. \A op \in Ops : Plan(op, TRUE) \subseteq s.eager \cup s.traced
  BY DEF Settled
<1>3. \A op \in TraceEnabled : s.traceDecision[op] = "traced"
  BY DEF Settled
<1>4. RequiredTraces(s) \subseteq s.traced
  BY <1>1 DEF RequiredTraces, Settled, Plan
<1>5. RequiredTraces(s) # {}
  <2>1. PICK c \in Cases : c.op = "decode" /\ c.path = "topk"
    BY GroupAssumption
  <2>2. c.traced /\ c \in Plan("decode", TRUE)
    BY <2>1, CasesAssumption DEF Plan
  <2>3. c \in RequiredTraces(s)
    <3> DEFINE held(op) == {e \in Plan(op, s.samplingDecision[op] = "device") : e.traced}
    <3>1. c \in held("decode") /\ "decode" \in {op \in TraceEnabled : s.traceDecision[op] = "traced"}
      BY <1>1, <1>3, <2>2 DEF Ops
    <3>2. RequiredTraces(s) = UNION {held(op) : op \in {op \in TraceEnabled : s.traceDecision[op] = "traced"}}
      BY DEF RequiredTraces
    <3> HIDE DEF held
    <3> QED BY <3>1, <3>2
  <2> QED BY <2>3
<1> QED BY <1>1, <1>2, <1>3, <1>4, <1>5 DEF Complete

\* Entering a lane for one operation leaves what the other one has.
LEMMA SettledEntered ==
    ASSUME WarmupTypes, script # <<>>, NEW s \in LaneState, NEW op \in Ops \ {call.op}, Settled(s, op)
    PROVE  Settled(Decided(s, call), op) /\ Settled(Entered(s), op)
<1> DEFINE mine == [s.traceDecision EXCEPT ![call.op] = IF call.traced THEN "traced" ELSE "eager"]
           traces == IF call.op = "prefill" /\ call.traced /\ mine["decode"] = "eager"
                                            /\ "decode" \in TraceEnabled
                       THEN [mine EXCEPT !["decode"] = "none"] ELSE mine
           d == Decided(s, call)
<1>1. call \in Call /\ call.op \in Ops
  BY CallFacts DEF Call
<1>2. d \in LaneState /\ Entered(s) \in LaneState /\ d.buffers = s.buffers /\ d.eager = s.eager
      /\ d.traced = s.traced
  BY <1>1, DecidedFacts, EnteredFacts
<1>3. d.traceDecision = traces
  BY DEF Decided, LaneState
<1>4. mine \in [Ops -> {"none", "eager", "traced"}] /\ mine[op] = s.traceDecision[op]
  BY <1>1 DEF LaneState
<1>5. traces[op] = s.traceDecision[op]
  <2>1. op = "decode" /\ "decode" \in TraceEnabled => mine["decode"] = "traced"
    BY <1>4 DEF Settled
  <2> HIDE DEF mine
  <2>2. CASE traces = mine
    BY <1>4, <2>2
  <2>3. CASE /\ traces = [mine EXCEPT !["decode"] = "none"] /\ mine["decode"] = "eager"
             /\ "decode" \in TraceEnabled
    <3>1. op # "decode"
      BY <2>1, <2>3
    <3> QED BY <1>4, <2>3, <3>1
  <2> QED BY <2>2, <2>3
<1>6. d.samplingDecision[op] = s.samplingDecision[op]
  BY <1>1 DEF Decided, LaneState
<1> HIDE DEF d, traces, mine
<1>7. Settled(d, op)
  BY <1>2, <1>3, <1>5, <1>6, SettledStays
<1>8. /\ Entered(s).traceDecision = d.traceDecision /\ Entered(s).samplingDecision = d.samplingDecision
      /\ Entered(s).eager = d.eager /\ Entered(s).traced = d.traced
      /\ Entered(s).buffers = (d.buffers \/ call.sample)
  BY <1>2 DEF Entered, LaneState, d
<1>9. Settled(Entered(s), op)
  BY <1>7, <1>8, SettledStays
<1> QED BY <1>7, <1>9 DEF d

\* What the entered lane has decided for the call.
LEMMA EnteredDecides ==
    ASSUME WarmupTypes, script # <<>>, NEW s \in LaneState, call.sample
    PROVE  /\ Entered(s).traceDecision[call.op] = IF call.traced THEN "traced" ELSE "eager"
           /\ Entered(s).samplingDecision[call.op] = "device" /\ Entered(s).buffers
<1> DEFINE mine == [s.traceDecision EXCEPT ![call.op] = IF call.traced THEN "traced" ELSE "eager"]
           traces == IF call.op = "prefill" /\ call.traced /\ mine["decode"] = "eager"
                                            /\ "decode" \in TraceEnabled
                       THEN [mine EXCEPT !["decode"] = "none"] ELSE mine
           d == Decided(s, call)
<1>1. call \in Call /\ call.op \in Ops /\ call.traced \in BOOLEAN
  BY CallFacts DEF Call
<1>2. d \in LaneState
  BY <1>1, DecidedFacts
<1>3. d.traceDecision = traces /\ d.samplingDecision[call.op] = "device"
  BY <1>1 DEF Decided, LaneState
<1>4. /\ mine \in [Ops -> {"none", "eager", "traced"}]
      /\ mine[call.op] = IF call.traced THEN "traced" ELSE "eager"
  BY <1>1 DEF LaneState
<1>5. traces[call.op] = mine[call.op]
  <2> HIDE DEF mine
  <2>1. CASE call.op = "prefill"
    BY <1>4, <2>1
  <2>2. CASE call.op # "prefill"
    BY <2>2
  <2> QED BY <2>1, <2>2
<1> HIDE DEF d, traces, mine
<1>6. /\ Entered(s).traceDecision = d.traceDecision /\ Entered(s).samplingDecision = d.samplingDecision
      /\ Entered(s).buffers = (d.buffers \/ call.sample)
  BY <1>2 DEF Entered, LaneState, d
<1> QED BY <1>3, <1>4, <1>5, <1>6

\* A lane that has compiled the cases of a call lacks no operation but those still to be called.
LEMMA CasesSettle ==
    ASSUME WarmupTypes, script # <<>>, AskedRest, EndsCaptured, ~terminal, LaneDone, turn \in Lanes
    PROVE  Through(lane[turn], Tail(script))
<1> DEFINE s == lane[turn]
<1>1. /\ s.traceDecision[call.op] = IF call.traced THEN "traced" ELSE "eager"
      /\ s.samplingDecision[call.op] = "device" /\ s.buffers
      /\ \A op \in Ops \ {call.op} : Settled(s, op) \/ Left(Tail(script), op)
      /\ Todo(s, call) = {}
  BY DEF LaneDone, EndsCaptured
<1>2. /\ 1 \in DOMAIN script /\ call = script[1]
      /\ \A j \in DOMAIN script : 1 < j => j - 1 \in DOMAIN Tail(script) /\ Tail(script)[j - 1] = script[j]
  <2>1. script \in Seq(Call) /\ Len(script) \in Nat /\ Len(script) > 0
    BY DEF WarmupTypes
  <2> QED BY <2>1 DEF call
<1>3. CASE call.traced = (call.op \in TraceEnabled)
  <2>1. call.sample
    BY <1>2 DEF AskedRest
  <2>2. \A c \in Plan(call.op, TRUE) : c \in IF c.traced /\ call.op \in TraceEnabled THEN s.traced ELSE s.eager
    <3>1. Plan(call.op, TRUE) = Plan(call.op, call.sample)
      BY <2>1 DEF Plan
    <3> QED BY <1>1, <1>3, <3>1 DEF Todo, Ledger, AsTraced
  <2>3. Settled(s, call.op)
    BY <1>1, <1>3, <2>2 DEF Settled
  <2> QED BY <1>1, <2>3 DEF Through
<1>4. CASE call.traced # (call.op \in TraceEnabled)
  <2>1. PICK j \in DOMAIN script : 1 < j /\ script[j].op = call.op
    BY <1>2, <1>4 DEF AskedRest
  <2>2. Left(Tail(script), call.op)
    BY <1>2, <2>1 DEF Left
  <2> QED BY <1>1, <2>2 DEF Through
<1> QED BY <1>3, <1>4

\* The rest of the script is asked for in the same way.
LEMMA AskedTail ==
    ASSUME WarmupTypes, script # <<>>, AskedRest, script' = Tail(script), UNCHANGED scenario
    PROVE  AskedRest'
<1>1. /\ script \in Seq(Call) /\ Len(script) \in Nat /\ Len(script) > 0
      /\ DOMAIN script = 1 .. Len(script) /\ DOMAIN script' = 1 .. Len(script) - 1
      /\ \A i \in DOMAIN script' : i + 1 \in DOMAIN script /\ script'[i] = script[i + 1]
      /\ TraceEnabled' = TraceEnabled
  BY DEF WarmupTypes, TraceEnabled
<1> SUFFICES ASSUME NEW i \in DOMAIN script'
             PROVE  /\ script'[i].sample
                    /\ \/ script'[i].traced = (script'[i].op \in TraceEnabled)
                       \/ \E j \in DOMAIN script' : i < j /\ script'[j].op = script'[i].op
  BY <1>1 DEF AskedRest
<1>2. script'[i] = script[i + 1] /\ script'[i].sample
  BY <1>1 DEF AskedRest
<1>3. ASSUME ~(script'[i].traced = (script'[i].op \in TraceEnabled))
      PROVE  \E j \in DOMAIN script' : i < j /\ script'[j].op = script'[i].op
  <2>1. PICK j \in DOMAIN script : i + 1 < j /\ script[j].op = script[i + 1].op
    BY <1>1, <1>2, <1>3 DEF AskedRest
  <2>2. j - 1 \in DOMAIN script' /\ i < j - 1 /\ (j - 1) + 1 = j
    BY <1>1, <2>1
  <2> QED BY <1>1, <1>2, <2>1, <2>2
<1> QED BY <1>2, <1>3

\* Only flags, buffers and ledgers that grow: nothing that was settled is lost.
LEMMA ThroughStays ==
    ASSUME NEW s, NEW t, NEW q, Through(s, q),
           t.traceDecision = s.traceDecision, t.samplingDecision = s.samplingDecision,
           s.buffers => t.buffers, s.eager \subseteq t.eager, s.traced \subseteq t.traced
    PROVE  Through(t, q)
BY SettledStays DEF Through

LEMMA ServedKeeps ==
    WarmupInv /\ BarrierInv /\ ServedInv /\ [WarmupNext]_warmupVars => ServedInv'
<1> SUFFICES ASSUME WarmupInv, BarrierInv, ServedInv, [WarmupNext]_warmupVars,
                    scenario'.kind # "late", scenario'.forwards > 0
             PROVE  EndsCaptured'
  BY DEF ServedInv
<1>1. /\ WarmupTypes /\ lane \in [Lanes -> LaneState] /\ turn \in Lanes /\ LaneCount \in Nat \ {0}
      /\ 1 \in Lanes /\ stage \in {"idle", "enter", "cases", "commit"}
      /\ (stage # "idle" => script # <<>> /\ ~terminal)
  BY ScenarioFacts DEF WarmupInv, WarmupTypes, BarrierInv
<1>2. /\ UNCHANGED scenario /\ EndsCaptured /\ Lanes' = Lanes /\ LaneCount' = LaneCount
      /\ TraceEnabled' = TraceEnabled
      /\ \A s, q : Through(s, q)' <=> Through(s, q)
      /\ \A s, op : Settled(s, op)' <=> Settled(s, op)
      /\ UNCHANGED script => AskedRest' /\ call' = call
  <2>1. UNCHANGED scenario
    BY DEF WarmupNext, warmupVars, StartCall, EnterLane, WarmCase, CaseFails, CaseRefused, LaneWaits,
           LanePends, LaneCaptures, NextLane, FinishCall, RefuseMixed, Activate, Raise, Return
  <2>2. EndsCaptured
    BY <2>1 DEF ServedInv
  <2>3. TraceEnabled' = TraceEnabled
    BY <2>1 DEF TraceEnabled
  <2>4. \A s, op : Settled(s, op)' <=> Settled(s, op)
    BY <2>3 DEF Settled, Plan
  <2>5. \A s, q : Through(s, q)' <=> Through(s, q)
    BY <2>4 DEF Through, Left, Ops
  <2>6. UNCHANGED script => AskedRest' /\ call' = call
    BY <2>2, <2>3 DEF EndsCaptured, AskedRest, call
  <2> QED BY <2>1, <2>2, <2>3, <2>4, <2>5, <2>6 DEF Lanes, LaneCount
<1>3. ASSUME NEW lanes \in [Lanes -> LaneState], Raise(lanes), script # <<>>,
             \A l \in Lanes : Through(lanes[l], script)
      PROVE  EndsCaptured'
  <2> DEFINE cleared == [l \in Lanes |-> [lanes[l] EXCEPT !.pending = FALSE]]
  <2>1. /\ stage' = "idle" /\ lane' = cleared /\ terminal' = Grouped /\ UNCHANGED script
    BY <1>3 DEF Raise
  <2>2. \A l \in Lanes : /\ cleared[l].traceDecision = lanes[l].traceDecision
                         /\ cleared[l].samplingDecision = lanes[l].samplingDecision
                         /\ cleared[l].buffers = lanes[l].buffers
                         /\ cleared[l].eager = lanes[l].eager /\ cleared[l].traced = lanes[l].traced
    BY DEF LaneState
  <2>3. \A l \in Lanes : Through(cleared[l], script)
    BY <1>3, <2>2, ThroughStays
  <2> HIDE DEF cleared
  <2> QED BY <1>2, <1>3, <2>1, <2>3 DEF EndsCaptured, Done
<1>4. ASSUME NEW lanes \in [Lanes -> LaneState], Return(lanes), script # <<>>, stage # "idle",
             \A l \in Lanes : Through(lanes[l], Tail(script)),
             Tail(script) = <<>> => \A l \in Lanes : lanes[l].captured
      PROVE  EndsCaptured'
  <2>1. stage' = "idle" /\ lane' = lanes /\ UNCHANGED terminal /\ script' = Tail(script)
    BY <1>4 DEF Return
  <2>2. AskedRest'
    BY <1>1, <1>2, <1>4, <2>1, AskedTail DEF EndsCaptured
  <2> QED BY <1>2, <1>4, <2>1, <2>2 DEF EndsCaptured, Done
<1>5. ASSUME NEW s \in LaneState, Through(s, script),
             /\ s.traceDecision[call.op] = IF call.traced THEN "traced" ELSE "eager"
             /\ s.samplingDecision[call.op] = "device" /\ s.buffers
             /\ \A op \in Ops \ {call.op} : Settled(s, op) \/ Left(Tail(script), op),
             lane' = [lane EXCEPT ![turn] = s], stage \in {"enter", "cases"}, stage' = "cases",
             UNCHANGED <<script, turn, terminal>>
      PROVE  EndsCaptured'
  <2>1. \A l \in Lanes : lane'[l] = IF l = turn THEN s ELSE lane[l]
    BY <1>1, <1>5
  <2>2. ~terminal /\ script # <<>> /\ script' = script /\ turn' = turn /\ call' = call
    BY <1>1, <1>2, <1>5
  <2>3. \A l \in Lanes : Done(l)' => Done(l) /\ l # turn
    BY <1>1, <1>5, <2>2 DEF Done, Lanes
  <2>4. \A op : Left(Tail(script), op)' <=> Left(Tail(script), op)
    BY <2>2 DEF Left
  <2>5. \A l \in Lanes : Through(lane'[l], script)
    BY <1>2, <1>5, <2>1, <2>2 DEF EndsCaptured
  <2>6. \A l \in Lanes : Done(l)' =>
             /\ Through(lane'[l], Tail(script))
             /\ Tail(script) = <<>> => lane'[l].captured \/ lane'[l].pending
    BY <1>2, <2>1, <2>2, <2>3 DEF EndsCaptured
  <2>7. lane'[turn] = s
    BY <1>1, <2>1
  <2>8. /\ lane'[turn'].traceDecision[call'.op] = IF call'.traced THEN "traced" ELSE "eager"
        /\ lane'[turn'].samplingDecision[call'.op] = "device" /\ lane'[turn'].buffers
    BY <1>5, <2>2, <2>7
  <2>9. \A op \in Ops \ {call'.op} : Settled(lane[turn], op)' \/ Left(Tail(script), op)'
    BY <1>2, <1>5, <2>2, <2>4, <2>7
  <2>10. Ops' = Ops
    BY DEF Ops
  <2> QED BY <1>2, <1>5, <2>2, <2>5, <2>6, <2>8, <2>9, <2>10 DEF EndsCaptured
<1>6. ASSUME NEW s \in LaneState, Through(s, Tail(script)), Through(s, script),
             Tail(script) = <<>> => s.captured \/ s.pending,
             NextLane([lane EXCEPT ![turn] = s]), stage = "cases"
      PROVE  EndsCaptured'
  <2>1. /\ UNCHANGED <<script, terminal>> /\ script # <<>> /\ ~terminal
        /\ \A l \in Lanes : lane'[l] = IF l = turn THEN s ELSE lane[l]
        /\ \/ stage' = "enter" /\ turn' = turn + 1
           \/ stage' = "commit" /\ turn' = 1 /\ turn = LaneCount
    BY <1>1, <1>6 DEF NextLane, Lanes
  <2>2. \A l \in Lanes : (l = turn \/ l < turn => l = turn \/ Done(l)) /\ ~(l < 1)
    BY <1>1, <1>6 DEF Done, Lanes
  <2>3. \A l \in Lanes : Done(l)' => l = turn \/ Done(l)
    BY <1>1, <2>1, <2>2 DEF Done, Lanes
  <2>4. \A l \in Lanes : Through(lane'[l], script)
    BY <1>2, <1>6, <2>1 DEF EndsCaptured
  <2>5. \A l \in Lanes : Done(l)' =>
             /\ Through(lane'[l], Tail(script))
             /\ Tail(script) = <<>> => lane'[l].captured \/ lane'[l].pending
    BY <1>2, <1>6, <2>1, <2>3 DEF EndsCaptured
  <2>6. stage' # "cases" /\ (stage' = "commit" => \A l \in Lanes : ~(l < turn'))
    BY <2>1, <2>2
  <2> QED BY <1>2, <2>1, <2>4, <2>5, <2>6 DEF EndsCaptured
<1>7. CASE UNCHANGED warmupVars
  BY <1>2, <1>7 DEF EndsCaptured, warmupVars, Done, Left
<1>8. CASE StartCall
  <2>1. /\ stage' = "enter" /\ stage = "idle" /\ script # <<>> /\ ~terminal /\ turn = 1
        /\ UNCHANGED <<script, turn, lane, terminal>>
    BY <1>1, <1>8 DEF StartCall, WarmupTypes
  <2>2. \A l \in Lanes : ~Done(l)'
    BY <2>1 DEF Done, Lanes
  <2> QED BY <1>2, <2>1, <2>2 DEF EndsCaptured
<1>9. ASSUME stage \in {"enter", "cases"}
      PROVE  /\ script # <<>> /\ ~terminal /\ call.sample /\ lane[turn] \in LaneState
             /\ \A l \in Lanes : Through(lane[l], script)
             /\ \A op : Left(script, op) <=> op = call.op \/ Left(Tail(script), op)
  <2>1. script # <<>> /\ ~terminal /\ script \in Seq(Call) /\ AskedRest
    BY <1>1, <1>2, <1>9 DEF WarmupTypes, EndsCaptured
  <2>2. /\ 1 \in DOMAIN script /\ call = script[1] /\ DOMAIN Tail(script) = 1 .. Len(script) - 1
        /\ DOMAIN script = 1 .. Len(script) /\ Len(script) \in Nat
        /\ \A i \in DOMAIN Tail(script) : i + 1 \in DOMAIN script /\ Tail(script)[i] = script[i + 1]
    BY <2>1 DEF call
  <2>3. \A i \in DOMAIN script : i = 1 \/ (i - 1 \in DOMAIN Tail(script) /\ Tail(script)[i - 1] = script[i])
    <3>1. \A i \in DOMAIN script : i = 1 \/ i - 1 \in DOMAIN Tail(script)
      BY <2>2
    <3>2. \A i \in DOMAIN script : (i - 1) + 1 = i
      BY <2>2
    <3> QED BY <2>2, <3>1, <3>2
  <2>4. \A op : Left(script, op) <=> op = call.op \/ Left(Tail(script), op)
    BY <2>2, <2>3 DEF Left
  <2> QED BY <1>1, <1>2, <2>1, <2>2, <2>4 DEF EndsCaptured, AskedRest
<1>10. CASE EnterLane
  <2> DEFINE d == Decided(lane[turn], call)
             e == Entered(lane[turn])
  <2>0. stage = "enter"
    BY <1>10 DEF EnterLane
  <2>1. d \in LaneState /\ e \in LaneState
    BY <1>1, <1>9, <2>0, EnteredFacts
  <2>2. \A op \in Ops \ {call.op} : \/ Settled(d, op) /\ Settled(e, op)
                                    \/ Left(Tail(script), op)
    BY <1>1, <1>9, <2>0, SettledEntered DEF Through
  <2>3. Through(d, script) /\ Through(e, script)
    BY <1>9, <2>0, <2>2 DEF Through
  <2>4. /\ e.traceDecision[call.op] = IF call.traced THEN "traced" ELSE "eager"
        /\ e.samplingDecision[call.op] = "device" /\ e.buffers
    BY <1>1, <1>9, <2>0, EnteredDecides
  <2> HIDE DEF d, e
  <2>5. CASE Raise([lane EXCEPT ![turn] = d])
    <3>1. /\ [lane EXCEPT ![turn] = d] \in [Lanes -> LaneState]
          /\ \A l \in Lanes : [lane EXCEPT ![turn] = d][l] = IF l = turn THEN d ELSE lane[l]
      BY <1>1, <2>1
    <3> QED BY <1>3, <1>9, <2>0, <2>3, <2>5, <3>1
  <2>6. CASE /\ lane' = [lane EXCEPT ![turn] = e] /\ stage' = "cases"
             /\ UNCHANGED <<script, turn, terminal>>
    BY <1>5, <2>0, <2>1, <2>2, <2>3, <2>4, <2>6
  <2> QED BY <1>10, <2>5, <2>6 DEF EnterLane, Entered, d, e
<1>11. ASSUME NEW c \in Cases, WarmCase(c) PROVE EndsCaptured'
  <2> DEFINE w == Warmed(lane[turn], c)
  <2>0. /\ stage = "cases" /\ stage' = "cases" /\ UNCHANGED <<script, turn, terminal>>
    BY <1>11 DEF WarmCase
  <2>1. /\ w \in LaneState /\ w.traceDecision = lane[turn].traceDecision
        /\ w.samplingDecision = lane[turn].samplingDecision /\ w.buffers = lane[turn].buffers
        /\ lane[turn].eager \subseteq w.eager /\ lane[turn].traced \subseteq w.traced
    <3>1. w \in LaneState
      BY <1>1, <1>11, WarmedFacts DEF WarmCase
    <3> QED BY <1>1, <3>1 DEF Warmed, LaneState
  <2>2. lane' = [lane EXCEPT ![turn] = w]
    BY <1>11 DEF WarmCase, Warmed
  <2> HIDE DEF w
  <2>3. Through(w, script)
    BY <1>1, <1>9, <2>0, <2>1, ThroughStays
  <2>4. /\ w.traceDecision[call.op] = IF call.traced THEN "traced" ELSE "eager"
        /\ w.samplingDecision[call.op] = "device" /\ w.buffers
        /\ \A op \in Ops \ {call.op} : Settled(w, op) \/ Left(Tail(script), op)
    <3>1. /\ lane[turn].traceDecision[call.op] = IF call.traced THEN "traced" ELSE "eager"
          /\ lane[turn].samplingDecision[call.op] = "device" /\ lane[turn].buffers
          /\ \A op \in Ops \ {call.op} : Settled(lane[turn], op) \/ Left(Tail(script), op)
      BY <1>2, <1>9, <2>0 DEF EndsCaptured
    <3>2. \A op \in Ops : Settled(lane[turn], op) => Settled(w, op)
      BY <2>1, SettledStays
    <3> QED BY <2>1, <3>1, <3>2
  <2> QED BY <1>5, <2>0, <2>1, <2>2, <2>3, <2>4
<1>12. ASSUME NEW c \in Cases, CaseFails(c) \/ CaseRefused(c) PROVE EndsCaptured'
  <2>1. stage = "cases"
    BY <1>12 DEF CaseFails, CaseRefused
  <2>2. CASE CaseFails(c)
    <3>1. PICK programs \in {{}, {c}} : Raise([lane EXCEPT ![turn].programs = @ \cup programs])
      BY <2>2 DEF CaseFails
    <3> DEFINE s == [lane[turn] EXCEPT !.programs = @ \cup programs]
    <3>2. /\ s \in LaneState /\ s.traceDecision = lane[turn].traceDecision
          /\ s.samplingDecision = lane[turn].samplingDecision /\ s.buffers = lane[turn].buffers
          /\ s.eager = lane[turn].eager /\ s.traced = lane[turn].traced
      BY <1>1 DEF LaneState
    <3>3. [lane EXCEPT ![turn].programs = @ \cup programs] = [lane EXCEPT ![turn] = s]
      BY <1>1
    <3> HIDE DEF s
    <3>4. Through(s, script)
      BY <1>1, <1>9, <2>1, <3>2, ThroughStays
    <3>5. /\ [lane EXCEPT ![turn] = s] \in [Lanes -> LaneState]
          /\ \A l \in Lanes : [lane EXCEPT ![turn] = s][l] = IF l = turn THEN s ELSE lane[l]
      BY <1>1, <3>2
    <3> QED BY <1>3, <1>9, <2>1, <3>1, <3>3, <3>4, <3>5
  <2>3. CASE CaseRefused(c)
    BY <1>1, <1>3, <1>9, <2>1, <2>3 DEF CaseRefused
  <2> QED BY <1>12, <2>2, <2>3
<1>13. ASSUME LaneDone
       PROVE  /\ stage = "cases" /\ Through(lane[turn], Tail(script)) /\ Through(lane[turn], script)
              /\ Tail(script) = <<>> => lane[turn].captured \/ Complete(lane[turn])
  <2>1. stage = "cases"
    BY <1>13 DEF LaneDone
  <2>2. Through(lane[turn], Tail(script)) /\ Through(lane[turn], script)
    BY <1>1, <1>2, <1>9, <1>13, <2>1, CasesSettle DEF EndsCaptured
  <2>3. Tail(script) = <<>> => lane[turn].captured \/ Complete(lane[turn])
    <3>1. TraceEnabled \subseteq Ops /\ "decode" \in TraceEnabled
      BY <1>1, <1>2, ScenarioFacts DEF Scenario, TraceEnabled, EndsCaptured, Ops
    <3>2. ASSUME Tail(script) = <<>> PROVE \A op \in Ops : Settled(lane[turn], op)
      BY <2>2, <3>2 DEF Through, Left
    <3> QED BY <3>1, <3>2, SettledIsComplete
  <2> QED BY <2>1, <2>2, <2>3
<1>14. CASE LaneWaits
  <2>1. lane = [lane EXCEPT ![turn] = lane[turn]]
    BY <1>1
  <2> QED BY <1>1, <1>6, <1>13, <1>14, <2>1 DEF LaneWaits
<1>15. ASSUME NEW s \in LaneState, s.traceDecision = lane[turn].traceDecision,
              s.samplingDecision = lane[turn].samplingDecision, s.buffers = lane[turn].buffers,
              s.eager = lane[turn].eager, s.traced = lane[turn].traced,
              LaneDone, s.captured \/ s.pending, NextLane([lane EXCEPT ![turn] = s])
       PROVE  EndsCaptured'
  <2>1. Through(s, Tail(script)) /\ Through(s, script) /\ stage = "cases"
    BY <1>13, <1>15, ThroughStays
  <2> QED BY <1>6, <1>15, <2>1
<1>16. CASE LanePends
  <2> DEFINE s == Pending(lane[turn])
  <2>1. /\ s \in LaneState /\ s.traceDecision = lane[turn].traceDecision
        /\ s.samplingDecision = lane[turn].samplingDecision /\ s.buffers = lane[turn].buffers
        /\ s.eager = lane[turn].eager /\ s.traced = lane[turn].traced /\ s.pending
    BY <1>1 DEF Pending, LaneState
  <2>2. NextLane([lane EXCEPT ![turn] = s]) /\ LaneDone
    BY <1>16 DEF LanePends, Pending
  <2> HIDE DEF s
  <2> QED BY <1>15, <2>1, <2>2
<1>17. CASE LaneCaptures
  <2>1. CASE Raise(lane)
    BY <1>1, <1>3, <1>9, <1>13, <1>17, <2>1 DEF LaneCaptures
  <2>2. CASE NextLane([lane EXCEPT ![turn].captured = TRUE])
    <3> DEFINE s == [lane[turn] EXCEPT !.captured = TRUE]
    <3>1. /\ s \in LaneState /\ s.traceDecision = lane[turn].traceDecision
          /\ s.samplingDecision = lane[turn].samplingDecision /\ s.buffers = lane[turn].buffers
          /\ s.eager = lane[turn].eager /\ s.traced = lane[turn].traced /\ s.captured
      BY <1>1 DEF LaneState
    <3>2. NextLane([lane EXCEPT ![turn] = s]) /\ LaneDone
      BY <1>17, <2>2 DEF LaneCaptures
    <3> HIDE DEF s
    <3> QED BY <1>15, <3>1, <3>2
  <2> QED BY <1>17, <2>1, <2>2 DEF LaneCaptures
<1>18. ASSUME stage = "commit"
       PROVE  /\ script # <<>> /\ ~terminal
              /\ \A l \in Lanes : Through(lane[l], script) /\ Through(lane[l], Tail(script))
              /\ \A l \in Lanes : Tail(script) = <<>> => lane[l].captured \/ lane[l].pending
              /\ \A l \in Lanes : l < turn => lane[l].captured
  BY <1>1, <1>2, <1>18 DEF EndsCaptured, Done
<1>19. CASE FinishCall
  <2>1. \A l \in Lanes : ~lane[l].pending
    BY <1>1, <1>19 DEF FinishCall, BarrierInv, Mixed, Readiness
  <2> QED BY <1>1, <1>4, <1>18, <1>19, <2>1 DEF FinishCall
<1>20. CASE RefuseMixed
  BY <1>1, <1>3, <1>18, <1>20 DEF RefuseMixed
<1>21. CASE Activate
  <2> DEFINE s == Activated(lane[turn])
             lanes == [lane EXCEPT ![turn] = s]
  <2>1. /\ lanes = [lane EXCEPT ![turn].captured = TRUE, ![turn].pending = FALSE]
        /\ s \in LaneState /\ stage = "commit"
        /\ \A l \in Lanes : lanes[l] = IF l = turn THEN s ELSE lane[l]
        /\ lanes \in [Lanes -> LaneState]
    BY <1>1, <1>21, FlagFacts DEF Activate, Activated
  <2>2. /\ s.traceDecision = lane[turn].traceDecision /\ s.captured
        /\ s.samplingDecision = lane[turn].samplingDecision /\ s.buffers = lane[turn].buffers
        /\ s.eager = lane[turn].eager /\ s.traced = lane[turn].traced
    BY <1>1 DEF Activated, LaneState
  <2> HIDE DEF s
  <2>3. Through(s, script) /\ Through(s, Tail(script))
    BY <1>1, <1>18, <2>1, <2>2, ThroughStays
  <2>4. \A l \in Lanes : Through(lanes[l], script) /\ Through(lanes[l], Tail(script))
    BY <1>18, <2>1, <2>3
  <2>5. \A l \in Lanes : /\ (l < turn \/ l = turn) => lanes[l].captured
                         /\ Tail(script) = <<>> => lanes[l].captured \/ lanes[l].pending
    BY <1>18, <2>1, <2>2
  <2> HIDE DEF lanes
  <2>6. CASE Raise(lane)
    BY <1>1, <1>3, <1>18, <2>1, <2>6
  <2>7. CASE turn = LaneCount /\ Return(lanes)
    <3>1. \A l \in Lanes : l = turn \/ l < turn
      BY <1>1, <2>7 DEF Lanes
    <3> QED BY <1>4, <1>18, <2>1, <2>4, <2>5, <2>7, <3>1
  <2>8. CASE lane' = lanes /\ stage' = stage /\ turn' = turn + 1 /\ UNCHANGED <<script, terminal>>
    <3>1. \A l \in Lanes : l < turn' => l < turn \/ l = turn
      BY <1>1, <2>8 DEF Lanes
    <3> QED BY <1>2, <1>18, <2>1, <2>4, <2>5, <2>8, <3>1 DEF EndsCaptured
  <2> QED BY <1>21, <2>1, <2>6, <2>7, <2>8 DEF Activate
<1> QED BY <1>7, <1>8, <1>10, <1>11, <1>12, <1>14, <1>16, <1>17, <1>19, <1>20, <1>21 DEF WarmupNext

-----------------------------------------------------------------------------
(* The group: first it is warmed up, then it serves, and no warm-up follows.                *)

WarmInv == WarmupInv /\ BarrierInv /\ PhasedInv /\ ServedInv

LEMMA WarmInitial == WarmupInit => WarmInv
<1> SUFFICES ASSUME WarmupInit PROVE WarmInv
  OBVIOUS
<1>1. WarmupTypes /\ LanesBacked
  BY WarmupInitial
<1>2. \A l \in Lanes : scenario.joined = {} => lane[l] = FreshLane
  BY DEF WarmupInit
<1>3. WarmupInv
  <2>1. Together => InStep
    BY <1>2, FreshFacts DEF Together, InStep, WarmupInit
  <2> QED BY <1>1, <2>1 DEF WarmupInv
<1>4. BarrierInv
  BY DEF WarmupInit, BarrierInv, FreshLane, WarmLane
<1>5. Scenario(scenario) /\ script = scenario.calls /\ TraceEnabled = scenario.enabled /\ stage = "idle"
  BY ScenariosAssumption DEF WarmupInit, TraceEnabled
<1>6. PhasedInv
  <2> SUFFICES ASSUME scenario.kind = "phased" PROVE OnlyAtTheEnd
    BY DEF PhasedInv
  <2>1. PhasedRest
    BY <1>5 DEF Scenario, PhasedCalls, PhasedRest
  <2>2. \A l \in Lanes : lane[l] = FreshLane
    BY <1>2, <1>5 DEF Scenario
  <2>3. Len(script) >= 2 => Early(FreshLane)
    <3>1. script \in Seq(Call)
      BY <1>5 DEF Scenario
    <3>2. Len(script) >= 2 => script[Len(script)] \in Call
      BY <3>1
    <3> QED BY <3>2 DEF Early, FreshLane, Call
  <2> QED BY <1>5, <2>1, <2>2, <2>3 DEF OnlyAtTheEnd, FreshLane
<1>7. ServedInv
  <2> SUFFICES ASSUME scenario.kind # "late", scenario.forwards > 0 PROVE EndsCaptured
    BY DEF ServedInv
  <2>1. AsksForAll(scenario) /\ "decode" \in TraceEnabled
    <3>1. CASE scenario.kind = "decode_only"
      BY <1>5, <3>1 DEF Scenario
    <3>2. CASE scenario.kind = "phased"
      <4>1. /\ script \in Seq(Call) /\ TraceEnabled = Ops /\ PhasedCalls(script)
        BY <1>5, <3>2 DEF Scenario
      <4>2. PICK n \in Nat : n = Len(script) /\ n >= 2
        BY <4>1 DEF PhasedCalls
      <4>3. /\ n \in DOMAIN script /\ n - 1 \in DOMAIN script /\ DOMAIN script = 1 .. n
            /\ script[n] \in Call /\ script[n - 1] \in Call
        BY <4>1, <4>2
      <4>4. /\ script[n - 1].op # script[n].op
            /\ \A i \in DOMAIN script : script[i].traced <=> i >= n - 1
        BY <4>1, <4>2, <4>3 DEF PhasedCalls
      <4>5. \A op \in Ops : op = script[n].op \/ op = script[n - 1].op
        BY <4>3, <4>4 DEF Call, Ops
      <4>6. \A i \in DOMAIN script : script[i] \in Call /\ script[i].op \in Ops /\ script[i].traced \in BOOLEAN
        <5>1. \A i \in DOMAIN script : script[i] \in Call
          BY <4>1
        <5> QED BY <5>1 DEF Call
      <4>7. ASSUME NEW i \in DOMAIN script
            PROVE  \/ script[i].traced = (script[i].op \in scenario.enabled)
                   \/ \E k \in DOMAIN script : i < k /\ script[k].op = script[i].op
        <5>1. CASE i >= n - 1
          BY <1>5, <4>1, <4>4, <4>6, <5>1
        <5>2. CASE ~(i >= n - 1)
          <6>1. i < n - 1 /\ i < n
            BY <4>3, <5>2
          <6> QED BY <4>3, <4>5, <4>6, <6>1
        <5> QED BY <5>1, <5>2
      <4> QED BY <1>5, <4>1, <4>3, <4>5, <4>7 DEF AsksForAll, Ops
    <3> QED BY <1>5, <3>1, <3>2 DEF Scenario
  <2>2. \A i \in DOMAIN script : script[i].sample
    BY <1>5, GroupAssumption DEF WarmupInit
  <2>3. AskedRest
    BY <1>5, <2>1, <2>2 DEF AsksForAll, AskedRest
  <2>4. \A op \in Ops : Left(script, op)
    BY <1>5, <2>1 DEF AsksForAll, Left
  <2>5. script # <<>>
    BY <2>4 DEF Left, Ops
  <2> QED BY <1>5, <2>1, <2>3, <2>4, <2>5 DEF EndsCaptured, Through, Done
<1> QED BY <1>3, <1>4, <1>6, <1>7 DEF WarmInv

LEMMA WarmKeeps == WarmInv /\ [WarmupNext]_warmupVars => WarmInv'
BY WarmupKeeps, BarrierKeeps, PhasedKeeps, ServedKeeps DEF WarmInv

\* The lane has captured, and what both operations need is there.
Ready(s) == s.captured /\ \A op \in Ops : Settled(s, op)

\* The script is done.
Resting ==
    /\ script = <<>> /\ stage = "idle"
    /\ WarmupTypes /\ LanesBacked /\ LanesAgree /\ CaptureIsOneBarrier
    /\ scenario.kind # "late" /\ scenario.forwards > 0 /\ ~terminal => \A l \in Lanes : Ready(lane[l])

GroupInv == (WarmInv \/ Resting) /\ forwards \in Nat /\ WarmedGroupServes

LEMMA WarmGivesBoth == WarmInv => LanesAgree /\ CaptureIsOneBarrier
<1> SUFFICES ASSUME WarmInv PROVE LanesAgree /\ CaptureIsOneBarrier
  OBVIOUS
<1>1. LanesAgree
  BY DEF WarmInv, WarmupInv, InStep, Together, LanesAgree
<1>2. CaptureIsOneBarrier
  BY DEF WarmInv, PhasedInv, OnlyAtTheEnd, CaptureIsOneBarrier, Covered, Whole
<1> QED BY <1>1, <1>2

LEMMA ServingRests == GroupInv /\ script = <<>> /\ stage = "idle" => Resting
<1> SUFFICES ASSUME GroupInv, script = <<>>, stage = "idle", WarmInv PROVE Resting
  BY DEF GroupInv
<1>1. ASSUME scenario.kind # "late", scenario.forwards > 0, ~terminal
      PROVE  \A l \in Lanes : Ready(lane[l])
  BY <1>1 DEF WarmInv, ServedInv, EndsCaptured, Through, Left, Ready
<1> QED BY <1>1, WarmGivesBoth DEF Resting, WarmInv, WarmupInv

\* What compiling cases and materializing buffers make of a lane.
Compiled(s, cases) == [s EXCEPT !.programs = @ \cup cases, !.buffers = TRUE]

\* What serving makes of the lanes: programs and buffers are added before capture, nothing after.
Grew(s, t) ==
    \/ t = s
    \/ ~s.captured /\ \E cases \in SUBSET Cases : t = Compiled(s, cases)

ServeStep ==
    /\ Serving /\ UNCHANGED <<scenario, script, stage, turn, deferred>>
    /\ lane' \in [Lanes -> {lane'[l] : l \in Lanes}] /\ \A l \in Lanes : Grew(lane[l], lane'[l])
    /\ terminal' \in BOOLEAN
    /\ forwards' \in {forwards, forwards + 1}

LEMMA MorePrograms ==
    ASSUME NEW s \in LaneState, NEW cases \in SUBSET Cases
    PROVE  LET t == Compiled(s, cases) IN
           /\ t \in LaneState /\ t.programs = s.programs \cup cases
           /\ t.eager = s.eager /\ t.traced = s.traced /\ t.plans = s.plans
           /\ t.captured = s.captured /\ t.samplingDecision = s.samplingDecision
           /\ t.traceDecision = s.traceDecision
<1>1. s.programs \cup cases \in SUBSET Cases
  BY DEF LaneState
<1> QED BY <1>1 DEF LaneState, Compiled

LEMMA ServeStepRests == Resting /\ ServeStep => Resting'
<1> SUFFICES ASSUME Resting, ServeStep PROVE Resting'
  OBVIOUS
<1>1. /\ UNCHANGED <<scenario, script, stage, turn, deferred>> /\ Lanes' = Lanes /\ ~terminal
      /\ LaneCount' = LaneCount /\ TraceEnabled' = TraceEnabled /\ terminal' \in BOOLEAN
      /\ lane \in [Lanes -> LaneState]
  BY DEF ServeStep, Serving, Lanes, LaneCount, TraceEnabled, Resting, WarmupTypes
<1>2. ASSUME NEW l \in Lanes
      PROVE  /\ lane'[l] \in LaneState /\ (Backed(lane[l]) => Backed(lane[l])')
             /\ lane'[l].captured = lane[l].captured
             /\ Whole(lane[l]) => Whole(lane[l])'
             /\ Ready(lane[l]) => Ready(lane[l])'
  <2>1. CASE lane'[l] = lane[l]
    <3>1. RequiredTraces(lane[l])' = RequiredTraces(lane[l])
      BY <1>1, <2>1 DEF RequiredTraces
    <3>2. Whole(lane[l])' <=> Whole(lane[l])
      BY <2>1, <3>1 DEF Whole
    <3>3. Backed(lane[l])' <=> Backed(lane[l])
      BY <1>1, <2>1 DEF Backed
    <3>4. Ready(lane[l])' <=> Ready(lane[l])
      BY <1>1, <2>1 DEF Ready, Settled
    <3> QED BY <1>1, <2>1, <3>2, <3>3, <3>4
  <2>2. CASE lane'[l] # lane[l]
    <3>1. PICK cases \in SUBSET Cases :
             ~lane[l].captured /\ lane'[l] = Compiled(lane[l], cases)
      BY <2>2 DEF ServeStep, Grew
    <3>3. /\ lane'[l] \in LaneState /\ lane'[l].programs = lane[l].programs \cup cases
          /\ lane'[l].eager = lane[l].eager /\ lane'[l].traced = lane[l].traced
          /\ lane'[l].plans = lane[l].plans /\ lane'[l].captured = lane[l].captured
          /\ lane'[l].samplingDecision = lane[l].samplingDecision
          /\ lane'[l].traceDecision = lane[l].traceDecision
      <4>1. lane[l] \in LaneState
        BY <1>1
      <4> QED BY <3>1, <4>1, MorePrograms
    <3>4. RequiredTraces(lane[l])' = RequiredTraces(lane[l])
      BY <1>1, <3>3 DEF RequiredTraces, Plan
    <3>5. Whole(lane[l]) => Whole(lane[l])'
      BY <3>3, <3>4 DEF Whole, Plan, Ops
    <3>6. Backed(lane[l]) => Backed(lane[l])'
      BY <1>1, <3>3 DEF Backed, Ops
    <3> QED BY <3>1, <3>3, <3>5, <3>6 DEF Ready
  <2> QED BY <2>1, <2>2
<1>3. WarmupTypes' /\ LanesBacked'
  <2>1. lane' \in [Lanes -> LaneState]
    BY <1>2 DEF ServeStep
  <2> QED BY <1>1, <1>2, <2>1 DEF Resting, WarmupTypes, LanesBacked
<1>4. LanesAgree'
  BY <1>1, <1>2 DEF Resting, LanesAgree
<1>5. CaptureIsOneBarrier'
  <2> SUFFICES ASSUME scenario.kind = "phased", NEW l \in Lanes, lane'[l].captured, NEW m \in Lanes
               PROVE  Covered(m)'
    BY <1>1 DEF CaptureIsOneBarrier
  <2>1. Covered(m)
    BY <1>1, <1>2 DEF Resting, CaptureIsOneBarrier
  <2> QED BY <1>1, <1>2, <2>1 DEF Covered, Whole
<1>6. scenario'.kind # "late" /\ scenario'.forwards > 0 /\ ~terminal' => \A l \in Lanes' : Ready(lane[l])'
  BY <1>1, <1>2 DEF Resting
<1> QED BY <1>1, <1>3, <1>4, <1>5, <1>6 DEF Resting

\* A served call finds its case.
LEMMA CaseFacts ==
    /\ \A r \in Requests : PrefillCase(r) \in Cases /\ PrefillCase(r).op = "prefill"
    /\ CaseOf("decode", "topk") \in Cases /\ CaseOf("decode", "topk").op = "decode"
    /\ CaseOf("decode", "topk").traced
<1>1. \A r \in Requests : PrefillCase(r) \in Cases /\ PrefillCase(r).op = "prefill"
  <2> TAKE r \in Requests
  <2> DEFINE path == IF r \in LongPrompts THEN "long" ELSE "topk"
  <2>1. \E c \in Cases : c.op = "prefill" /\ c.path = path
    BY GroupAssumption
  <2>2. PrefillCase(r) = CHOOSE c \in Cases : c.op = "prefill" /\ c.path = path
    BY DEF PrefillCase, CaseOf
  <2> HIDE DEF path
  <2> QED BY <2>1, <2>2
<1>2. CaseOf("decode", "topk") \in Cases /\ CaseOf("decode", "topk").op = "decode"
  <2>1. \E c \in Cases : c.op = "decode" /\ c.path = "topk"
    BY GroupAssumption
  <2> QED BY <2>1 DEF CaseOf
<1> QED BY <1>1, <1>2, CasesAssumption

LEMMA CallCases ==
    ASSUME NEW rows \in Arrangements(Requests \ Running), NEW slots, NEW l
    PROVE  CasesIn(rows, slots, l) \subseteq {c \in Cases : c.op = "prefill"}
<1>1. \A i \in DOMAIN rows : rows[i] \in Requests
  BY DEF Arrangements
<1> QED BY <1>1, CaseFacts DEF CasesIn

LEMMA RanGrew == ASSUME NEW l \in Lanes, NEW cases \in SUBSET Cases PROVE Grew(lane[l], Ran(l, cases))
BY DEF Ran, Grew, Compiled

\* A slot of the group belongs to one of its lanes.
LEMMA SlotLanes ==
    ASSUME WarmupTypes, NEW slot \in Slots
    PROVE  LaneOf(slot) \in Lanes
<1>1. LaneCount \in Nat \ {0} /\ Capacity \in Nat \ {0}
  BY ScenarioFacts, GroupAssumption
<1>2. slot \in Nat /\ slot < LaneCount * Capacity
  BY <1>1 DEF Slots, MaxBatchSize
<1>3. slot \div Capacity \in Nat /\ slot \div Capacity < LaneCount
  BY <1>1, <1>2
<1> QED BY <1>1, <1>3 DEF LaneOf, Lanes

\* A lane that is ready runs every call.
LEMMA ReadyRuns ==
    ASSUME NEW l \in Lanes, Ready(lane[l]), Backed(lane[l]), NEW op \in Ops, NEW traced \in BOOLEAN,
           NEW cases, cases \subseteq {c \in Cases : c.op = op},
           traced => op \in TraceEnabled /\ \A c \in cases : c.traced
    PROVE  Runs(l, cases, traced)
<1>1. lane[l].buffers /\ lane[l].captured
  BY DEF Ready, Settled
<1>2. ASSUME NEW c \in cases
      PROVE  c \in lane[l].programs /\ (traced => c \in lane[l].plans)
  <2>1. c \in Plan(op, TRUE)
    BY DEF Plan
  <2>2. c \in IF c.traced /\ op \in TraceEnabled THEN lane[l].traced ELSE lane[l].eager
    BY <2>1 DEF Ready, Settled
  <2> QED BY <2>2 DEF Backed
<1> QED BY <1>1, <1>2 DEF Runs

LEMMA GroupSteps ==
    ASSUME GroupInv, Prefill \/ Decode \/ ForwardRaises \/ Finish
    PROVE  ServeStep /\ (refused' => refused \/ scenario.kind = "late")
<1>1. Serving => Resting /\ WarmupTypes /\ lane \in [Lanes -> LaneState] /\ terminal \in BOOLEAN
  BY ServingRests DEF Serving, Resting, WarmupTypes
<1>2. ASSUME Serving, scenario.kind # "late"
      PROVE  \A l \in Lanes : Ready(lane[l]) /\ Backed(lane[l])
  <2>1. scenario.forwards > 0
    <3>1. scenario.forwards \in Nat /\ forwards \in Nat /\ forwards < scenario.forwards
      BY <1>1, <1>2, GroupAssumption DEF Serving, GroupInv, WarmupTypes
    <3> QED BY <3>1
  <2> QED BY <1>1, <1>2, <2>1 DEF Resting, Serving, LanesBacked
<1>3. ASSUME NEW lanes, lane' = lanes, DOMAIN lanes = Lanes, lanes = [l \in Lanes |-> lanes[l]],
             \A l \in Lanes : Grew(lane[l], lanes[l]), Serving,
             UNCHANGED <<scenario, script, stage, turn, deferred>>,
             terminal' \in BOOLEAN, forwards' \in {forwards, forwards + 1}
      PROVE  ServeStep
  BY <1>3 DEF ServeStep
<1>4. CASE Prefill
  <2>1. PICK rows \in Arrangements(Requests \ Running),
             slots \in Arrangements({s \in Slots : placed[s] = None}),
             wanted \in (IF "prefill" \in TraceEnabled THEN BOOLEAN ELSE {FALSE}) :
               \/ \E form \in {"rows", "slots"} : PrefillForward(rows, slots, form, wanted)
               \/ PrefillRefused(rows, slots, wanted)
    BY <1>4 DEF Prefill
  <2>2. \A l : CasesIn(rows, slots, l) \subseteq {c \in Cases : c.op = "prefill"}
    BY CallCases
  <2>3. ASSUME NEW form \in {"rows", "slots"}, PrefillForward(rows, slots, form, wanted)
        PROVE  ServeStep /\ refused' = refused
    <3> DEFINE lanes == [l \in Lanes |-> IF l \in Participants(slots) THEN Ran(l, CasesIn(rows, slots, l)) ELSE lane[l]]
    <3>1. lane' = lanes /\ Serving /\ UNCHANGED <<scenario, script, stage, turn, deferred, terminal, refused>>
          /\ forwards' = forwards + 1
      BY <2>3 DEF PrefillForward, Serves
    <3>2. \A l \in Lanes : Grew(lane[l], lanes[l])
      BY <2>2, RanGrew DEF Grew
    <3> QED BY <1>1, <1>3, <3>1, <3>2
  <2>4. ASSUME PrefillRefused(rows, slots, wanted)
        PROVE  ServeStep /\ scenario.kind = "late"
    <3>1. /\ Serving /\ terminal' = TRUE /\ UNCHANGED <<scenario, script, stage, turn, deferred, lane>>
          /\ forwards' = forwards + 1
      BY <2>4 DEF PrefillRefused, Fails
    <3>2. ServeStep
      BY <1>1, <3>1 DEF ServeStep, Grew
    <3>3. ASSUME scenario.kind # "late" PROVE FALSE
      <4> DEFINE traced == wanted /\ CanTrace(rows, slots)
      <4>1. PICK l \in Participants(slots) : ~Runs(l, CasesIn(rows, slots, l), traced)
        BY <2>4 DEF PrefillRefused
      <4>2. l \in Lanes
        <5>1. \A i \in DOMAIN slots : slots[i] \in Slots
          BY DEF Arrangements
        <5> QED BY <1>1, <3>1, <4>1, <5>1, SlotLanes DEF Participants
      <4>3. traced \in BOOLEAN /\ (traced => "prefill" \in TraceEnabled /\ \A c \in CasesIn(rows, slots, l) : c.traced)
        BY <4>1 DEF CanTrace
      <4> HIDE DEF traced
      <4> QED BY <1>2, <2>2, <3>1, <3>3, <4>1, <4>2, <4>3, ReadyRuns DEF Ops
    <3> QED BY <3>2, <3>3
  <2> QED BY <2>1, <2>3, <2>4
<1>5. CASE Decode
  <2>1. PICK traced \in (IF "decode" \in TraceEnabled THEN BOOLEAN ELSE {FALSE}) :
          \/ \E m \in Remaps, form \in {"group", "lane"} : DecodeForward(m, form, traced)
          \/ DecodeRefused(traced)
    BY <1>5 DEF Decode
  <2>2. {CaseOf("decode", "topk")} \subseteq {c \in Cases : c.op = "decode"}
    BY CaseFacts
  <2>3. ASSUME NEW m \in Remaps, NEW form \in {"group", "lane"}, DecodeForward(m, form, traced)
        PROVE  ServeStep /\ refused' = refused
    <3> DEFINE lanes == [l \in Lanes |-> Ran(l, {CaseOf("decode", "topk")})]
    <3>1. lane' = lanes /\ Serving /\ UNCHANGED <<scenario, script, stage, turn, deferred, terminal, refused>>
          /\ forwards' = forwards + 1
      BY <2>3 DEF DecodeForward, Serves
    <3>2. \A l \in Lanes : Grew(lane[l], lanes[l])
      BY <2>2, RanGrew
    <3> QED BY <1>1, <1>3, <3>1, <3>2
  <2>4. ASSUME DecodeRefused(traced)
        PROVE  ServeStep /\ scenario.kind = "late"
    <3>1. /\ Serving /\ terminal' = TRUE /\ UNCHANGED <<scenario, script, stage, turn, deferred, lane>>
          /\ forwards' = forwards + 1
      BY <2>4 DEF DecodeRefused, Fails
    <3>2. ServeStep
      BY <1>1, <3>1 DEF ServeStep, Grew
    <3>3. ASSUME scenario.kind # "late" PROVE FALSE
      <4>1. PICK l \in Lanes : ~Runs(l, {CaseOf("decode", "topk")}, traced)
        BY <2>4 DEF DecodeRefused
      <4>2. traced \in BOOLEAN /\ (traced => "decode" \in TraceEnabled)
        OBVIOUS
      <4> QED BY <1>2, <2>2, <3>1, <3>3, <4>1, <4>2, CaseFacts, ReadyRuns DEF Ops
    <3> QED BY <3>2, <3>3
  <2> QED BY <2>1, <2>3, <2>4
<1>6. CASE ForwardRaises
  <2>1. /\ Serving /\ terminal' = TRUE /\ UNCHANGED <<scenario, script, stage, turn, deferred, lane, refused>>
        /\ forwards' = forwards + 1
    BY <1>6 DEF ForwardRaises, Fails
  <2> QED BY <1>1, <2>1 DEF ServeStep, Grew
<1>7. CASE Finish
  BY <1>1, <1>7 DEF Finish, ServeStep, Grew, warmupVars
<1> QED BY <1>4, <1>5, <1>6, <1>7

\* Whether a script is done is a fact of the warmup's state alone.
LEMMA RestingStays == Resting /\ UNCHANGED warmupVars => Resting'
<1> SUFFICES ASSUME Resting, UNCHANGED warmupVars PROVE Resting'
  OBVIOUS
<1>1. /\ UNCHANGED <<scenario, script, stage, turn, lane, deferred, terminal, failures>>
      /\ Lanes' = Lanes /\ LaneCount' = LaneCount /\ TraceEnabled' = TraceEnabled
  BY DEF warmupVars, Lanes, LaneCount, TraceEnabled
<1>2. WarmupTypes'
  BY <1>1 DEF Resting, WarmupTypes
<1>3. LanesBacked'
  BY <1>1 DEF Resting, LanesBacked, Backed
<1>4. LanesAgree'
  BY <1>1 DEF Resting, LanesAgree
<1>5. CaptureIsOneBarrier'
  <2>1. \A l \in Lanes : RequiredTraces(lane[l])' = RequiredTraces(lane[l])
    BY <1>1 DEF RequiredTraces
  <2>2. \A l \in Lanes : Covered(l)' <=> Covered(l)
    BY <1>1, <2>1 DEF Covered
  <2> QED BY <1>1, <2>2 DEF Resting, CaptureIsOneBarrier
<1>6. \A l \in Lanes : Ready(lane[l])' <=> Ready(lane[l])
  BY <1>1 DEF Ready, Settled
<1> QED BY <1>1, <1>2, <1>3, <1>4, <1>5, <1>6 DEF Resting

LEMMA GroupKeeps == GroupInv /\ [GroupNext]_groupVars => GroupInv'
<1> SUFFICES ASSUME GroupInv, [GroupNext]_groupVars PROVE GroupInv'
  OBVIOUS
<1>1. CASE Prefill \/ Decode \/ ForwardRaises \/ Finish
  <2>1. ServeStep /\ (refused' => refused \/ scenario.kind = "late")
    BY <1>1, GroupSteps
  <2>2. Resting'
    BY <2>1, ServingRests, ServeStepRests DEF ServeStep, Serving
  <2>3. forwards' \in Nat /\ WarmedGroupServes'
    BY <2>1 DEF ServeStep, GroupInv, WarmedGroupServes
  <2> QED BY <2>2, <2>3 DEF GroupInv
<1>2. CASE [WarmupNext]_warmupVars /\ UNCHANGED serveVars
  <2>1. forwards' \in Nat /\ WarmedGroupServes'
    <3>1. UNCHANGED <<forwards, refused>> /\ UNCHANGED scenario
      BY <1>2 DEF serveVars, WarmupNext, warmupVars, StartCall, EnterLane, WarmCase, CaseFails, CaseRefused,
           LaneWaits, LanePends, LaneCaptures, NextLane, FinishCall, RefuseMixed, Activate, Raise, Return
    <3> QED BY <3>1 DEF GroupInv, WarmedGroupServes
  <2>2. CASE WarmInv
    BY <1>2, <2>1, <2>2, WarmKeeps DEF GroupInv
  <2>3. CASE Resting
    <3>1. UNCHANGED warmupVars
      BY <1>2, <2>3 DEF Resting, WarmupNext, StartCall, EnterLane, WarmCase, CaseFails, CaseRefused,
           LaneWaits, LanePends, LaneCaptures, LaneDone, FinishCall, RefuseMixed, Activate
    <3>2. Resting'
      BY <2>3, <3>1, RestingStays
    <3> QED BY <2>1, <3>2 DEF GroupInv
  <2> QED BY <2>2, <2>3 DEF GroupInv
<1> QED BY <1>1, <1>2 DEF GroupNext, groupVars

\* The inductive invariant of a group: while it is warmed up its lanes are in lock step, its
\* barrier holds and its script is on the way; once the script is done, only programs grow.
THEOREM GroupInvariance == GroupSpec => []GroupInv
<1>1. GroupInit => GroupInv
  BY WarmInitial DEF GroupInit, GroupInv, WarmedGroupServes
<1> QED BY <1>1, GroupKeeps, PTL DEF GroupSpec

\* Whatever the script of calls, and whichever of them raises: between two calls all the lanes
\* of a live group have captured, or none has.
THEOREM LanesAlwaysAgree == GroupSpec => []LanesAgree
<1>1. GroupInv => LanesAgree
  BY WarmGivesBoth DEF GroupInv, Resting
<1> QED BY <1>1, GroupInvariance, PTL

\* A lane that reports prefill as warmed up has the program of every prefill case and, when its
\* traces were asked for, their plans and the capture.
THEOREM WarmedUpAlwaysReady == GroupSpec => []WarmedUpIsReady
<1>1. LanesBacked => WarmedUpIsReady
  <2> SUFFICES ASSUME LanesBacked, NEW l \in Lanes, AlreadyWarmedUpPrefill(l),
                      NEW c \in Plan("prefill", lane[l].samplingDecision["prefill"] = "device")
               PROVE  /\ c \in lane[l].programs
                      /\ lane[l].traceDecision["prefill"] = "traced" /\ c.traced =>
                           c \in lane[l].plans /\ lane[l].captured
    BY DEF WarmedUpIsReady
  <2>1. Backed(lane[l]) /\ "prefill" \in Ops
    BY DEF LanesBacked, Ops
  <2>2. PICK device \in BOOLEAN :
          /\ lane[l].samplingDecision["prefill"] # "none" =>
               device = (lane[l].samplingDecision["prefill"] = "device")
          /\ Plan("prefill", device) \subseteq lane[l].eager
          /\ "prefill" \in TraceEnabled /\ lane[l].traceDecision["prefill"] # "eager" =>
               {d \in Plan("prefill", device) : d.traced} \subseteq lane[l].traced /\ lane[l].captured
    BY DEF AlreadyWarmedUpPrefill
  <2>3. c \in Plan("prefill", device)
    BY <2>2 DEF Plan
  <2> QED BY <2>1, <2>2, <2>3 DEF Backed
<1>2. GroupInv => LanesBacked
  BY DEF GroupInv, Resting, WarmInv, WarmupInv
<1> QED BY <1>1, <1>2, GroupInvariance, PTL

\* Phased calls in any number, for any number of lanes, whatever is repeated: no lane captures
\* before all lanes have compiled their programs and registered their traces.
THEOREM CaptureIsAlwaysOneBarrier == GroupSpec => []CaptureIsOneBarrier
<1>1. GroupInv => CaptureIsOneBarrier
  BY WarmGivesBoth DEF GroupInv, Resting
<1> QED BY <1>1, GroupInvariance, PTL

\* A group that was warmed up by phased calls or in decode_only mode has, in every lane, the
\* program or the trace of every call it is given, so none is refused.
THEOREM WarmedGroupAlwaysServes == GroupSpec => []WarmedGroupServes
<1>1. GroupInv => WarmedGroupServes
  BY DEF GroupInv
<1> QED BY <1>1, GroupInvariance, PTL

-----------------------------------------------------------------------------
(* Slots of the group and of its lanes. *)

LEMMA SlotDivision ==
    ASSUME NEW s \in Nat
    PROVE  /\ s \div Capacity \in Nat /\ s % Capacity \in 0 .. Capacity - 1
           /\ s = (s \div Capacity) * Capacity + (s % Capacity)
BY GroupAssumption

LEMMA SlotOfLane ==
    ASSUME LaneCount \in Nat \ {0}, NEW s \in Slots
    PROVE  /\ LaneOf(s) \in Lanes /\ s % Capacity \in LocalSlots
           /\ s = (LaneOf(s) - 1) * Capacity + (s % Capacity)
<1> DEFINE q == s \div Capacity
<1>1. /\ q \in Nat /\ s % Capacity \in 0 .. Capacity - 1 /\ s = q * Capacity + (s % Capacity)
      /\ s \in Nat /\ s < LaneCount * Capacity
  BY SlotDivision, GroupAssumption DEF Slots, MaxBatchSize
<1>2. q < LaneCount
  <2> SUFFICES ASSUME q >= LaneCount PROVE FALSE
    BY <1>1
  <2>1. q * Capacity >= LaneCount * Capacity
    BY <1>1, GroupAssumption
  <2> QED BY <1>1, <2>1, GroupAssumption
<1> QED BY <1>1, <1>2 DEF LaneOf, Lanes, LocalSlots

LEMMA SlotAt ==
    ASSUME LaneCount \in Nat \ {0}, NEW l \in Lanes, NEW i \in LocalSlots
    PROVE  LET s == (l - 1) * Capacity + i IN
           s \in Slots /\ LaneOf(s) = l /\ s % Capacity = i
<1> DEFINE s == (l - 1) * Capacity + i
<1>1. /\ l \in Nat /\ l >= 1 /\ l <= LaneCount /\ i \in Nat /\ i < Capacity /\ Capacity \in Nat \ {0}
  BY GroupAssumption DEF Lanes, LocalSlots
<1>2. (l - 1) * Capacity \in Nat /\ (l - 1) * Capacity + Capacity = l * Capacity
  BY <1>1
<1>3. l * Capacity <= LaneCount * Capacity
  BY <1>1
<1>4. s \in Slots
  BY <1>1, <1>2, <1>3 DEF Slots, MaxBatchSize
<1>5. s \div Capacity = l - 1 /\ s % Capacity = i
  <2> DEFINE q == s \div Capacity
  <2>1. s \in Nat /\ q \in Nat /\ s % Capacity \in 0 .. Capacity - 1 /\ s = q * Capacity + (s % Capacity)
    BY <1>1, <1>2, SlotDivision
  <2>2. ~(q > l - 1)
    <3> SUFFICES ASSUME q >= l PROVE FALSE
      BY <1>1, <2>1
    <3>1. q * Capacity >= l * Capacity
      BY <1>1, <2>1
    <3> QED BY <1>1, <1>2, <2>1, <3>1
  <2>3. ~(q < l - 1)
    <3> SUFFICES ASSUME q + 1 <= l - 1 PROVE FALSE
      BY <1>1, <2>1
    <3>1. (q + 1) * Capacity <= (l - 1) * Capacity /\ (q + 1) * Capacity = q * Capacity + Capacity
      BY <1>1, <2>1
    <3> QED BY <1>1, <1>2, <2>1, <3>1
  <2>4. q = l - 1
    BY <1>1, <2>1, <2>2, <2>3
  <2> QED BY <1>1, <1>2, <2>1, <2>4
<1> QED BY <1>1, <1>4, <1>5 DEF LaneOf

LEMMA SlotsApart ==
    ASSUME LaneCount \in Nat \ {0}, NEW s \in Slots, NEW t \in Slots,
           LaneOf(s) = LaneOf(t), s % Capacity = t % Capacity
    PROVE  s = t
BY SlotOfLane

(* The rows of a lane. *)

LEMMA RankGrows ==
    ASSUME NEW n \in Nat, NEW R \in SUBSET (1 .. n)
    PROVE  /\ IsFiniteSet(R) /\ Cardinality(R) \in Nat
           /\ \A i \in R : Rank(R, i) \in 1 .. Cardinality(R)
           /\ \A i, k \in R : i < k => Rank(R, i) < Rank(R, k)
<1>1. IsFiniteSet(R) /\ Cardinality(R) \in Nat
  <2>1. IsFiniteSet(1 .. n)
    BY FS_Interval
  <2> QED BY <2>1, FS_Subset, FS_CardinalityType
<1>2. \A S \in SUBSET R : IsFiniteSet(S) /\ Cardinality(S) \in Nat /\ Cardinality(S) <= Cardinality(R)
  BY <1>1, FS_Subset, FS_CardinalityType
<1>3. ASSUME NEW i \in R PROVE Rank(R, i) \in 1 .. Cardinality(R)
  <2>1. {k \in R : k <= i} \in SUBSET R /\ {k \in R : k <= i} # {}
    OBVIOUS
  <2> QED BY <1>1, <1>2, <2>1, FS_EmptySet DEF Rank
<1>4. ASSUME NEW i \in R, NEW k \in R, i < k PROVE Rank(R, i) < Rank(R, k)
  <2> DEFINE upto(j) == {m \in R : m <= j}
  <2>0. \A m \in R : m \in Int
    OBVIOUS
  <2>1. upto(i) \in SUBSET upto(k) /\ upto(k) \in SUBSET R /\ k \in upto(k) /\ k \notin upto(i)
    <3>1. i \in Int /\ k \in Int /\ i < k
      BY <1>4, <2>0
    <3>2. \A m \in R : m <= i => m <= k
      BY <2>0, <3>1
    <3>3. k \in upto(k) /\ k \notin upto(i)
      BY <3>1
    <3> QED BY <3>2, <3>3
  <2>2. Cardinality(upto(i)) <= Cardinality(upto(k)) /\ Cardinality(upto(i)) # Cardinality(upto(k))
    BY <1>2, <2>1, FS_Subset
  <2>3. Cardinality(upto(i)) \in Nat /\ Cardinality(upto(k)) \in Nat
    BY <1>2, <2>1
  <2> HIDE DEF upto
  <2>4. Cardinality(upto(i)) < Cardinality(upto(k))
    BY <2>2, <2>3
  <2> QED BY <2>4 DEF Rank, upto
<1> QED BY <1>1, <1>3, <1>4

\* Enumerating rows by rank loses none.
LEMMA EveryRank ==
    ASSUME NEW n \in Nat, NEW R \in SUBSET (1 .. n), NEW j \in 1 .. Cardinality(R)
    PROVE  \E i \in R : Rank(R, i) = j
<1> SUFFICES ASSUME \A i \in R : Rank(R, i) # j PROVE FALSE
  OBVIOUS
<1> DEFINE T == (1 .. Cardinality(R)) \ {j}
<1> DEFINE f == [i \in R |-> Rank(R, i)]
<1>1. /\ IsFiniteSet(R) /\ Cardinality(R) \in Nat /\ f \in [R -> T]
      /\ \A i, k \in R : i < k => Rank(R, i) < Rank(R, k)
      /\ \A i \in R : Rank(R, i) \in 1 .. Cardinality(R)
  BY RankGrows
<1>2. IsFiniteSet(T) /\ Cardinality(T) = Cardinality(R) - 1
  <2>1. IsFiniteSet(1 .. Cardinality(R)) /\ Cardinality(1 .. Cardinality(R)) = Cardinality(R)
    BY <1>1, FS_Interval
  <2> QED BY <2>1, FS_RemoveElement
<1>3. PICK x, y \in R : x # y /\ f[x] = f[y]
  <2>1. Cardinality(T) < Cardinality(R)
    BY <1>1, <1>2
  <2>2. f \in [R -> T] /\ IsFiniteSet(R) /\ IsFiniteSet(T)
    BY <1>1, <1>2
  <2> HIDE DEF T, f
  <2> QED BY <2>1, <2>2, FS_PigeonHole
<1>4. x \in Int /\ y \in Int /\ Rank(R, x) = Rank(R, y)
  BY <1>3
<1> QED BY <1>1, <1>3, <1>4

LEMMA Enumerated ==
    ASSUME NEW n \in Nat, NEW R \in SUBSET (1 .. n)
    PROVE  /\ \A j \in 1 .. Cardinality(R) : NthRow(R, j) \in R
           /\ \A i \in R : \E j \in 1 .. Cardinality(R) : NthRow(R, j) = i
<1>1. ASSUME NEW j \in 1 .. Cardinality(R) PROVE NthRow(R, j) \in R /\ Rank(R, NthRow(R, j)) = j
  <2>1. \E i \in R : Rank(R, i) = j
    BY EveryRank
  <2> QED BY <2>1 DEF NthRow
<1>2. ASSUME NEW i \in R PROVE \E j \in 1 .. Cardinality(R) : NthRow(R, j) = i
  <2>1. Rank(R, i) \in 1 .. Cardinality(R)
    BY RankGrows
  <2> DEFINE k == NthRow(R, Rank(R, i))
  <2>2. k \in R /\ Rank(R, k) = Rank(R, i)
    BY <1>1, <2>1
  <2> HIDE DEF k
  <2>3. i \in Int /\ k \in Int /\ Rank(R, i) \in Int
    BY <2>1, <2>2
  <2>4. k = i
    <3>1. \A a, b \in R : a < b => Rank(R, a) < Rank(R, b)
      BY RankGrows
    <3> QED BY <2>2, <2>3, <3>1
  <2> QED BY <2>1, <2>4 DEF k
<1> QED BY <1>1, <1>2

LEMMA RowsOfLane ==
    ASSUME NEW slots \in Seq(Slots), NEW l
    PROVE  /\ RowsOf(slots, l) \in Seq(DOMAIN slots)
           /\ \A j \in DOMAIN RowsOf(slots, l) : LaneOf(slots[RowsOf(slots, l)[j]]) = l
           /\ \A i \in DOMAIN slots : LaneOf(slots[i]) = l =>
                \E j \in DOMAIN RowsOf(slots, l) : RowsOf(slots, l)[j] = i
<1> DEFINE R == RowsIn(slots, l)
<1>1. R \in SUBSET (1 .. Len(slots)) /\ Len(slots) \in Nat
  BY DEF RowsIn
<1>2. Cardinality(R) \in Nat
  BY <1>1, RankGrows
<1>3. /\ \A j \in 1 .. Cardinality(R) : NthRow(R, j) \in R
      /\ \A i \in R : \E j \in 1 .. Cardinality(R) : NthRow(R, j) = i
  BY <1>1, Enumerated
<1>4. RowsOf(slots, l) = [j \in 1 .. Cardinality(R) |-> NthRow(R, j)]
  BY DEF RowsOf
<1>5. \A i : i \in R <=> i \in DOMAIN slots /\ LaneOf(slots[i]) = l
  BY DEF RowsIn
<1> HIDE DEF R
<1>6. DOMAIN RowsOf(slots, l) = 1 .. Cardinality(R)
  BY <1>4
<1>7. \A j \in DOMAIN RowsOf(slots, l) : RowsOf(slots, l)[j] \in R
  BY <1>3, <1>4
<1>8. RowsOf(slots, l) \in Seq(DOMAIN slots)
  BY <1>2, <1>4, <1>3, <1>5
<1>9. \A i \in R : \E j \in DOMAIN RowsOf(slots, l) : RowsOf(slots, l)[j] = i
  BY <1>3, <1>4
<1> QED BY <1>5, <1>7, <1>8, <1>9


(* What the lanes hold is the state of the requests in their slots. *)

Batches ==
    /\ LaneCount \in Nat \ {0}
    /\ terminal \in BOOLEAN /\ (terminal => Grouped)
    /\ placed \in [Slots -> Requests \cup {None}]
    /\ \A s, t \in Slots : placed[s] # None /\ placed[s] = placed[t] => s = t
    /\ state \in [Lanes -> [LocalSlots -> Requests \cup {None}]]
    /\ \A s \in Slots : placed[s] # None => state[LaneOf(s)][s % Capacity] = placed[s]

LEMMA HeldIsPlaced == (Batches => HeldState = placed) /\ (Batches' => HeldState' = placed')
BY DEF Batches, HeldState

LEMMA LengthOfRows == ASSUME NEW n \in Nat, NEW f, f = [i \in 1 .. n |-> f[i]] PROVE Len(f) = n
OBVIOUS

LEMMA Arranged ==
    ASSUME NEW S, NEW f \in Arrangements(S)
    PROVE  /\ f \in Seq(S) /\ Len(f) \in Nat \ {0} /\ DOMAIN f = 1 .. Len(f)
           /\ \A i, j \in DOMAIN f : f[i] = f[j] => i = j
<1>1. PICK n \in 1 .. Cardinality(Requests) : f \in [1 .. n -> S] /\ IsInjective(f)
  BY DEF Arrangements
<1>2. n \in Nat \ {0}
  BY FS_CardinalityType, GroupAssumption
<1>3. f \in Seq(S) /\ Len(f) = n
  BY <1>1, <1>2
<1> QED BY <1>1, <1>2, <1>3 DEF IsInjective

Placing(rows, slots, batch) == \A i \in DOMAIN rows : batch[slots[i]] = rows[i]

\* The value a lane is given for a row is that of the row's own request.
LEMMA SlicedIsOwn ==
    ASSUME NEW rows \in Seq(Requests), NEW slots \in Seq(Slots), Len(slots) = Len(rows),
           LaneCount \in Nat \ {0, 1},
           NEW batch, Placing(rows, slots, batch),
           NEW form \in {"rows", "slots"}, form = "rows" => Len(rows) # MaxBatchSize,
           NEW l, NEW j \in DOMAIN RowsOf(slots, l)
    PROVE  Sliced(Supplied(form, rows, batch), slots, l)[j] = rows[RowsOf(slots, l)[j]]
<1> DEFINE value == Supplied(form, rows, batch)
<1> DEFINE i == RowsOf(slots, l)[j]
<1>1. i \in DOMAIN slots /\ DOMAIN slots = DOMAIN rows /\ i \in 1 .. Len(rows) /\ slots[i] \in Slots
  BY RowsOfLane
<1>2. MaxBatchSize \in Nat /\ MaxBatchSize > 1
  <2>1. Capacity \in Nat /\ Capacity >= 1 /\ LaneCount \in Nat /\ LaneCount >= 2
    BY GroupAssumption
  <2>2. LaneCount * Capacity \in Nat /\ LaneCount * Capacity >= LaneCount
    BY <2>1
  <2> QED BY <2>1, <2>2 DEF MaxBatchSize
<1>3. CASE form = "rows" /\ Len(rows) = 1
  <2>1. value = rows /\ i = 1
    BY <1>1, <1>3 DEF Supplied
  <2> HIDE DEF value
  <2>2. Sliced(value, slots, l) = [k \in DOMAIN RowsOf(slots, l) |-> value[1]]
    BY <1>3, <2>1 DEF Sliced
  <2> QED BY <2>1, <2>2 DEF value
<1>4. CASE form = "rows" /\ Len(rows) # 1
  <2>1. value = rows /\ Len(value) # 1 /\ Len(value) # MaxBatchSize
    BY <1>4 DEF Supplied
  <2> HIDE DEF value
  <2>2. Sliced(value, slots, l) = SliceRows(value, RowsOf(slots, l))
    BY <2>1 DEF Sliced
  <2> QED BY <2>1, <2>2 DEF value, SliceRows
<1>5. CASE form = "slots"
  <2>1. value = [k \in 1 .. MaxBatchSize |-> batch[k - 1]]
    BY <1>5 DEF Supplied
  <2>2. Len(value) = MaxBatchSize
    BY <1>2, <2>1
  <2>3. slots[i] \in Nat /\ slots[i] + 1 \in 1 .. MaxBatchSize
    <3>1. slots[i] \in 0 .. MaxBatchSize - 1
      BY <1>1 DEF Slots
    <3> QED BY <1>2, <3>1
  <2> HIDE DEF value
  <2>4. Sliced(value, slots, l) =
          [k \in DOMAIN RowsOf(slots, l) |-> value[slots[RowsOf(slots, l)[k]] + 1]]
    BY <1>2, <2>2 DEF Sliced
  <2>5. value[slots[i] + 1] = batch[slots[i]] /\ batch[slots[i]] = rows[i]
    BY <1>1, <2>1, <2>3 DEF Placing
  <2> QED BY <1>1, <2>4, <2>5 DEF value
<1> QED BY <1>3, <1>4, <1>5

\* A lane that is given rows has their requests' state in the rows' slots, and no other slot changes.
LEMMA AdmittedIsOwn ==
    ASSUME NEW rows \in Seq(Requests), NEW slots \in Seq(Slots), Len(slots) = Len(rows),
           \A i, j \in DOMAIN slots : slots[i] = slots[j] => i = j,
           LaneCount \in Nat \ {0, 1},
           NEW batch, Placing(rows, slots, batch),
           NEW form \in {"rows", "slots"}, form = "rows" => Len(rows) # MaxBatchSize,
           NEW l \in Lanes, NEW held, NEW s \in LocalSlots
    PROVE  /\ \A i \in DOMAIN slots :
                slots[i] = (l - 1) * Capacity + s =>
                  Admitted(held, Supplied(form, rows, batch), slots, l)[s] = rows[i]
           /\ (\A i \in DOMAIN slots : slots[i] # (l - 1) * Capacity + s) =>
                Admitted(held, Supplied(form, rows, batch), slots, l)[s] = held[s]
<1> DEFINE value == Supplied(form, rows, batch)
<1> DEFINE local == LocalOf(slots, l)
<1> DEFINE admitted == Admitted(held, value, slots, l)
<1>1. admitted[s] = IF \E k \in DOMAIN local : local[k] = s
                    THEN Sliced(value, slots, l)[CHOOSE k \in DOMAIN local : local[k] = s]
                    ELSE held[s]
  BY DEF Admitted
<1>2. ASSUME NEW k \in DOMAIN local
      PROVE  /\ k \in DOMAIN RowsOf(slots, l) /\ RowsOf(slots, l)[k] \in DOMAIN slots
             /\ LET t == slots[RowsOf(slots, l)[k]]
                IN  t \in Slots /\ LaneOf(t) = l /\ t % Capacity = local[k]
  BY RowsOfLane DEF LocalOf
<1>3. /\ (l - 1) * Capacity + s \in Slots /\ LaneOf((l - 1) * Capacity + s) = l
      /\ ((l - 1) * Capacity + s) % Capacity = s
  BY SlotAt
<1>4. ASSUME NEW k \in DOMAIN local, local[k] = s
      PROVE  slots[RowsOf(slots, l)[k]] = (l - 1) * Capacity + s
  BY <1>2, <1>3, <1>4, SlotsApart
<1>5. ASSUME NEW i \in DOMAIN slots, slots[i] = (l - 1) * Capacity + s
      PROVE  \E k \in DOMAIN local : local[k] = s
  <2>1. PICK k \in DOMAIN RowsOf(slots, l) : RowsOf(slots, l)[k] = i
    <3>1. LaneOf(slots[i]) = l
      BY <1>3, <1>5
    <3> QED BY <3>1, RowsOfLane
  <2> QED BY <1>3, <1>5, <2>1 DEF LocalOf
<1>6. ASSUME NEW i \in DOMAIN slots, slots[i] = (l - 1) * Capacity + s
      PROVE  admitted[s] = rows[i]
  <2> DEFINE k == CHOOSE k \in DOMAIN local : local[k] = s
  <2>1. k \in DOMAIN local /\ local[k] = s
    BY <1>5, <1>6
  <2> HIDE DEF k
  <2>2. RowsOf(slots, l)[k] = i
    BY <1>2, <1>4, <1>6, <2>1
  <2>3. Sliced(value, slots, l)[k] = rows[i]
    <3>1. k \in DOMAIN RowsOf(slots, l)
      BY <1>2, <2>1
    <3>2. \A q \in DOMAIN RowsOf(slots, l) :
            Sliced(Supplied(form, rows, batch), slots, l)[q] = rows[RowsOf(slots, l)[q]]
      <4> TAKE q \in DOMAIN RowsOf(slots, l)
      <4>1. Placing(rows, slots, batch)
        OBVIOUS
      <4>2. rows \in Seq(Requests) /\ slots \in Seq(Slots) /\ Len(slots) = Len(rows)
        OBVIOUS
      <4>3. form \in {"rows", "slots"} /\ (form = "rows" => Len(rows) # MaxBatchSize)
        OBVIOUS
      <4>4. LaneCount \in Nat \ {0, 1}
        OBVIOUS
      <4> QED BY <4>1, <4>2, <4>3, <4>4, SlicedIsOwn
    <3> QED BY <2>2, <3>1, <3>2
  <2> QED BY <1>1, <1>5, <1>6, <2>3 DEF k
<1>7. ASSUME \A i \in DOMAIN slots : slots[i] # (l - 1) * Capacity + s
      PROVE  admitted[s] = held[s]
  BY <1>1, <1>2, <1>4, <1>7
<1> QED BY <1>6, <1>7


(* Forwards. *)

LEMMA PrefillBatch ==
    ASSUME Batches,
           NEW rows \in Arrangements(Requests \ Running),
           NEW slots \in Arrangements({s \in Slots : placed[s] = None}), Len(slots) = Len(rows),
           NEW form \in {"rows", "slots"}, form = "rows" => Len(rows) # MaxBatchSize,
           NEW wanted, PrefillForward(rows, slots, form, wanted)
    PROVE  /\ Batches'
           /\ \A i \in DOMAIN rows : placed'[slots[i]] = rows[i]
           /\ \A s \in Slots : (\A i \in DOMAIN slots : slots[i] # s) => placed'[s] = placed[s]
           /\ given' = [op |-> "prefill", rows |-> rows, slots |-> slots]
           /\ answer' = [i \in 1 .. Len(rows) |-> Batch!Row(rows[i])]
           /\ ~terminal /\ UNCHANGED <<scenario, terminal>>
<1> DEFINE batch == [s \in Slots |-> IF \E i \in DOMAIN slots : slots[i] = s
                                       THEN rows[CHOOSE i \in DOMAIN slots : slots[i] = s] ELSE placed[s]]
<1> DEFINE value == Supplied(form, rows, batch)
<1> DEFINE admitted(l) == Admitted(state[l], value, slots, l)
<1> DEFINE outputs == [l \in Participants(slots) |->
                         [i \in DOMAIN RowsOf(slots, l) |->
                            [tokens |-> SliceRows(rows, RowsOf(slots, l))[i],
                             params |-> SliceRows(rows, RowsOf(slots, l))[i],
                             state |-> admitted(l)[LocalOf(slots, l)[i]]]]]
<1>1. /\ Serving /\ UNCHANGED <<scenario, terminal>> /\ placed' = batch
      /\ state' = [l \in Lanes |-> IF l \in Participants(slots) THEN admitted(l) ELSE state[l]]
      /\ answer' = InSourceOrder(outputs, slots)
  BY DEF PrefillForward, Serves
<1>2. /\ LaneCount \in Nat \ {0, 1} /\ LaneCount' = LaneCount /\ Lanes' = Lanes /\ Slots' = Slots
      /\ ~terminal
  BY <1>1 DEF Batches, Serving, Grouped, LaneCount, Lanes, Slots, MaxBatchSize
<1>3. /\ rows \in Seq(Requests) /\ DOMAIN rows = 1 .. Len(rows) /\ Len(rows) \in Nat \ {0}
      /\ \A i, j \in DOMAIN rows : rows[i] = rows[j] => i = j
      /\ \A i \in DOMAIN rows : rows[i] \in Requests \ Running
  BY Arranged
<1>4. /\ slots \in Seq(Slots) /\ DOMAIN slots = DOMAIN rows
      /\ \A i, j \in DOMAIN slots : slots[i] = slots[j] => i = j
      /\ \A i \in DOMAIN slots : slots[i] \in Slots /\ placed[slots[i]] = None
  BY <1>3, Arranged
<1>5. ASSUME NEW i \in DOMAIN rows PROVE batch[slots[i]] = rows[i]
  BY <1>4
<1>6. Placing(rows, slots, batch)
  BY <1>5 DEF Placing
<1>7. ASSUME NEW s \in Slots, \A i \in DOMAIN slots : slots[i] # s PROVE batch[s] = placed[s]
  BY <1>7
<1>8. \A s \in Slots : batch[s] \in Requests \cup {None}
  <2> TAKE s \in Slots
  <2>1. CASE \E i \in DOMAIN slots : slots[i] = s
    BY <1>3, <1>4, <1>5, <2>1
  <2>2. CASE \A i \in DOMAIN slots : slots[i] # s
    BY <1>7, <2>2 DEF Batches
  <2> QED BY <2>1, <2>2
<1>9. ASSUME NEW l \in Lanes, NEW s \in LocalSlots
      PROVE  /\ \A i \in DOMAIN slots :
                  slots[i] = (l - 1) * Capacity + s => admitted(l)[s] = rows[i]
             /\ (\A i \in DOMAIN slots : slots[i] # (l - 1) * Capacity + s) =>
                  admitted(l)[s] = state[l][s]
  <2> HIDE DEF batch
  <2>1. form \in {"rows", "slots"} /\ (form = "rows" => Len(rows) # MaxBatchSize) /\ Len(slots) = Len(rows)
    OBVIOUS
  <2>2. /\ rows \in Seq(Requests) /\ slots \in Seq(Slots) /\ LaneCount \in Nat \ {0, 1}
        /\ \A i, j \in DOMAIN slots : slots[i] = slots[j] => i = j
    BY <1>2, <1>3, <1>4
  <2> QED BY <1>6, <2>1, <2>2, AdmittedIsOwn
<1>10. \A l \in Lanes : admitted(l) \in [LocalSlots -> Requests \cup {None}]
  <2> TAKE l \in Lanes
  <2>1. \A s \in LocalSlots : admitted(l)[s] \in Requests \cup {None}
    <3> TAKE s \in LocalSlots
    <3>1. state[l][s] \in Requests \cup {None}
      BY DEF Batches
    <3>2. \A i \in DOMAIN slots : rows[i] \in Requests
      BY <1>3, <1>4
    <3> HIDE DEF admitted
    <3> QED BY <1>9, <3>1, <3>2
  <2>2. admitted(l) = [s \in LocalSlots |-> admitted(l)[s]]
    BY DEF Admitted
  <2> HIDE DEF admitted
  <2> QED BY <2>1, <2>2
<1> HIDE DEF batch, admitted
<1>11. ASSUME NEW s \in Slots, placed'[s] # None
       PROVE  state'[LaneOf(s)][s % Capacity] = placed'[s]
  <2>1. /\ LaneOf(s) \in Lanes /\ s % Capacity \in LocalSlots
        /\ s = (LaneOf(s) - 1) * Capacity + (s % Capacity)
    BY <1>2, SlotOfLane
  <2>2. ASSUME NEW i \in DOMAIN slots, slots[i] = s
        PROVE  state'[LaneOf(s)][s % Capacity] = placed'[s]
    <3>1. LaneOf(s) \in Participants(slots)
      BY <2>2 DEF Participants
    <3>2. state'[LaneOf(s)] = admitted(LaneOf(s))
      BY <1>1, <2>1, <3>1
    <3>3. admitted(LaneOf(s))[s % Capacity] = rows[i]
      BY <1>9, <2>1, <2>2
    <3> QED BY <1>1, <1>4, <1>5, <2>2, <3>2, <3>3
  <2>3. ASSUME \A i \in DOMAIN slots : slots[i] # s
        PROVE  state'[LaneOf(s)][s % Capacity] = placed'[s]
    <3>1. placed'[s] = placed[s] /\ state[LaneOf(s)][s % Capacity] = placed[s]
      BY <1>1, <1>7, <1>11, <2>3 DEF Batches
    <3>2. admitted(LaneOf(s))[s % Capacity] = state[LaneOf(s)][s % Capacity]
      BY <1>9, <2>1, <2>3
    <3> QED BY <1>1, <2>1, <3>1, <3>2
  <2> QED BY <2>2, <2>3
<1>12. ASSUME NEW s \in Slots, NEW t \in Slots, placed'[s] # None, placed'[s] = placed'[t]
       PROVE  s = t
  <2>1. \A u \in Slots : \/ \E i \in DOMAIN rows : slots[i] = u /\ placed'[u] = rows[i]
                         \/ placed'[u] = placed[u]
    BY <1>1, <1>4, <1>5, <1>7
  <2>2. \A i \in DOMAIN rows, u \in Slots : rows[i] # placed[u]
    BY <1>3, GroupAssumption DEF Running
  <2> QED BY <1>3, <1>12, <2>1, <2>2 DEF Batches
<1>13. Batches'
  <2>1. placed' \in [Slots -> Requests \cup {None}]
    BY <1>1, <1>8 DEF batch
  <2>2. state' \in [Lanes -> [LocalSlots -> Requests \cup {None}]]
    BY <1>1, <1>10 DEF Batches
  <2>3. LaneCount' \in Nat \ {0} /\ terminal' \in BOOLEAN /\ (terminal' => Grouped')
    BY <1>1, <1>2 DEF Batches
  <2>4. \A s \in Slots' : placed'[s] # None => state'[LaneOf(s)][s % Capacity] = placed'[s]
    BY <1>2, <1>11
  <2> QED BY <1>2, <1>12, <2>1, <2>2, <2>3, <2>4 DEF Batches, LaneOf, LocalSlots
<1>14. answer' = [i \in 1 .. Len(rows) |-> Batch!Row(rows[i])]
  <2> DEFINE at(i) == CHOOSE j \in DOMAIN RowsOf(slots, LaneOf(slots[i])) :
                          RowsOf(slots, LaneOf(slots[i]))[j] = i
  <2>1. answer' = [i \in 1 .. Len(rows) |-> outputs[LaneOf(slots[i])][at(i)]]
    BY <1>1 DEF InSourceOrder
  <2>2. ASSUME NEW i \in 1 .. Len(rows)
        PROVE  outputs[LaneOf(slots[i])][at(i)] = Batch!Row(rows[i])
    <3> DEFINE l == LaneOf(slots[i])
    <3>1. i \in DOMAIN slots /\ slots[i] \in Slots /\ l \in Participants(slots)
      BY <1>3, <1>4 DEF Participants
    <3>2. at(i) \in DOMAIN RowsOf(slots, l) /\ RowsOf(slots, l)[at(i)] = i
      BY <1>4, <3>1, RowsOfLane
    <3> HIDE DEF at
    <3>3. /\ SliceRows(rows, RowsOf(slots, l))[at(i)] = rows[i]
          /\ LocalOf(slots, l)[at(i)] = slots[i] % Capacity
      BY <3>2 DEF SliceRows, LocalOf
    <3>4. admitted(l)[slots[i] % Capacity] = rows[i]
      BY <1>2, <1>9, <3>1, SlotOfLane
    <3>5. outputs[l][at(i)] = [tokens |-> SliceRows(rows, RowsOf(slots, l))[at(i)],
                               params |-> SliceRows(rows, RowsOf(slots, l))[at(i)],
                               state |-> admitted(l)[LocalOf(slots, l)[at(i)]]]
      BY <3>1, <3>2
    <3> QED BY <3>3, <3>4, <3>5 DEF Batch!Row
  <2> HIDE DEF at, outputs
  <2> QED BY <2>1, <2>2
<1>15. given' = [op |-> "prefill", rows |-> rows, slots |-> slots]
  BY DEF PrefillForward
<1> QED BY <1>1, <1>2, <1>4, <1>5, <1>7, <1>13, <1>14, <1>15


\* A remap keeps every request in its lane and loses none.
LEMMA RemapFacts ==
    ASSUME LaneCount \in Nat \ {0}, NEW p \in [Lanes -> LaneOrders]
    PROVE  /\ \A s \in Slots :
                /\ Reordered(p)[s] \in Slots /\ LaneOf(Reordered(p)[s]) = LaneOf(s)
                /\ Reordered(p)[s] % Capacity = p[LaneOf(s)][s % Capacity]
           /\ \A s, t \in Slots : Reordered(p)[s] = Reordered(p)[t] => s = t
           /\ \A t \in Slots : \E s \in Slots : Reordered(p)[s] = t
<1> DEFINE remap == Reordered(p)
<1>1. ASSUME NEW l \in Lanes
      PROVE  /\ \A i \in LocalSlots : p[l][i] \in LocalSlots
             /\ \A i, j \in LocalSlots : p[l][i] = p[l][j] => i = j
  <2>1. p[l] \in LaneOrders
    OBVIOUS
  <2>2. p[l] \in [LocalSlots -> LocalSlots] /\ IsInjective(p[l])
    BY <2>1 DEF LaneOrders
  <2> QED BY <2>2 DEF IsInjective
<1>2. ASSUME NEW s \in Slots
      PROVE  /\ remap[s] \in Slots /\ LaneOf(remap[s]) = LaneOf(s)
             /\ remap[s] % Capacity = p[LaneOf(s)][s % Capacity]
  <2>1. LaneOf(s) \in Lanes /\ s % Capacity \in LocalSlots
    BY SlotOfLane
  <2>2. p[LaneOf(s)][s % Capacity] \in LocalSlots
    BY <1>1, <2>1
  <2>3. remap[s] = (LaneOf(s) - 1) * Capacity + p[LaneOf(s)][s % Capacity]
    BY DEF Reordered
  <2> QED BY <2>1, <2>2, <2>3, SlotAt
<1> HIDE DEF remap
<1>3. ASSUME NEW s \in Slots, NEW t \in Slots, remap[s] = remap[t] PROVE s = t
  <2>1. /\ LaneOf(s) = LaneOf(t) /\ LaneOf(s) \in Lanes
        /\ s % Capacity \in LocalSlots /\ t % Capacity \in LocalSlots
    BY <1>2, <1>3, SlotOfLane
  <2>2. p[LaneOf(s)][s % Capacity] = p[LaneOf(s)][t % Capacity]
    BY <1>2, <1>3, <2>1
  <2>3. s % Capacity = t % Capacity
    BY <1>1, <2>1, <2>2
  <2> QED BY <2>1, <2>3, SlotsApart
<1>4. ASSUME NEW t \in Slots PROVE \E s \in Slots : remap[s] = t
  <2> SUFFICES ASSUME \A s \in Slots : remap[s] # t PROVE FALSE
    OBVIOUS
  <2>1. MaxBatchSize \in Nat /\ IsFiniteSet(Slots) /\ Cardinality(Slots) \in Nat
    <3>1. MaxBatchSize \in Nat
      BY GroupAssumption DEF MaxBatchSize
    <3>2. IsFiniteSet(0 .. MaxBatchSize - 1)
      BY <3>1, FS_Interval
    <3> QED BY <3>1, <3>2, FS_CardinalityType DEF Slots
  <2> DEFINE T == Slots \ {t}
  <2>2. IsFiniteSet(T) /\ Cardinality(T) = Cardinality(Slots) - 1
    BY <2>1, FS_RemoveElement
  <2>3. remap \in [Slots -> T] /\ Cardinality(T) < Cardinality(Slots)
    BY <1>2, <2>1, <2>2 DEF remap, Reordered
  <2> HIDE DEF T
  <2>4. \E x, y \in Slots : x # y /\ remap[x] = remap[y]
    BY <2>1, <2>2, <2>3, FS_PigeonHole
  <2> QED BY <1>3, <2>4
<1> QED BY <1>2, <1>3, <1>4 DEF remap

\* Either form gives each lane its own part of the remap.
LEMMA LaneRemapIsOwn ==
    ASSUME LaneCount \in Nat \ {0, 1}, NEW p \in [Lanes -> LaneOrders],
           NEW remap, remap = Reordered(p),
           NEW form \in {"group", "lane"}, form = "lane" => Shared(remap),
           NEW value,
           value = IF form = "lane" THEN [i \in 1 .. Capacity |-> remap[i - 1]]
                                    ELSE [i \in 1 .. MaxBatchSize |-> remap[i - 1]],
           NEW l \in Lanes, NEW s \in LocalSlots
    PROVE  LaneRemap(value, l)[s] = p[l][s]
<1> DEFINE at == (l - 1) * Capacity + s
<1>1. at \in Slots /\ LaneOf(at) = l /\ at % Capacity = s
  BY SlotAt
<1>2. remap[at] = (l - 1) * Capacity + p[l][s] /\ p[l][s] \in LocalSlots
  <2>1. p[l] \in [LocalSlots -> LocalSlots]
    BY DEF LaneOrders
  <2> QED BY <1>1, <2>1 DEF Reordered
<1>3. /\ Capacity \in Nat \ {0} /\ s \in Nat /\ s < Capacity /\ (l - 1) * Capacity \in Nat
      /\ p[l][s] \in Int
  BY <1>2, GroupAssumption DEF LocalSlots, Lanes
<1>4. MaxBatchSize \in Nat /\ MaxBatchSize # Capacity /\ at < MaxBatchSize /\ at \in Nat
  <2>1. LaneCount * Capacity \in Nat /\ LaneCount * Capacity # Capacity
    <3>1. LaneCount * Capacity >= 2 * Capacity
      BY <1>3
    <3> QED BY <1>3, <3>1
  <2> QED BY <1>1, <1>3, <2>1 DEF Slots, MaxBatchSize
<1>5. CASE form = "lane"
  <2>1. value = [i \in 1 .. Capacity |-> remap[i - 1]]
    BY <1>5
  <2>2. Len(value) = Capacity /\ value[s + 1] = remap[s]
    <3>1. s + 1 \in 1 .. Capacity /\ (s + 1) - 1 = s
      BY <1>3
    <3>2. Len(value) = Capacity
      BY <1>3, <2>1, LengthOfRows
    <3>3. value[s + 1] = remap[(s + 1) - 1]
      BY <2>1, <3>1
    <3> QED BY <3>1, <3>2, <3>3
  <2>3. remap[at] = (l - 1) * Capacity + remap[s]
    BY <1>1, <1>5 DEF Shared
  <2>4. s \in Slots /\ LaneOf(s) = 1 /\ s % Capacity = s /\ 1 \in Lanes
    <3>1. 1 \in Lanes /\ (1 - 1) * Capacity + s = s
      BY <1>3 DEF Lanes
    <3>2. LET t == (1 - 1) * Capacity + s IN t \in Slots /\ LaneOf(t) = 1 /\ t % Capacity = s
      BY <3>1, SlotAt
    <3> QED BY <3>1, <3>2
  <2>5. remap[s] \in Int
    <3>1. remap[s] \in Slots
      BY <2>4, RemapFacts
    <3> QED BY <1>4, <3>1 DEF Slots
  <2>6. remap[s] = p[l][s]
    BY <1>2, <1>3, <2>3, <2>5
  <2> QED BY <2>2, <2>6 DEF LaneRemap
<1>6. CASE form = "group"
  <2>1. value = [i \in 1 .. MaxBatchSize |-> remap[i - 1]]
    BY <1>6
  <2>2. Len(value) = MaxBatchSize /\ value[at + 1] = remap[at]
    <3>1. at + 1 \in 1 .. MaxBatchSize /\ (at + 1) - 1 = at
      BY <1>4
    <3>2. Len(value) = MaxBatchSize
      BY <1>4, <2>1, LengthOfRows
    <3>3. value[at + 1] = remap[(at + 1) - 1]
      BY <2>1, <3>1
    <3> QED BY <3>1, <3>2, <3>3
  <2>3. LaneRemap(value, l)[s] = value[(l - 1) * Capacity + s + 1] - (l - 1) * Capacity
    BY <1>4, <2>2 DEF LaneRemap
  <2> QED BY <1>2, <1>3, <2>2, <2>3
<1> QED BY <1>5, <1>6

LEMMA DecodeBatch ==
    ASSUME Batches, NEW remap \in Remaps,
           NEW form \in {"group", "lane"}, form = "lane" => Shared(remap),
           NEW traced, DecodeForward(remap, form, traced)
    PROVE  /\ Batches'
           /\ given' = [op |-> "decode", remap |-> remap]
           /\ remap \in [Slots -> Slots] /\ \A s, t \in Slots : remap[s] = remap[t] => s = t
           /\ placed' = [s \in Slots |-> placed[remap[s]]]
           /\ answer' = [i \in 1 .. MaxBatchSize |->
                            IF placed'[i - 1] = None THEN Batch!Blank ELSE Batch!Row(placed'[i - 1])]
           /\ ~terminal /\ UNCHANGED <<scenario, terminal>>
<1> DEFINE value == IF form = "lane" THEN [i \in 1 .. Capacity |-> remap[i - 1]]
                                     ELSE [i \in 1 .. MaxBatchSize |-> remap[i - 1]]
<1> DEFINE moved == [s \in Slots |-> placed[remap[s]]]
<1> DEFINE held == [l \in Lanes |-> [s \in LocalSlots |-> state[l][LaneRemap(value, l)[s]]]]
<1> DEFINE row(l, s) == LET r == moved[(l - 1) * Capacity + s]
                        IN  [tokens |-> r, params |-> r, state |-> IF r = None THEN None ELSE held[l][s]]
<1>1. /\ Serving /\ UNCHANGED <<scenario, terminal>> /\ placed' = moved /\ state' = held
      /\ answer' = [i \in 1 .. MaxBatchSize |-> row(LaneOf(i - 1), (i - 1) % Capacity)]
  BY DEF DecodeForward, Serves
<1>2. /\ LaneCount \in Nat \ {0, 1} /\ LaneCount' = LaneCount /\ Lanes' = Lanes /\ Slots' = Slots
      /\ ~terminal /\ MaxBatchSize \in Nat
  <2>1. /\ LaneCount \in Nat \ {0, 1} /\ ~terminal /\ Capacity \in Nat
    BY <1>1, GroupAssumption DEF Batches, Serving, Grouped
  <2>2. LaneCount' = LaneCount
    BY <1>1 DEF LaneCount
  <2>3. Lanes' = Lanes /\ Slots' = Slots
    BY <2>2 DEF Lanes, Slots, MaxBatchSize
  <2>4. MaxBatchSize \in Nat
    BY <2>1 DEF MaxBatchSize
  <2> QED BY <2>1, <2>2, <2>3, <2>4
<1>3. PICK p \in [Lanes -> LaneOrders] : remap = Reordered(p)
  BY DEF Remaps
<1>4. /\ \A s \in Slots : /\ remap[s] \in Slots /\ LaneOf(remap[s]) = LaneOf(s)
                          /\ remap[s] % Capacity = p[LaneOf(s)][s % Capacity]
      /\ \A s, t \in Slots : remap[s] = remap[t] => s = t
      /\ \A t \in Slots : \E s \in Slots : remap[s] = t
  <2>1. LaneCount \in Nat \ {0}
    BY <1>2
  <2> QED BY <1>3, <2>1, RemapFacts
<1>5. ASSUME NEW l \in Lanes, NEW s \in LocalSlots
      PROVE  held[l][s] = state[l][p[l][s]] /\ held[l][s] \in Requests \cup {None}
  <2>1. LaneRemap(value, l)[s] = p[l][s]
    <3>1. form \in {"group", "lane"} /\ (form = "lane" => Shared(remap))
      OBVIOUS
    <3> QED BY <1>2, <1>3, <3>1, LaneRemapIsOwn
  <2>2. p[l][s] \in LocalSlots
    BY DEF LaneOrders
  <2> QED BY <2>1, <2>2 DEF Batches
<1> HIDE DEF value
<1>6. ASSUME NEW s \in Slots
      PROVE  /\ moved[s] \in Requests \cup {None}
             /\ moved[s] # None => held[LaneOf(s)][s % Capacity] = moved[s]
  <2>1. LaneOf(s) \in Lanes /\ s % Capacity \in LocalSlots
    BY <1>2, SlotOfLane
  <2>2. held[LaneOf(s)][s % Capacity] = state[LaneOf(s)][p[LaneOf(s)][s % Capacity]]
    BY <1>5, <2>1
  <2>3. moved[s] = placed[remap[s]] /\ remap[s] \in Slots
    BY <1>4
  <2>4. placed[remap[s]] # None => state[LaneOf(remap[s])][remap[s] % Capacity] = placed[remap[s]]
    BY <2>3 DEF Batches
  <2> QED BY <1>4, <2>2, <2>3, <2>4 DEF Batches
<1>7. \A s, t \in Slots : moved[s] # None /\ moved[s] = moved[t] => s = t
  BY <1>4 DEF Batches
<1>8. \A l \in Lanes : held[l] \in [LocalSlots -> Requests \cup {None}]
  BY <1>5
<1>9. remap \in [Slots -> Slots]
  <2>1. remap = [s \in Slots |-> remap[s]]
    BY <1>3 DEF Reordered
  <2> QED BY <1>4, <2>1
<1>10. moved \in [Slots -> Requests \cup {None}] /\ held \in [Lanes -> [LocalSlots -> Requests \cup {None}]]
  BY <1>6, <1>8
<1>11. ASSUME NEW i \in 1 .. MaxBatchSize
       PROVE  row(LaneOf(i - 1), (i - 1) % Capacity) =
                IF moved[i - 1] = None THEN Batch!Blank ELSE Batch!Row(moved[i - 1])
  <2>1. i - 1 \in Slots
    BY <1>2 DEF Slots
  <2>2. (LaneOf(i - 1) - 1) * Capacity + ((i - 1) % Capacity) = i - 1
    BY <1>2, <2>1, SlotOfLane
  <2> HIDE DEF moved, held
  <2> QED BY <1>6, <2>1, <2>2 DEF Batch!Blank, Batch!Row
<1>12. placed' = [s \in Slots |-> placed[remap[s]]] /\ given' = [op |-> "decode", remap |-> remap]
  BY <1>1 DEF DecodeForward
<1> HIDE DEF moved, held, row
<1>13. Batches'
  BY <1>1, <1>2, <1>6, <1>7, <1>10 DEF Batches, LaneOf, LocalSlots, Grouped
<1>14. answer' = [i \in 1 .. MaxBatchSize |->
                    IF placed'[i - 1] = None THEN Batch!Blank ELSE Batch!Row(placed'[i - 1])]
  BY <1>1, <1>11
<1> QED BY <1>1, <1>2, <1>4, <1>9, <1>12, <1>13, <1>14


(* The refinement. *)

\* Warming up, and a forward that fails, leave the batch and the answer alone.
LEMMA QuietSteps ==
    ASSUME Batches, \/ [WarmupNext]_warmupVars /\ UNCHANGED serveVars
                    \/ ForwardRaises \/ UNCHANGED groupVars
                    \/ \E rows, slots, wanted : PrefillRefused(rows, slots, wanted)
                    \/ \E traced : DecodeRefused(traced)
    PROVE  Batches' /\ UNCHANGED <<scenario, placed, state, given, answer>> /\ terminal' \in {terminal, TRUE}
<1>1. UNCHANGED <<placed, state, given, answer>>
  BY DEF serveVars, groupVars, ForwardRaises, Fails, PrefillRefused, DecodeRefused
<1>2. scenario' = scenario /\ (terminal' = terminal \/ terminal' = Grouped)
  <2>1. CASE [WarmupNext]_warmupVars
    BY <2>1 DEF WarmupNext, warmupVars, StartCall, EnterLane, WarmCase, CaseFails, CaseRefused,
       LaneWaits, LanePends, LaneCaptures, NextLane, FinishCall, RefuseMixed, Activate, Raise, Return
  <2>2. CASE ~[WarmupNext]_warmupVars
    BY <2>2 DEF groupVars, ForwardRaises, Fails, PrefillRefused, DecodeRefused, Serving
  <2> QED BY <2>1, <2>2
<1>3. LaneCount' = LaneCount /\ Slots' = Slots /\ Lanes' = Lanes /\ Grouped' = Grouped
  BY <1>2 DEF LaneCount, Slots, Lanes, MaxBatchSize, Grouped
<1>4. terminal' \in {terminal, TRUE} /\ terminal' \in BOOLEAN /\ (terminal' => Grouped)
  <2>1. Grouped \in BOOLEAN /\ terminal \in BOOLEAN /\ (terminal => Grouped)
    BY DEF Batches, Grouped
  <2>2. terminal' = terminal \/ terminal' = Grouped
    BY <1>2
  <2>3. CASE terminal' = terminal
    BY <2>1, <2>3
  <2>4. CASE terminal' = Grouped
    <3>1. Grouped = TRUE \/ Grouped = FALSE
      BY <2>1
    <3>2. terminal = TRUE \/ terminal = FALSE
      BY <2>1
    <3>3. Grouped = FALSE => terminal = FALSE
      BY <2>1, <3>2
    <3> QED BY <2>4, <3>1, <3>2, <3>3
  <2> QED BY <2>2, <2>3, <2>4
<1> QED BY <1>1, <1>2, <1>3, <1>4 DEF Batches, LaneOf, LocalSlots

LEMMA FinishBatch == Batches /\ Finish => Batches' /\ [Batch!Finish]_Batch!batchVars
<1> SUFFICES ASSUME Batches, Finish PROVE Batches' /\ [Batch!Finish]_Batch!batchVars
  OBVIOUS
<1>1. PICK s \in Slots : placed[s] # None /\ placed' = [placed EXCEPT ![s] = None]
  BY DEF Finish
<1>2. UNCHANGED <<scenario, terminal, state, given, answer>>
  BY DEF Finish, warmupVars
<1>3. Batches'
  <2>1. LaneCount' = LaneCount /\ Slots' = Slots /\ Lanes' = Lanes
    BY <1>2 DEF LaneCount, Slots, Lanes, MaxBatchSize
  <2>2. \A t \in Slots : placed'[t] = IF t = s THEN None ELSE placed[t]
    BY <1>1 DEF Batches
  <2>3. placed' \in [Slots -> Requests \cup {None}]
    BY <1>1 DEF Batches
  <2> QED BY <1>2, <2>1, <2>2, <2>3 DEF Batches, LaneOf, LocalSlots, Grouped
<1>4. HeldState = placed /\ HeldState' = placed'
  BY <1>3, HeldIsPlaced
<1>5. DOMAIN placed = Slots
  BY DEF Batches
<1> QED BY <1>1, <1>2, <1>3, <1>4, <1>5 DEF Batch!Finish

LEMMA PrefillStep == Batches /\ Prefill => Batches' /\ [Batch!BatchNext]_Batch!batchVars
<1> SUFFICES ASSUME Batches, Prefill PROVE Batches' /\ [Batch!BatchNext]_Batch!batchVars
  OBVIOUS
<1>1. PICK rows \in Arrangements(Requests \ Running), slots \in Arrangements({s \in Slots : placed[s] = None}) :
        /\ Len(slots) = Len(rows)
        /\ \E wanted :
              \/ \E form \in {"rows", "slots"} :
                    /\ form = "rows" => Len(rows) # MaxBatchSize
                    /\ PrefillForward(rows, slots, form, wanted)
              \/ PrefillRefused(rows, slots, wanted)
  BY DEF Prefill
<1>2. PICK wanted :
        \/ \E form \in {"rows", "slots"} :
              /\ form = "rows" => Len(rows) # MaxBatchSize
              /\ PrefillForward(rows, slots, form, wanted)
        \/ PrefillRefused(rows, slots, wanted)
  BY <1>1
<1>3. CASE PrefillRefused(rows, slots, wanted)
  <2>1. Batches' /\ UNCHANGED <<placed, given, answer>> /\ terminal' = TRUE
    <3>1. terminal' = TRUE
      BY <1>3 DEF PrefillRefused, Fails
    <3> QED BY <1>3, <3>1, QuietSteps
  <2>2. HeldState = placed /\ HeldState' = placed'
    BY <2>1, HeldIsPlaced
  <2> QED BY <2>1, <2>2 DEF Batch!BatchNext, Batch!Break
<1>4. ASSUME NEW form \in {"rows", "slots"}, form = "rows" => Len(rows) # MaxBatchSize,
             PrefillForward(rows, slots, form, wanted)
      PROVE  Batches' /\ Batch!Prefill
  <2>1. /\ Batches'
        /\ \A i \in DOMAIN rows : placed'[slots[i]] = rows[i]
        /\ \A s \in Slots : (\A i \in DOMAIN slots : slots[i] # s) => placed'[s] = placed[s]
        /\ given' = [op |-> "prefill", rows |-> rows, slots |-> slots]
        /\ answer' = [i \in 1 .. Len(rows) |-> Batch!Row(rows[i])]
        /\ ~terminal /\ UNCHANGED <<scenario, terminal>>
    BY <1>1, <1>4, PrefillBatch
  <2>2. HeldState = placed /\ HeldState' = placed'
    BY <2>1, HeldIsPlaced
  <2>3. DOMAIN placed = Slots /\ DOMAIN placed' = Slots
    BY <2>1 DEF Batches, Slots, MaxBatchSize, LaneCount
  <2>4. /\ DOMAIN rows = 1 .. Len(rows) /\ rows # <<>> /\ Batch!Apart(rows)
        /\ \A i \in DOMAIN rows : rows[i] \in Requests \ Running
    <3>1. Len(rows) # 0
      BY Arranged
    <3> QED BY <3>1, Arranged DEF Batch!Apart
  <2>5. /\ DOMAIN slots = DOMAIN rows /\ Batch!Apart(slots)
        /\ \A i \in DOMAIN slots : slots[i] \in Slots /\ placed[slots[i]] = None
    BY <1>1, <2>4, Arranged DEF Batch!Apart
  <2>6. Batch!Held = Running
    BY <2>2, <2>3 DEF Batch!Held, Running
  <2>7. given'.op = "prefill" /\ given'.rows = rows /\ given'.slots = slots
    BY <2>1
  <2>8. answer' = [i \in DOMAIN rows |-> Batch!Row(rows[i])]
    BY <2>1, <2>4
  <2> QED BY <2>1, <2>2, <2>3, <2>4, <2>5, <2>6, <2>7, <2>8 DEF Batch!Prefill
<1> QED BY <1>2, <1>3, <1>4 DEF Batch!BatchNext

LEMMA DecodeStep == Batches /\ Decode => Batches' /\ [Batch!BatchNext]_Batch!batchVars
<1> SUFFICES ASSUME Batches, Decode PROVE Batches' /\ [Batch!BatchNext]_Batch!batchVars
  OBVIOUS
<1>1. PICK traced :
        \/ \E m \in Remaps, form \in {"group", "lane"} :
              (form = "lane" => Shared(m)) /\ DecodeForward(m, form, traced)
        \/ DecodeRefused(traced)
  BY DEF Decode
<1>2. CASE DecodeRefused(traced)
  <2>1. Batches' /\ UNCHANGED <<placed, given, answer>> /\ terminal' = TRUE
    <3>1. terminal' = TRUE
      BY <1>2 DEF DecodeRefused, Fails
    <3> QED BY <1>2, <3>1, QuietSteps
  <2>2. HeldState = placed /\ HeldState' = placed'
    BY <2>1, HeldIsPlaced
  <2> QED BY <2>1, <2>2 DEF Batch!BatchNext, Batch!Break
<1>3. ASSUME NEW remap \in Remaps, NEW form \in {"group", "lane"}, form = "lane" => Shared(remap),
             DecodeForward(remap, form, traced)
      PROVE  Batches' /\ Batch!Decode
  <2>1. /\ Batches'
        /\ given' = [op |-> "decode", remap |-> remap]
        /\ remap \in [Slots -> Slots] /\ \A s, t \in Slots : remap[s] = remap[t] => s = t
        /\ placed' = [s \in Slots |-> placed[remap[s]]]
        /\ answer' = [i \in 1 .. MaxBatchSize |->
                        IF placed'[i - 1] = None THEN Batch!Blank ELSE Batch!Row(placed'[i - 1])]
        /\ ~terminal /\ UNCHANGED <<scenario, terminal>>
    BY <1>3, DecodeBatch
  <2>2. HeldState = placed /\ HeldState' = placed'
    BY <2>1, HeldIsPlaced
  <2>3. /\ DOMAIN placed = Slots
        /\ MaxBatchSize \in Nat /\ LaneCount \in Nat \ {0}
    BY <2>1, GroupAssumption DEF Batches, Slots, MaxBatchSize, LaneCount
  <2>4. Len(answer') = MaxBatchSize /\ Slots = 0 .. Len(answer') - 1
    BY <2>1, <2>3 DEF Slots
  <2>5. Batch!Held = Running
    BY <2>1, <2>2, <2>3 DEF Batch!Held, Running
  <2>6. Running # {}
    <3>1. 1 \in Lanes
      BY <2>3 DEF Lanes
    <3>2. \E s \in Slots : placed[s] # None
      BY <3>1 DEF Decode
    <3> QED BY <3>2 DEF Running
  <2>7. given'.op = "decode" /\ given'.remap = remap
    BY <2>1
  <2>8. Batch!Apart(remap)
    BY <2>1 DEF Batch!Apart
  <2> QED BY <2>1, <2>2, <2>3, <2>4, <2>5, <2>6, <2>7, <2>8 DEF Batch!Decode
<1> QED BY <1>1, <1>2, <1>3 DEF Batch!BatchNext

LEMMA BatchStep == Batches /\ [GroupNext]_groupVars => Batches' /\ [Batch!BatchNext]_Batch!batchVars
<1> SUFFICES ASSUME Batches, [GroupNext]_groupVars PROVE Batches' /\ [Batch!BatchNext]_Batch!batchVars
  OBVIOUS
<1>1. CASE Prefill
  BY <1>1, PrefillStep
<1>2. CASE Decode
  BY <1>2, DecodeStep
<1>3. CASE Finish
  BY <1>3, FinishBatch DEF Batch!BatchNext
<1>4. CASE ForwardRaises \/ (WarmupNext /\ UNCHANGED serveVars) \/ UNCHANGED groupVars
  <2>1. Batches' /\ UNCHANGED <<placed, given, answer>> /\ terminal' \in {terminal, TRUE}
    BY <1>4, QuietSteps
  <2>2. HeldState = placed /\ HeldState' = placed'
    BY <2>1, HeldIsPlaced
  <2> QED BY <2>1, <2>2 DEF Batch!BatchNext, Batch!Break, Batch!batchVars
<1> QED BY <1>1, <1>2, <1>3, <1>4 DEF GroupNext

LEMMA BatchInitial == GroupInit => Batches /\ Batch!Init
<1> SUFFICES ASSUME GroupInit PROVE Batches /\ Batch!Init
  OBVIOUS
<1>1. /\ scenario \in Scenarios /\ terminal = FALSE /\ answer = <<>> /\ given = [op |-> "none"]
      /\ placed = [s \in Slots |-> None] /\ state = [l \in Lanes |-> [s \in LocalSlots |-> None]]
  BY DEF GroupInit, WarmupInit
<1>2. LaneCount \in Nat \ {0}
  BY <1>1, ScenariosAssumption DEF Scenario, LaneCount
<1>3. Batches
  BY <1>1, <1>2 DEF Batches
<1>4. HeldState = placed
  BY <1>3, HeldIsPlaced
<1> QED BY <1>1, <1>3, <1>4 DEF Batch!Init

\* A group implements the executor of one batch: whatever the lanes, the rows of a call, the
\* slots they go to, the form in which their state and remaps are given and the failures, a call
\* puts or moves each request and its state where it says, and is answered row by row in the order
\* in which the rows were given.
THEOREM GroupServesAsOneBatch == GroupSpec => GroupIsOneBatch
BY BatchInitial, BatchStep, PTL DEF GroupSpec, GroupIsOneBatch, Batch!BatchSpec

-----------------------------------------------------------------------------
(* The pool of a group: concurrent reads, and the passes of its cleanup. *)

ThreadState == [at : Steps, drained : SUBSET Futures, lane : Nat, failures : BOOLEAN]

PoolTypes ==
    /\ submitFaults \in Nat
    /\ queue \in Seq(Futures)
    /\ pending \subseteq Futures
    /\ thread \in [Threads -> ThreadState]

\* Where a thread holds the cleanup lock.
Cleaning == {"snapshot", "drain", "lanes", "lane", "shutdown", "release"}

\* One pass at a time, and only on a group that takes no more reads.
OnePass == \A t \in Threads : thread[t].at \in Cleaning => cleaner = t /\ groupTerminal

\* What is in the pool is pending ...
Registered == Unfinished \subseteq pending

\* ... so a pass that has seen what is pending has seen what is in the pool, and one that has
\* waited for it has an empty pool before it.
Waited ==
    \A t \in Threads :
        /\ At(t, "drain") => Unfinished \subseteq thread[t].drained
        /\ thread[t].at \in {"lanes", "lane", "shutdown"} => Unfinished = {}

PoolInv == PoolTypes /\ OnePass /\ (submitFaults = 0 => Registered /\ Waited)

-----------------------------------------------------------------------------

LEMMA PoolInitial == PoolInit => PoolInv
<1> SUFFICES ASSUME PoolInit PROVE PoolInv
  OBVIOUS
<1>1. Unfinished = {}
  BY DEF PoolInit, Unfinished
<1>2. PoolTypes
  <2>1. Idle \in ThreadState
    BY DEF Idle, ThreadState, Steps
  <2> QED BY <2>1 DEF PoolInit, PoolTypes
<1>3. \A t \in Threads : thread[t].at = "idle"
  BY DEF PoolInit, Idle
<1> QED BY <1>1, <1>2, <1>3 DEF PoolInv, OnePass, Registered, Waited, At, Cleaning

LEMMA HeadIsQueued ==
    ASSUME PoolInv, StartRead
    PROVE  Unfinished' \subseteq Unfinished
<1>1. Head(queue) = queue[1] /\ 1 \in DOMAIN queue
  BY DEF StartRead, PoolInv, PoolTypes
<1>2. \A i \in DOMAIN Tail(queue) : i + 1 \in DOMAIN queue /\ Tail(queue)[i] = queue[i + 1]
  BY DEF StartRead, PoolInv, PoolTypes
<1> QED BY <1>1, <1>2 DEF StartRead, Unfinished

LEMMA TailTyped ==
    ASSUME PoolInv, StartRead
    PROVE  queue' \in Seq(Futures)
BY DEF StartRead, PoolInv, PoolTypes

\* The pool works: threads and registries stay as they are.
LEMMA WorkersKeep ==
    ASSUME PoolInv, StartRead \/ (\E f \in Futures : FinishRead(f))
    PROVE  PoolInv'
<1>1. Unfinished' \subseteq Unfinished
  <2>1. CASE StartRead
    BY <2>1, HeadIsQueued
  <2>2. CASE \E f \in Futures : FinishRead(f)
    BY <2>2 DEF FinishRead, EndRead, ReadRaises, Unfinished
  <2> QED BY <2>1, <2>2
<1>2. /\ queue' \in Seq(Futures)
      /\ UNCHANGED <<groupTerminal, cleaner, submitFaults, pending, thread>>
  BY TailTyped DEF PoolInv, PoolTypes, StartRead, FinishRead, EndRead, ReadRaises, groupState
<1> QED BY <1>1, <1>2 DEF PoolInv, PoolTypes, OnePass, Registered, Waited, At

LEMMA ThreadMoves ==
    ASSUME PoolInv, NEW t \in Threads
    PROVE  /\ \A step \in Steps : LET after == [thread EXCEPT ![t].at = step] IN
                 /\ after \in [Threads -> ThreadState]
                 /\ after[t] = [thread[t] EXCEPT !.at = step]
                 /\ after[t].at = step /\ after[t].drained = thread[t].drained
                 /\ \A u \in Threads \ {t} : after[u] = thread[u]
           /\ LET after == [thread EXCEPT ![t] = Idle] IN
                 /\ after \in [Threads -> ThreadState]
                 /\ after[t].at = "idle"
                 /\ \A u \in Threads \ {t} : after[u] = thread[u]
<1>1. Idle \in ThreadState /\ Idle.at = "idle"
  BY DEF Idle, ThreadState, Steps
<1>2. thread \in [Threads -> ThreadState]
  BY DEF PoolInv, PoolTypes
<1>3. \A step \in Steps : /\ [thread[t] EXCEPT !.at = step] \in ThreadState
                          /\ [thread[t] EXCEPT !.at = step].at = step
                          /\ [thread[t] EXCEPT !.at = step].drained = thread[t].drained
  BY <1>2 DEF ThreadState
<1> QED BY <1>1, <1>2, <1>3

\* A thread moves on without the pool, outside its cleanup.
LEMMA CallersKeep ==
    ASSUME PoolInv, NEW t \in Threads,
           CallLanes(t) \/ Cleanup(t) \/ OperationRaises(t) \/ WaitInterrupted(t) \/ Collect(t)
    PROVE  PoolInv'
<1>1. \/ thread' = [thread EXCEPT ![t] = Idle]
      \/ \E step \in {"submit", "acquire"} : thread' = [thread EXCEPT ![t].at = step]
  BY DEF CallLanes, Cleanup, OperationRaises, WaitInterrupted, Collect, Go, Set
<1>4. /\ thread' \in [Threads -> ThreadState]
      /\ \A u \in Threads : thread'[u] = thread[u] \/ thread'[u].at \notin Cleaning
  <2>1. {"submit", "acquire"} \subseteq Steps
    BY DEF Steps
  <2>2. {"submit", "acquire", "idle"} \cap Cleaning = {}
    BY DEF Cleaning
  <2>3. CASE thread' = [thread EXCEPT ![t] = Idle]
    BY <2>2, <2>3, ThreadMoves
  <2>4. ASSUME NEW step \in {"submit", "acquire"}, thread' = [thread EXCEPT ![t].at = step]
        PROVE  /\ thread' \in [Threads -> ThreadState]
               /\ \A u \in Threads : thread'[u] = thread[u] \/ thread'[u].at \notin Cleaning
    <3>1. step \in Steps /\ step \notin Cleaning
      BY <2>1, <2>2
    <3> QED BY <2>4, <3>1, ThreadMoves
  <2> QED BY <1>1, <2>3, <2>4
<1>2. /\ UNCHANGED <<groupTerminal, cleaner, submitFaults, queue, running>>
      /\ Unfinished \subseteq pending => Unfinished \subseteq pending'
      /\ pending' \subseteq pending
  BY DEF CallLanes, Cleanup, OperationRaises, WaitInterrupted, Collect, groupState, poolState
<1>3. Unfinished' = Unfinished
  BY <1>2 DEF Unfinished
<1>5. PoolTypes'
  BY <1>2, <1>4 DEF PoolInv, PoolTypes
<1> QED BY <1>2, <1>3, <1>4, <1>5 DEF PoolInv, OnePass, Registered, Waited, At, Cleaning

\* A submission: the group is not terminal, so nobody is cleaning it up.
LEMMA SubmitKeeps ==
    ASSUME PoolInv, NEW t \in Threads, Submit(t)
    PROVE  PoolInv'
<1> DEFINE reads == [l \in LaneIds |-> <<t, l>>]
<1>1. reads \in Seq(Futures) /\ \A i \in DOMAIN reads : reads[i] \in Own(t)
  BY NLanesAssumption DEF Futures, LaneIds, Own
<1> HIDE DEF reads
<1>2. queue' = queue \o reads /\ pending' = pending \cup Own(t)
  BY DEF Submit, reads
<1>3. queue' \in Seq(Futures)
  BY <1>1, <1>2 DEF PoolInv, PoolTypes
<1>4. \A i \in DOMAIN queue' : queue'[i] \in Own(t) \/ queue'[i] \in {queue[j] : j \in DOMAIN queue}
  BY <1>1, <1>2 DEF PoolInv, PoolTypes
<1>5. Unfinished' \subseteq Unfinished \cup Own(t)
  BY <1>4 DEF Submit, Unfinished
<1>6. PoolTypes'
  <2>1. thread' \in [Threads -> ThreadState]
    BY ThreadMoves DEF Submit, Go, Steps
  <2>2. Own(t) \subseteq Futures
    BY DEF Own, Futures
  <2> QED BY <1>2, <1>3, <2>1, <2>2 DEF PoolInv, PoolTypes, Submit
<1>7. \A u \in Threads : thread[u].at \notin Cleaning /\ thread'[u].at \notin Cleaning
  BY DEF PoolInv, PoolTypes, OnePass, Submit, Go, At, Cleaning
<1> QED BY <1>2, <1>5, <1>6, <1>7
        DEF PoolInv, OnePass, Registered, Waited, At, Cleaning, Submit

LEMMA SubmitRaisesKeeps ==
    ASSUME PoolInv, NEW t \in Threads, NEW l \in LaneIds, SubmitRaises(t, l)
    PROVE  PoolInv'
<1>1. [k \in 1 .. l - 1 |-> <<t, k>>] \in Seq(Futures)
  <2>1. l - 1 \in Nat /\ \A k \in 1 .. l - 1 : k \in LaneIds
    BY NLanesAssumption DEF LaneIds
  <2> QED BY <2>1 DEF Futures
<1>2. PoolTypes'
  <2>1. queue' \in Seq(Futures)
    BY <1>1 DEF PoolInv, PoolTypes, SubmitRaises
  <2>2. thread' \in [Threads -> ThreadState]
    BY ThreadMoves DEF SubmitRaises, Go, Steps
  <2> QED BY <2>1, <2>2 DEF PoolInv, PoolTypes, SubmitRaises
<1>3. submitFaults' # 0
  BY DEF PoolInv, PoolTypes, SubmitRaises
<1>4. OnePass'
  BY DEF PoolInv, PoolTypes, OnePass, SubmitRaises, Go, At, Cleaning, groupState
<1> QED BY <1>2, <1>3, <1>4 DEF PoolInv

\* What a step of a cleanup has to establish: nobody else is in one, and the pool is as it was.
LEMMA PassKeeps ==
    ASSUME PoolInv, NEW t \in Threads,
           UNCHANGED <<submitFaults, queue, running>>,
           pending' \subseteq pending, submitFaults = 0 => Unfinished \subseteq pending',
           \A u \in Threads \ {t} : thread[u].at \notin Cleaning /\ thread'[u] = thread[u],
           thread' \in [Threads -> ThreadState],
           thread'[t].at \in Cleaning => cleaner' = t /\ groupTerminal',
           submitFaults = 0 =>
               /\ thread'[t].at = "drain" => Unfinished \subseteq thread'[t].drained
               /\ thread'[t].at \in {"lanes", "lane", "shutdown"} => Unfinished = {}
    PROVE  PoolInv'
<1>1. Unfinished' = Unfinished
  BY DEF Unfinished
<1>2. PoolTypes'
  BY DEF PoolInv, PoolTypes
<1>3. OnePass'
  BY DEF OnePass
<1>4. submitFaults' = 0 => Registered'
  BY <1>1 DEF Registered
<1>5. submitFaults' = 0 => Waited'
  BY <1>1 DEF Waited, At, Cleaning
<1> QED BY <1>2, <1>3, <1>4, <1>5 DEF PoolInv

\* The lock is free, or the thread has it.
LEMMA Alone ==
    ASSUME PoolInv, NEW t \in Threads, cleaner = NoThread \/ thread[t].at \in Cleaning
    PROVE  \A u \in Threads \ {t} : thread[u].at \notin Cleaning
BY NoThreadAssumption DEF PoolInv, OnePass

\* The lock is taken, or given back.
LEMMA LockKeeps ==
    ASSUME PoolInv, NEW t \in Threads, Acquire(t) \/ Release(t) \/ DrainInterrupted(t)
    PROVE  PoolInv'
<1>1. \A u \in Threads \ {t} : thread[u].at \notin Cleaning
  BY Alone DEF Acquire, Release, DrainInterrupted, At, Cleaning
<1>2. /\ UNCHANGED <<submitFaults, queue, running, pending>>
      /\ submitFaults = 0 => Unfinished \subseteq pending
  BY DEF PoolInv, Registered, Acquire, Release, DrainInterrupted, poolState
<1>3. CASE Acquire(t)
  <2>1. PICK step \in {"release", "snapshot"} : thread' = [thread EXCEPT ![t].at = step]
    BY <1>3 DEF Acquire, Go
  <2>2. step \in Steps
    BY DEF Steps
  <2>3. /\ thread' \in [Threads -> ThreadState] /\ thread'[t].at = step
        /\ \A u \in Threads \ {t} : thread'[u] = thread[u]
    BY <2>1, <2>2, ThreadMoves
  <2>4. cleaner' = t /\ groupTerminal'
    BY <1>3 DEF Acquire
  <2> QED BY <1>1, <1>2, <2>3, <2>4, PassKeeps
<1>4. CASE Release(t) \/ DrainInterrupted(t)
  <2>1. thread' = [thread EXCEPT ![t] = Idle]
    BY <1>4 DEF Release, DrainInterrupted, Set
  <2>2. /\ thread' \in [Threads -> ThreadState] /\ thread'[t].at = "idle"
        /\ \A u \in Threads \ {t} : thread'[u] = thread[u]
    BY <2>1, ThreadMoves
  <2> QED BY <1>1, <1>2, <2>2, PassKeeps DEF Cleaning
<1> QED BY <1>3, <1>4

\* The pending reads are noted, and waited for.
LEMMA DrainKeeps ==
    ASSUME PoolInv, NEW t \in Threads, Snapshot(t) \/ Drained(t)
    PROVE  PoolInv'
<1> DEFINE own == thread[t]
<1>1. /\ own.at \in Cleaning /\ cleaner = t /\ groupTerminal
      /\ \A u \in Threads \ {t} : thread[u].at \notin Cleaning
  BY Alone DEF Snapshot, Drained, At, Cleaning, PoolInv, OnePass
<1>2. UNCHANGED <<submitFaults, queue, running, groupTerminal, cleaner>>
  BY DEF Snapshot, Drained, groupState, poolState
<1>3. own \in ThreadState
  BY DEF PoolInv, PoolTypes
<1>4. submitFaults = 0 => Unfinished \subseteq pending
  BY DEF PoolInv, Registered
<1>5. CASE Snapshot(t)
  <2>1. /\ thread' = [thread EXCEPT ![t] = [own EXCEPT !.at = "drain", !.drained = pending]]
        /\ pending' = pending
    BY <1>5 DEF Snapshot
  <2>2. /\ [own EXCEPT !.at = "drain", !.drained = pending] \in ThreadState
        /\ [own EXCEPT !.at = "drain", !.drained = pending].at = "drain"
        /\ [own EXCEPT !.at = "drain", !.drained = pending].drained = pending
    BY <1>3 DEF ThreadState, Steps, PoolInv, PoolTypes
  <2>3. /\ thread' \in [Threads -> ThreadState]
        /\ thread'[t].at = "drain" /\ thread'[t].drained = pending
        /\ \A u \in Threads \ {t} : thread'[u] = thread[u]
    BY <2>1, <2>2 DEF PoolInv, PoolTypes
  <2> QED BY <1>1, <1>2, <1>4, <2>1, <2>3, PassKeeps
<1>6. CASE Drained(t)
  <2>1. PICK raised \in BOOLEAN :
           thread' = [thread EXCEPT ![t] = [own EXCEPT !.at = "lanes", !.drained = {}, !.failures = raised]]
    BY <1>6 DEF Drained
  <2>2. /\ [own EXCEPT !.at = "lanes", !.drained = {}, !.failures = raised] \in ThreadState
        /\ [own EXCEPT !.at = "lanes", !.drained = {}, !.failures = raised].at = "lanes"
    BY <1>3 DEF ThreadState, Steps
  <2>3. /\ thread' \in [Threads -> ThreadState] /\ thread'[t].at = "lanes"
        /\ \A u \in Threads \ {t} : thread'[u] = thread[u]
    BY <2>1, <2>2 DEF PoolInv, PoolTypes
  <2>4. submitFaults = 0 => Unfinished = {}
    BY <1>6 DEF PoolInv, Waited, Drained, At
  <2>5. pending' \subseteq pending
    BY <1>6 DEF Drained
  <2> QED BY <1>1, <1>2, <2>3, <2>4, <2>5, PassKeeps
<1> QED BY <1>5, <1>6

\* The lanes and the pool: all of it after the wait.
LEMMA LanesKeep ==
    ASSUME PoolInv, NEW t \in Threads,
           \/ (\E l \in LaneIds : StartLane(t, l)) \/ EndLane(t) \/ LaneRaises(t)
           \/ StartShutdown(t) \/ Shutdown(t) \/ ShutdownRaises(t)
    PROVE  PoolInv'
<1> DEFINE own == thread[t]
<1>1. /\ own.at \in {"lanes", "lane", "shutdown"}
      /\ UNCHANGED <<submitFaults, queue, running, pending, groupTerminal, cleaner>>
  BY DEF StartLane, EndLane, LaneRaises, StartShutdown, Shutdown, ShutdownRaises, At, groupState,
         poolState
<1>2. /\ cleaner = t /\ groupTerminal
      /\ \A u \in Threads \ {t} : thread[u].at \notin Cleaning
  BY <1>1, Alone DEF Cleaning, PoolInv, OnePass
<1>3. submitFaults = 0 => Unfinished = {}
  BY <1>1 DEF PoolInv, Waited, At
<1>4. own \in ThreadState /\ thread \in [Threads -> ThreadState]
  BY DEF PoolInv, PoolTypes
<1>5. PICK later \in ThreadState : /\ later.at \in {"lane", "lanes", "shutdown", "release"}
                                  /\ thread' = [thread EXCEPT ![t] = later]
  <2>1. ASSUME NEW l \in LaneIds, StartLane(t, l)
        PROVE  thread' = [thread EXCEPT ![t] = [own EXCEPT !.at = "lane", !.lane = l]]
    BY <2>1 DEF StartLane
  <2>2. ASSUME LaneRaises(t) \/ ShutdownRaises(t)
        PROVE  \E step \in {"lanes", "release"} :
                   thread' = [thread EXCEPT ![t] = [own EXCEPT !.at = step, !.failures = TRUE]]
    BY <2>2 DEF LaneRaises, ShutdownRaises
  <2>3. ASSUME EndLane(t) \/ StartShutdown(t) \/ Shutdown(t)
        PROVE  \E step \in {"lanes", "release", "shutdown"} :
                   thread' = [thread EXCEPT ![t] = [own EXCEPT !.at = step]]
    BY <2>3 DEF EndLane, StartShutdown, Shutdown, Go
  <2>4. \A l \in LaneIds : /\ [own EXCEPT !.at = "lane", !.lane = l] \in ThreadState
                            /\ [own EXCEPT !.at = "lane", !.lane = l].at = "lane"
    <3>1. LaneIds \subseteq Nat
      BY DEF LaneIds
    <3>2. \A l \in Nat : /\ [own EXCEPT !.at = "lane", !.lane = l] \in ThreadState
                         /\ [own EXCEPT !.at = "lane", !.lane = l].at = "lane"
      BY <1>4 DEF ThreadState, Steps
    <3> QED BY <3>1, <3>2
  <2>5. \A step \in {"lanes", "release", "shutdown"} :
           /\ [own EXCEPT !.at = step, !.failures = TRUE] \in ThreadState
           /\ [own EXCEPT !.at = step, !.failures = TRUE].at = step
           /\ [own EXCEPT !.at = step] \in ThreadState
           /\ [own EXCEPT !.at = step].at = step
    BY <1>4 DEF ThreadState, Steps
  <2> QED BY <2>1, <2>2, <2>3, <2>4, <2>5
<1>6. /\ thread' \in [Threads -> ThreadState] /\ thread'[t] = later
      /\ \A u \in Threads \ {t} : thread'[u] = thread[u]
  BY <1>4, <1>5
<1> QED BY <1>1, <1>2, <1>3, <1>5, <1>6, PassKeeps

LEMMA PoolKeeps == PoolInv /\ [PoolNext]_poolVars => PoolInv'
<1> SUFFICES ASSUME PoolInv, [PoolNext]_poolVars PROVE PoolInv'
  OBVIOUS
<1>1. CASE UNCHANGED poolVars
  BY <1>1 DEF PoolInv, PoolTypes, OnePass, Registered, Waited, Unfinished, At, poolVars, groupState,
              poolState
<1>2. ASSUME NEW t \in Threads, CallLanes(t) \/ Cleanup(t) \/ Continue(t) PROVE PoolInv'
  BY <1>2, CallersKeep, SubmitKeeps, SubmitRaisesKeeps, LockKeeps, DrainKeeps, LanesKeep DEF Continue
<1> QED BY <1>1, <1>2, WorkersKeep DEF PoolNext

\* No lane is released under a read of the group, whoever interrupts, raises or retries, unless a
\* submission to the pool raised.
THEOREM CleanupAlwaysWaits == PoolSpec => []CleanupWaits
<1>1. PoolInv => CleanupWaits
  BY DEF PoolInv, Waited, CleanupWaits, NoCleanupUnderRead, At
<1> QED BY <1>1, PoolInitial, PoolKeeps, PTL DEF PoolSpec

\* Passes of cleanup exclude each other, and a group that is being cleaned up is terminal.
THEOREM PassesExclude ==
    PoolSpec => [](\A t, u \in Threads : {thread[t].at, thread[u].at} \subseteq Cleaning => t = u)
<1>1. PoolInv => \A t, u \in Threads : {thread[t].at, thread[u].at} \subseteq Cleaning => t = u
  BY DEF PoolInv, OnePass
<1> QED BY <1>1, PoolInitial, PoolKeeps, PTL DEF PoolSpec

=============================================================================

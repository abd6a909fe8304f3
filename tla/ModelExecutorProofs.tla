-------------------------- MODULE ModelExecutorProofs --------------------------
(***************************************************************************)
(* Proofs about a lane, for any programs, keys, plans, owners, KV tensors, *)
(* object ids and number of failures: first its compilers (TraceCompiler), *)
(* then the lane (ModelExecutor).                                          *)
(*                                                                         *)
(* Ind is the inductive invariant of the compilers.  Exact states          *)
(* OwnershipExact resource by resource; the others say how far a trace has *)
(* come for each value of stage and which gate is closed then, which is    *)
(* what a step needs to know to keep the registries and the device in      *)
(* agreement.  What registration and replay keep consistent, and that the  *)
(* compilers implement the gate of CompileGate, rest on it.                *)
(*                                                                         *)
(* A lane implements TraceCompiler (TracedLane), so that Ind holds in a    *)
(* lane; what the lane adds is the order of its cleanup, the KV cache, and *)
(* what warm-up commits.                                                   *)
(***************************************************************************)
EXTENDS ModelExecutor, TLAPS

-----------------------------------------------------------------------------
(* The inductive invariant. *)

\* What is on the device, and which registry owns it, when art, hold and inputs are the
\* registries, dev is the device and rec is the record being captured.
ExactFor(art, hold, inputs, rec, dev) ==
    \A k \in Keys :
      /\ <<"trace", k>> \in dev <=> (art[k] = "live" \/ rec = k)
      /\ <<"in", k>> \in dev <=> ("in" \in hold[k] \/ k \in inputs)
      /\ <<"out", k>> \in dev <=> "out" \in hold[k]

\* An artifact that is gone holds nothing, a live one holds its inputs, and inputs that are
\* not an artifact's belong to a key without an artifact.
ArtifactsFor(art, hold, inputs) ==
    /\ \A k \in Keys : art[k] = "none" => hold[k] = {}
    /\ \A k \in Keys : art[k] = "live" => "in" \in hold[k]
    /\ \A k \in inputs : art[k] = "none"

Exact == ExactFor(artifact, holds, prepared \cup orphans, recording, device)
Artifacts == ArtifactsFor(artifact, holds, prepared \cup orphans)

Recording == recording # NoKey => recording \in prepared /\ stage = "capture"

\* Between two calls of capture_all no inputs are prepared and the gates agree.
IdleState ==
    stage = "idle" => /\ prepared = {}
                      /\ ~programsReleased => (traceActive <=> activated) /\ ~traceCaptureInProgress

\* While capture_all runs, nothing is left from before it.
BusyState ==
    stage # "idle" => /\ ~programsReleased /\ ~tracesReleased
                      /\ ~activated /\ ~traceActive
                      /\ orphans = {} /\ compileOrphans = {}
                      /\ (traceCaptureInProgress <=> recording # NoKey)
                      /\ stage = "prepare" => \A k \in Keys : artifact[k] = "none"

Inactive == stage = "idle" /\ ~activated => orphans = {} /\ \A k \in Keys : artifact[k] = "none"

Ind ==
    /\ TypeOK
    /\ Exact
    /\ Artifacts
    /\ prepared \cap orphans = {}
    /\ Recording
    /\ IdleState
    /\ BusyState
    /\ Inactive

-----------------------------------------------------------------------------
(* One release pass. *)

\* After a pass, whatever it could not release is still owned, and nothing else is.
LEMMA ReleaseAllStep ==
    ASSUME NEW art \in [Keys -> {"none", "live", "released"}],
           NEW hold \in [Keys -> SUBSET Parts],
           NEW inputs \in SUBSET Keys,
           NEW dev \in SUBSET Resources,
           NEW stuck,
           ExactFor(art, hold, inputs, NoKey, dev),
           ArtifactsFor(art, hold, inputs),
           TypeOK,
           ReleaseAll(art, hold, inputs, dev, stuck)
    PROVE  /\ artifact' \in [Keys -> {"none", "live", "released"}]
           /\ holds' \in [Keys -> SUBSET Parts]
           /\ orphans' \in SUBSET inputs
           /\ workspace' \in [Programs -> Ids \cup {NoId}]
           /\ freedIds' \in [Programs -> SUBSET Ids]
           /\ device' \in SUBSET Resources
           /\ faults' \in Nat
           /\ ExactFor(artifact', holds', orphans', NoKey, device')
           /\ ArtifactsFor(artifact', holds', orphans')
<1> DEFINE tried == Attempted(art, hold, inputs, stuck)
<1>1. /\ artifact' = ArtifactAfter(art, hold, stuck)
      /\ holds' = HoldsAfter(art, hold, stuck)
      /\ orphans' = {k \in inputs : <<"in", k>> \in stuck}
      /\ device' = dev \ (tried \ stuck)
  BY DEF ReleaseAll
<1>2. /\ holds' \in [Keys -> SUBSET Parts]
      /\ artifact' \in [Keys -> {"none", "live", "released"}]
  BY <1>1 DEF HoldsAfter, ArtifactAfter
<1>3. \A k \in Keys :
        /\ TraceStuck(art, k, stuck) => holds'[k] = hold[k] /\ artifact'[k] = "live"
        /\ ~TraceStuck(art, k, stuck) =>
             /\ holds'[k] = {part \in hold[k] : <<part, k>> \in stuck}
             /\ artifact'[k] = IF holds'[k] = {} THEN "none" ELSE "released"
  BY <1>1 DEF ArtifactAfter, HoldsAfter
<1>4. ASSUME NEW k \in Keys
      PROVE  /\ <<"trace", k>> \in tried <=> art[k] = "live"
             /\ <<"in", k>> \in tried <=> \/ "in" \in hold[k] /\ ~TraceStuck(art, k, stuck)
                                          \/ k \in inputs
             /\ <<"out", k>> \in tried <=> "out" \in hold[k] /\ ~TraceStuck(art, k, stuck)
  <2> DEFINE parts == UNION {{<<q, j>> : q \in hold[j]} :
                               j \in {j \in Keys : ~TraceStuck(art, j, stuck)}}
  <2>1. \A part \in {"in", "out"} :
          <<part, k>> \in parts <=> part \in hold[k] /\ ~TraceStuck(art, k, stuck)
    OBVIOUS
  <2>2. <<"trace", k>> \notin parts
    BY DEF Parts
  <2> QED
    BY <2>1, <2>2 DEF Attempted
<1>5. ExactFor(artifact', holds', orphans', NoKey, device')
  <2> SUFFICES ASSUME NEW k \in Keys
               PROVE  /\ <<"trace", k>> \in device' <=> artifact'[k] = "live"
                      /\ <<"in", k>> \in device' <=> ("in" \in holds'[k] \/ k \in orphans')
                      /\ <<"out", k>> \in device' <=> "out" \in holds'[k]
    BY KeysAssumption DEF ExactFor
  <2>1. /\ <<"trace", k>> \in dev <=> art[k] = "live"
        /\ <<"in", k>> \in dev <=> ("in" \in hold[k] \/ k \in inputs)
        /\ <<"out", k>> \in dev <=> "out" \in hold[k]
    BY KeysAssumption DEF ExactFor
  <2>2. k \in inputs => art[k] = "none" /\ hold[k] = {}
    BY DEF ArtifactsFor
  <2> HIDE DEF tried
  <2>3. <<"trace", k>> \in device' <=> artifact'[k] = "live"
    BY <1>1, <1>3, <1>4, <2>1 DEF TraceStuck
  <2>4. <<"out", k>> \in device' <=> "out" \in holds'[k]
    BY <1>1, <1>3, <1>4, <2>1
  <2>5. <<"in", k>> \in device' <=> ("in" \in holds'[k] \/ k \in orphans')
    BY <1>1, <1>3, <1>4, <2>1, <2>2 DEF TraceStuck
  <2> QED
    BY <2>3, <2>4, <2>5
<1>6. ArtifactsFor(artifact', holds', orphans')
  <2>1. ASSUME NEW k \in Keys, artifact'[k] = "none"
        PROVE  holds'[k] = {}
    BY <1>3, <2>1
  <2>2. ASSUME NEW k \in Keys, artifact'[k] = "live"
        PROVE  "in" \in holds'[k]
    BY <1>3, <2>2 DEF ArtifactsFor, TraceStuck
  <2>3. ASSUME NEW k \in orphans'
        PROVE  artifact'[k] = "none"
    BY <1>1, <1>3 DEF ArtifactsFor, TraceStuck
  <2> QED
    BY <2>1, <2>2, <2>3 DEF ArtifactsFor
<1>7. workspace' \in [Programs -> Ids \cup {NoId}]
  BY DEF TypeOK, ReleaseAll, ReleaseWorkspaces
<1>8. freedIds' \in [Programs -> SUBSET Ids]
  BY DEF TypeOK, ReleaseAll, ReleaseWorkspaces, WorkspaceAttempted
<1>9. faults' \in Nat
  BY DEF TypeOK, ReleaseAll, CountFault
<1> QED
  BY <1>1, <1>2, <1>5, <1>6, <1>7, <1>8, <1>9

\* A rollback leaves the idle state, its gates closed exactly when something remains.
LEMMA RollbackStep ==
    ASSUME NEW art \in [Keys -> {"none", "live", "released"}],
           NEW hold \in [Keys -> SUBSET Parts],
           NEW inputs \in SUBSET Keys,
           NEW allocated \in SUBSET Resources,
           ExactFor(art, hold, inputs, NoKey, allocated),
           ArtifactsFor(art, hold, inputs),
           TypeOK,
           RunOnDevice,
           Rollback(art, hold, inputs, allocated)
    PROVE  Ind'
<1>1. PICK stuck \in Refusals(allocated) : ReleaseAll(art, hold, inputs, allocated, stuck)
  BY DEF Rollback
<1>2. /\ artifact' \in [Keys -> {"none", "live", "released"}]
      /\ holds' \in [Keys -> SUBSET Parts]
      /\ orphans' \in SUBSET inputs
      /\ workspace' \in [Programs -> Ids \cup {NoId}]
      /\ freedIds' \in [Programs -> SUBSET Ids]
      /\ device' \in SUBSET Resources
      /\ faults' \in Nat
      /\ ExactFor(artifact', holds', orphans', NoKey, device')
      /\ ArtifactsFor(artifact', holds', orphans')
  BY <1>1, ReleaseAllStep
<1>3. activated' = Leftovers(artifact', orphans', workspace') /\ activated' \in BOOLEAN
  BY DEF Rollback, Leftovers
<1>4. TypeOK'
  BY <1>2, <1>3
  DEF TypeOK, ProgramTypeOK, Rollback, RunOnDevice, CacheStates, Stages, replayVars
<1>5. Exact'
  BY <1>2 DEF Exact, ExactFor, Rollback
<1>6. Artifacts' /\ (prepared \cap orphans = {})'
  BY <1>2 DEF Artifacts, ArtifactsFor, Rollback
<1>7. Recording' /\ IdleState' /\ BusyState'
  BY DEF Rollback, Recording, IdleState, BusyState
<1>8. Inactive'
  BY <1>3 DEF Inactive, Leftovers
<1> QED
  BY <1>4, <1>5, <1>6, <1>7, <1>8 DEF Ind

-----------------------------------------------------------------------------
(* Every step of the lane preserves the invariant. *)

\* A step that keeps the registries and the key resources on the device, and stays in the
\* same phase of capture_all, need only keep the gates.
LEMMA SameOwners ==
    ASSUME Ind, TypeOK',
           UNCHANGED <<stage, prepared, recording, artifact, holds, orphans, activated,
                       traceActive, traceCaptureInProgress, programsReleased, tracesReleased>>,
           device' = device \/ \E p \in Programs : device' = device \cup {<<"workspace", p>>},
           stage # "idle" => compileOrphans' = compileOrphans
    PROVE  Ind'
<1>1. Exact'
  <2>1. \A kind \in {"trace", "in", "out"}, k \in Keys :
          <<kind, k>> \in device' <=> <<kind, k>> \in device
    OBVIOUS
  <2> QED
    BY <2>1 DEF Ind, Exact, ExactFor
<1>2. Artifacts'
  BY DEF Ind, Artifacts, ArtifactsFor
<1>3. Recording' /\ IdleState' /\ BusyState' /\ Inactive'
  BY DEF Ind, Recording, IdleState, BusyState, Inactive
<1> QED
  BY <1>1, <1>2, <1>3 DEF Ind

LEMMA IndInit == Init => Ind
<1> SUFFICES ASSUME Init PROVE Ind
  OBVIOUS
<1> USE DEF Init, TraceInit, ProgramInit
<1>1. TypeOK
  BY DEF TypeOK, ProgramTypeOK, CacheStates, Stages
<1>2. Exact /\ Artifacts
  BY KeysAssumption DEF Exact, ExactFor, Artifacts, ArtifactsFor
<1> QED
  BY <1>1, <1>2 DEF Ind, Recording, IdleState, BusyState, Inactive

LEMMA CompileKeepsInd ==
    ASSUME Ind, NEW p \in Programs, Compile(p)
    PROVE  Ind'
<1> USE DEF Compile, CompileSucceeds, CompileFails, CanCompile, RunOnDevice, traceVars,
            captureVars, resourceVars, replayVars
<1>1. TypeOK'
  BY DEF Ind, TypeOK, ProgramTypeOK, CacheStates
<1> QED
  BY <1>1, SameOwners

LEMMA RegisterKeepsInd ==
    ASSUME Ind, NEW plan \in Plans, RegisterCapturePlan(plan)
    PROVE  Ind'
<1> USE DEF RegisterCapturePlan, programVars, resourceVars, replayVars
<1>1. TypeOK'
  BY DEF Ind, TypeOK, ProgramTypeOK
<1> QED
  BY <1>1, SameOwners

\* The one step that opens capture_all finds the gates open and nothing owned.
LEMMA StartKeepsInd ==
    ASSUME Ind, StartCapture
    PROVE  Ind'
<1> USE DEF StartCapture, programVars, resourceVars, replayVars
<1>1. TypeOK'
  BY DEF Ind, TypeOK, ProgramTypeOK, Stages
<1>2. Exact' /\ Artifacts'
  <2>1. Exact'
    BY DEF Ind, Exact, ExactFor
  <2>2. Artifacts'
    BY DEF Ind, Artifacts, ArtifactsFor
  <2> QED
    BY <2>1, <2>2
<1>3. recording = NoKey
  BY DEF Ind, Recording
<1>4. BusyState'
  BY <1>3 DEF Ind, BusyState, IdleState, Inactive
<1> QED
  BY <1>1, <1>2, <1>3, <1>4 DEF Ind, Recording, IdleState, Inactive

LEMMA PrepareInputsKeepsInd ==
    ASSUME Ind, NEW k \in Keys, PrepareInputs(k)
    PROVE  Ind'
<1> USE DEF PrepareInputs, programVars, replayVars
<1>1. TypeOK'
  BY DEF Ind, TypeOK, ProgramTypeOK, Resources, KeyResources
<1>2. artifact[k] = "none"
  BY DEF Ind, BusyState
<1>3. Exact'
  BY DEF Ind, Exact, ExactFor
<1>4. Artifacts'
  BY <1>2 DEF Ind, Artifacts, ArtifactsFor
<1> QED
  BY <1>1, <1>3, <1>4 DEF Ind, Recording, IdleState, BusyState, Inactive

LEMMA PrepareWorkspaceKeepsInd ==
    ASSUME Ind, NEW p \in Programs, NEW id \in Ids, PrepareWorkspace(p, id)
    PROVE  Ind'
<1> USE DEF PrepareWorkspace, programVars, captureVars, replayVars
<1>1. TypeOK'
  BY DEF Ind, TypeOK, ProgramTypeOK, Resources
<1> QED
  BY <1>1, SameOwners

LEMMA PrimeKeepsInd ==
    ASSUME Ind, PrimeCaptures
    PROVE  Ind'
<1> USE DEF PrimeCaptures, resourceVars, replayVars
<1>1. TypeOK'
  BY DEF Ind, TypeOK, ProgramTypeOK, Stages, CacheStates
<1>2. Exact'
  BY DEF Ind, Exact, ExactFor
<1>3. Artifacts'
  BY DEF Ind, Artifacts, ArtifactsFor
<1>4. Recording' /\ IdleState' /\ BusyState' /\ Inactive'
  BY DEF Ind, Recording, IdleState, BusyState, Inactive
<1> QED
  BY <1>1, <1>2, <1>3, <1>4 DEF Ind

LEMMA BeginKeepsInd ==
    ASSUME Ind, NEW k \in Keys, BeginCapture(k)
    PROVE  Ind'
<1> USE DEF BeginCapture, SetTraceCaptureInProgress, CaptureDue, replayVars
<1>1. TypeOK'
  BY DEF Ind, TypeOK, ProgramTypeOK, Resources, KeyResources
<1>2. artifact[k] = "none"
  BY DEF Ind, Artifacts, ArtifactsFor
<1>3. Exact'
  BY <1>2, KeysAssumption DEF Ind, Exact, ExactFor
<1>4. Artifacts'
  BY DEF Ind, Artifacts, ArtifactsFor
<1>5. Recording' /\ IdleState' /\ BusyState' /\ Inactive'
  BY KeysAssumption DEF Ind, Recording, IdleState, BusyState, Inactive
<1> QED
  BY <1>1, <1>3, <1>4, <1>5 DEF Ind

\* The inputs pass from the list of prepared ones to the artifact in one step.
LEMMA EndKeepsInd ==
    ASSUME Ind, NEW k \in Keys, EndCapture(k)
    PROVE  Ind'
<1> USE DEF EndCapture, SetTraceCaptureInProgress, replayVars
<1>1. TypeOK'
  <2>1. artifact' \in [Keys -> {"none", "live", "released"}]
    BY DEF Ind, TypeOK
  <2>2. holds' \in [Keys -> SUBSET Parts]
    BY DEF Ind, TypeOK
  <2>3. device' \subseteq Resources
    BY DEF Ind, TypeOK, Resources, KeyResources
  <2> QED
    BY <2>1, <2>2, <2>3 DEF Ind, TypeOK, ProgramTypeOK
<1>2. /\ artifact \in [Keys -> {"none", "live", "released"}]
      /\ holds \in [Keys -> SUBSET Parts]
      /\ k \in prepared /\ k \notin orphans
      /\ artifact[k] = "none" /\ holds[k] = {}
  BY KeysAssumption DEF Ind, TypeOK, Recording, Artifacts, ArtifactsFor
<1>3. Exact'
  <2> SUFFICES ASSUME NEW j \in Keys
               PROVE  /\ <<"trace", j>> \in device' <=> (artifact'[j] = "live" \/ recording' = j)
                      /\ <<"in", j>> \in device' <=>
                           ("in" \in holds'[j] \/ j \in prepared' \cup orphans')
                      /\ <<"out", j>> \in device' <=> "out" \in holds'[j]
    BY DEF Exact, ExactFor
  <2>1. /\ <<"trace", j>> \in device <=> (artifact[j] = "live" \/ recording = j)
        /\ <<"in", j>> \in device <=> ("in" \in holds[j] \/ j \in prepared \cup orphans)
        /\ <<"out", j>> \in device <=> "out" \in holds[j]
    BY DEF Ind, Exact, ExactFor
  <2> QED
    BY <1>2, <2>1, KeysAssumption DEF Parts
<1>4. Artifacts'
  <2>1. \A j \in Keys : j # k => artifact'[j] = artifact[j] /\ holds'[j] = holds[j]
    BY <1>2
  <2>2. artifact'[k] = "live" /\ holds'[k] = Parts
    BY <1>2
  <2>3. \A j \in Keys : artifact'[j] = "none" => holds'[j] = {}
    BY <2>1, <2>2 DEF Ind, Artifacts, ArtifactsFor
  <2>4. \A j \in Keys : artifact'[j] = "live" => "in" \in holds'[j]
    BY <2>1, <2>2 DEF Ind, Artifacts, ArtifactsFor, Parts
  <2>5. \A j \in prepared' \cup orphans' : artifact'[j] = "none"
    BY <1>2, <2>1 DEF Ind, Artifacts, ArtifactsFor, TypeOK
  <2> QED
    BY <2>3, <2>4, <2>5 DEF Artifacts, ArtifactsFor
<1>5. Recording' /\ IdleState' /\ BusyState' /\ Inactive'
  BY DEF Ind, Recording, IdleState, BusyState, Inactive
<1>6. (prepared \cap orphans = {})'
  BY DEF Ind
<1> QED
  BY <1>1, <1>3, <1>4, <1>5, <1>6 DEF Ind

LEMMA FinishKeepsInd ==
    ASSUME Ind, FinishCapture
    PROVE  Ind'
<1> USE DEF FinishCapture, SetTraceActive, resourceVars, replayVars
<1>1. TypeOK'
  BY DEF Ind, TypeOK, ProgramTypeOK, Stages
<1>2. Exact'
  BY DEF Ind, Exact, ExactFor
<1>3. Artifacts'
  BY DEF Ind, Artifacts, ArtifactsFor
<1>4. Recording' /\ IdleState' /\ BusyState' /\ Inactive'
  BY DEF Ind, Recording, IdleState, BusyState, Inactive
<1> QED
  BY <1>1, <1>2, <1>3, <1>4 DEF Ind

LEMMA CaptureAllRaisesKeepsInd ==
    ASSUME Ind, CaptureAllRaises
    PROVE  Ind'
<1>1. /\ artifact \in [Keys -> {"none", "live", "released"}]
      /\ holds \in [Keys -> SUBSET Parts]
      /\ prepared \in SUBSET Keys
      /\ device \in SUBSET Resources
      /\ TypeOK /\ RunOnDevice
      /\ Rollback(artifact, holds, prepared, device)
  BY DEF Ind, TypeOK, CaptureAllRaises
<1>2. orphans = {} /\ recording = NoKey
  BY DEF Ind, BusyState, CaptureAllRaises
<1>3. ExactFor(artifact, holds, prepared, NoKey, device)
  BY <1>2 DEF Ind, Exact, ExactFor
<1>4. ArtifactsFor(artifact, holds, prepared)
  BY <1>2 DEF Ind, Artifacts, ArtifactsFor
<1> QED
  BY <1>1, <1>3, <1>4, RollbackStep

\* A recording that fails gives its inputs to the artifact it creates for the rollback.
LEMMA CaptureRecordRaisesKeepsInd ==
    ASSUME Ind, NEW k \in Keys, NEW parts \in {{"in"}, Parts}, CaptureRecordRaises(k, parts)
    PROVE  Ind'
<1> DEFINE art == [artifact EXCEPT ![k] = "live"]
           hold == [holds EXCEPT ![k] = parts]
           inputs == prepared \ {k}
           allocated == device \cup {<<part, k>> : part \in parts}
<1>1. /\ artifact \in [Keys -> {"none", "live", "released"}]
      /\ holds \in [Keys -> SUBSET Parts]
      /\ TypeOK /\ RunOnDevice
      /\ Rollback(art, hold, inputs, allocated)
      /\ recording = k /\ orphans = {} /\ k \in prepared
  BY KeysAssumption DEF Ind, TypeOK, CaptureRecordRaises, Recording, BusyState
<1>2. "in" \in parts /\ parts \in SUBSET Parts
  BY DEF Parts
<1>3. /\ art \in [Keys -> {"none", "live", "released"}]
      /\ hold \in [Keys -> SUBSET Parts]
      /\ inputs \in SUBSET Keys
      /\ allocated \in SUBSET Resources
  BY <1>1, <1>2 DEF TypeOK, Resources, KeyResources, Parts
<1>4. artifact[k] = "none" /\ holds[k] = {}
  BY <1>1 DEF Ind, Artifacts, ArtifactsFor
<1>5. ExactFor(art, hold, inputs, NoKey, allocated)
  <2> SUFFICES ASSUME NEW j \in Keys
               PROVE  /\ <<"trace", j>> \in allocated <=> art[j] = "live"
                      /\ <<"in", j>> \in allocated <=> ("in" \in hold[j] \/ j \in inputs)
                      /\ <<"out", j>> \in allocated <=> "out" \in hold[j]
    BY KeysAssumption DEF ExactFor
  <2>1. /\ <<"trace", j>> \in device <=> (artifact[j] = "live" \/ recording = j)
        /\ <<"in", j>> \in device <=> ("in" \in holds[j] \/ j \in prepared)
        /\ <<"out", j>> \in device <=> "out" \in holds[j]
    BY <1>1 DEF Ind, Exact, ExactFor
  <2>2. \A kind \in {"trace", "in", "out"} :
          <<kind, j>> \in allocated <=> <<kind, j>> \in device \/ (j = k /\ kind \in parts)
    OBVIOUS
  <2>3. CASE j = k
    BY <1>1, <1>2, <1>4, <2>1, <2>2, <2>3 DEF Parts
  <2>4. CASE j # k
    BY <1>1, <2>1, <2>2, <2>4
  <2> QED
    BY <2>3, <2>4
<1>6. ArtifactsFor(art, hold, inputs)
  BY <1>1, <1>2 DEF Ind, Artifacts, ArtifactsFor
<1> HIDE DEF art, hold, inputs, allocated
<1> QED
  BY <1>1, <1>3, <1>5, <1>6, RollbackStep

\* A cleanup closes the gate again when it leaves something, and reopens it otherwise.
LEMMA TraceCleanupKeepsInd ==
    ASSUME Ind, TraceCleanup
    PROVE  Ind'
<1>1. PICK stuck \in Refusals(device) : ReleaseAll(artifact, holds, orphans, device, stuck)
  BY DEF TraceCleanup
<1>2. /\ artifact \in [Keys -> {"none", "live", "released"}]
      /\ holds \in [Keys -> SUBSET Parts]
      /\ orphans \in SUBSET Keys
      /\ device \in SUBSET Resources
      /\ TypeOK
      /\ stage = "idle" /\ prepared = {} /\ recording = NoKey
  BY DEF Ind, TypeOK, TraceCleanup, IdleState, Recording
<1>3. ExactFor(artifact, holds, orphans, NoKey, device)
  BY <1>2 DEF Ind, Exact, ExactFor
<1>4. ArtifactsFor(artifact, holds, orphans)
  BY <1>2 DEF Ind, Artifacts, ArtifactsFor
<1>5. /\ artifact' \in [Keys -> {"none", "live", "released"}]
      /\ holds' \in [Keys -> SUBSET Parts]
      /\ orphans' \in SUBSET Keys
      /\ workspace' \in [Programs -> Ids \cup {NoId}]
      /\ freedIds' \in [Programs -> SUBSET Ids]
      /\ device' \in SUBSET Resources
      /\ faults' \in Nat
      /\ ExactFor(artifact', holds', orphans', NoKey, device')
      /\ ArtifactsFor(artifact', holds', orphans')
  BY <1>1, <1>2, <1>3, <1>4, ReleaseAllStep
<1>6. activated' = Leftovers(artifact', orphans', workspace') /\ activated' \in BOOLEAN
  BY DEF TraceCleanup, Leftovers
<1>7. TypeOK'
  <2>1. /\ previous' \in [body : Keys \cup {NoKey}, tail : Keys \cup {NoKey}]
        /\ resident' \in Keys \cup {NoKey}
        /\ tracesReleased' \in BOOLEAN
    <3>1. CASE activated'
      BY <1>2, <3>1 DEF TypeOK, TraceCleanup
    <3>2. CASE ~activated'
      BY <3>2 DEF TraceCleanup
    <3> QED
      BY <3>1, <3>2
  <2>2. ProgramTypeOK'
    <3>1. traceCaptureInProgress' \in BOOLEAN /\ traceActive' \in BOOLEAN
      BY <1>2, <1>6 DEF TypeOK, ProgramTypeOK, TraceCleanup
    <3>2. UNCHANGED <<programs, compileOrphans, programsReleased, programCache>>
      BY DEF TraceCleanup
    <3> QED
      BY <1>2, <3>1, <3>2 DEF TypeOK, ProgramTypeOK
  <2> QED
    BY <1>2, <1>5, <1>6, <2>1, <2>2 DEF TypeOK, TraceCleanup
<1>8. Exact'
  BY <1>2, <1>5 DEF Exact, ExactFor, TraceCleanup
<1>9. Artifacts' /\ (prepared \cap orphans = {})'
  BY <1>2, <1>5 DEF Artifacts, ArtifactsFor, TraceCleanup
<1>10. Recording' /\ IdleState' /\ BusyState'
  BY <1>2, <1>6 DEF Ind, TypeOK, ProgramTypeOK, TraceCleanup, Recording, IdleState, BusyState
<1>11. Inactive'
  BY <1>6 DEF Inactive, Leftovers
<1> QED
  BY <1>7, <1>8, <1>9, <1>10, <1>11 DEF Ind

LEMMA ReplayKeepsInd ==
    ASSUME Ind, NEW plan \in Plans,
           (\E full \in BOOLEAN : Replay(plan, full)) \/ ReplayRaises(plan)
    PROVE  Ind'
<1>1. plan.trace \in Keys /\ plan.body \in Keys \cup {NoKey}
  BY PlansAssumption
<1> USE DEF Replay, ReplayRaises, RunOnDevice, Replayable, ResidentKey, programVars,
            captureVars, resourceVars
<1>2. TypeOK'
  <2>1. /\ previous' \in [body : Keys \cup {NoKey}, tail : Keys \cup {NoKey}]
        /\ resident' \in Keys \cup {NoKey}
        /\ replayFailed' \in BOOLEAN
    <3>1. CASE \E full \in BOOLEAN : Replay(plan, full)
      BY <1>1, <3>1 DEF Ind, TypeOK
    <3>2. CASE ReplayRaises(plan)
      BY <3>2 DEF Ind, TypeOK
    <3> QED
      BY <3>1, <3>2
  <2>2. ProgramTypeOK'
    BY DEF Ind, TypeOK, ProgramTypeOK, CacheStates
  <2> QED
    BY <2>1, <2>2 DEF Ind, TypeOK
<1> QED
  BY <1>2, SameOwners

LEMMA CleanupProgramsKeepsInd ==
    ASSUME Ind, CleanupPrograms
    PROVE  Ind'
<1> USE DEF CleanupPrograms, ProgramCleanup, traceVars, captureVars, resourceVars, replayVars
<1>1. TypeOK'
  BY DEF Ind, TypeOK, ProgramTypeOK
<1>2. Exact'
  BY DEF Ind, Exact, ExactFor
<1>3. Artifacts'
  BY DEF Ind, Artifacts, ArtifactsFor
<1>4. Recording' /\ IdleState' /\ BusyState' /\ Inactive'
  BY DEF Ind, Recording, IdleState, BusyState, Inactive
<1> QED
  BY <1>1, <1>2, <1>3, <1>4 DEF Ind

LEMMA EagerForwardKeepsInd ==
    ASSUME Ind, EagerForward
    PROVE  Ind'
<1> USE DEF EagerForward, RunOnDevice, traceVars, captureVars, resourceVars, replayVars
<1>1. TypeOK'
  BY DEF Ind, TypeOK, ProgramTypeOK, CacheStates
<1> QED
  BY <1>1, SameOwners

LEMMA StutterKeepsInd == Ind /\ UNCHANGED vars => Ind'
<1> SUFFICES ASSUME Ind, UNCHANGED vars PROVE Ind'
  OBVIOUS
<1> USE DEF vars, programVars, traceVars, captureVars, resourceVars, replayVars
<1>1. TypeOK'
  BY DEF Ind, TypeOK, ProgramTypeOK
<1> QED
  BY <1>1, SameOwners

LEMMA IndNext == Ind /\ [Next]_vars => Ind'
<1> SUFFICES ASSUME Ind, [Next]_vars PROVE Ind'
  OBVIOUS
<1>1. ASSUME NEW p \in Programs, Compile(p) PROVE Ind'
  BY <1>1, CompileKeepsInd
<1>2. ASSUME NEW plan \in Plans, RegisterCapturePlan(plan) PROVE Ind'
  BY <1>2, RegisterKeepsInd
<1>3. CASE StartCapture
  BY <1>3, StartKeepsInd
<1>4. ASSUME NEW k \in Keys, PrepareInputs(k) PROVE Ind'
  BY <1>4, PrepareInputsKeepsInd
<1>5. ASSUME NEW p \in Programs, NEW id \in Ids, PrepareWorkspace(p, id) PROVE Ind'
  BY <1>5, PrepareWorkspaceKeepsInd
<1>6. CASE PrimeCaptures
  BY <1>6, PrimeKeepsInd
<1>7. ASSUME NEW k \in Keys, BeginCapture(k) PROVE Ind'
  BY <1>7, BeginKeepsInd
<1>8. ASSUME NEW k \in Keys, EndCapture(k) PROVE Ind'
  BY <1>8, EndKeepsInd
<1>9. CASE FinishCapture
  BY <1>9, FinishKeepsInd
<1>10. CASE CaptureAllRaises
  BY <1>10, CaptureAllRaisesKeepsInd
<1>11. ASSUME NEW k \in Keys, NEW parts \in {{"in"}, Parts}, CaptureRecordRaises(k, parts)
       PROVE  Ind'
  BY <1>11, CaptureRecordRaisesKeepsInd
<1>12. ASSUME NEW plan \in Plans,
              (\E full \in BOOLEAN : Replay(plan, full)) \/ ReplayRaises(plan)
       PROVE  Ind'
  BY <1>12, ReplayKeepsInd
<1>13. CASE TraceCleanup
  BY <1>13, TraceCleanupKeepsInd
<1>14. CASE CleanupPrograms
  BY <1>14, CleanupProgramsKeepsInd
<1>15. CASE EagerForward
  BY <1>15, EagerForwardKeepsInd
<1>16. CASE UNCHANGED vars
  BY <1>16, StutterKeepsInd
<1> QED
  BY <1>1, <1>2, <1>3, <1>4, <1>5, <1>6, <1>7, <1>8, <1>9, <1>10, <1>11, <1>12, <1>13,
     <1>14, <1>15, <1>16 DEF Next

-----------------------------------------------------------------------------
(* Theorems. *)

\* Ind holds in every state of every behavior of the lane.
THEOREM Invariance == Spec => []Ind
<1>1. Init => Ind
  BY IndInit
<1>2. Ind /\ [Next]_vars => Ind'
  BY IndNext
<1> QED
  BY <1>1, <1>2, PTL DEF Spec

\* What is on the device, as a set, is what the registries own.
LEMMA ExactOwnership == Ind => device \cap KeyResources = Owned
<1> SUFFICES ASSUME Ind PROVE device \cap KeyResources = Owned
  OBVIOUS
<1> DEFINE parts == UNION {{<<part, k>> : part \in holds[k]} : k \in Keys}
<1>1. holds \in [Keys -> SUBSET Parts] /\ prepared \cup orphans \subseteq Keys
  BY DEF Ind, TypeOK
<1>2. \A k \in Keys : /\ <<"trace", k>> \in device <=> (artifact[k] = "live" \/ recording = k)
                      /\ <<"in", k>> \in device <=>
                           ("in" \in holds[k] \/ k \in prepared \cup orphans)
                      /\ <<"out", k>> \in device <=> "out" \in holds[k]
  BY DEF Ind, Exact, ExactFor
<1>3. \A kind \in {"trace", "in", "out"}, k \in Keys :
        <<kind, k>> \in parts <=> kind \in holds[k]
  OBVIOUS
<1>4. parts \subseteq KeyResources
  BY <1>1 DEF KeyResources, Parts
<1> HIDE DEF parts
<1>5. Owned \subseteq KeyResources
  BY <1>1, <1>4 DEF Owned, parts, KeyResources
<1>6. ASSUME NEW kind \in {"trace", "in", "out"}, NEW k \in Keys
      PROVE  <<kind, k>> \in device <=> <<kind, k>> \in Owned
  <2>1. <<"trace", k>> \in Owned <=> (artifact[k] = "live" \/ recording = k)
    <3>1. "trace" \notin holds[k]
      BY <1>1 DEF Parts
    <3> QED
      BY <1>3, <3>1 DEF Owned, parts
  <2>2. <<"in", k>> \in Owned <=> ("in" \in holds[k] \/ k \in prepared \cup orphans)
    BY <1>3 DEF Owned, parts
  <2>3. <<"out", k>> \in Owned <=> "out" \in holds[k]
    BY <1>3 DEF Owned, parts
  <2> QED
    BY <1>2, <1>6, <2>1, <2>2, <2>3
<1> QED
  BY <1>5, <1>6 DEF KeyResources

\* With the lane idle and not activated, no trace owns anything on the device.
LEMMA NothingTraced == Ind /\ stage = "idle" /\ ~activated => device \cap KeyResources = {}
<1> SUFFICES ASSUME Ind, stage = "idle", ~activated PROVE device \cap KeyResources = {}
  OBVIOUS
<1>1. /\ prepared = {} /\ orphans = {} /\ recording = NoKey
      /\ \A k \in Keys : artifact[k] = "none" /\ holds[k] = {}
  BY DEF Ind, IdleState, Inactive, Recording, Artifacts, ArtifactsFor
<1>2. \A kind \in {"trace", "in", "out"}, k \in Keys : <<kind, k>> \notin device
  BY <1>1, KeysAssumption DEF Ind, Exact, ExactFor
<1> QED
  BY <1>2 DEF KeyResources

\* Every variable of the lane keeps its type.
THEOREM TypeCorrectness == Spec => []TypeOK
<1>1. Ind => TypeOK
  BY DEF Ind
<1> QED
  BY <1>1, Invariance, PTL

\* A trace on the device keeps the persistent inputs it was captured with.
LEMMA TracesHaveInputs == Ind => LiveTraceKeepsInputs
BY KeysAssumption DEF Ind, LiveTraceKeepsInputs, Exact, ExactFor, Artifacts, ArtifactsFor, Recording

\* What is allocated is what some registry will release, through capture, rollback, retry
\* and cleanup, whatever the device refuses to release: no leak and no double release, and
\* no release under a trace that could be replayed.
THEOREM Ownership == Spec => []OwnershipExact
<1>1. Ind => SingleOwner
  BY DEF Ind, TypeOK, SingleOwner, Artifacts, ArtifactsFor
<1>2. Ind => OwnershipExact
  BY <1>1, ExactOwnership, TracesHaveInputs DEF OwnershipExact
<1> QED
  BY <1>2, Invariance, PTL

\* That no order of failing releases frees the inputs of a live trace, on its own.
THEOREM InputsOutliveTraces == Spec => []LiveTraceKeepsInputs
BY TracesHaveInputs, Invariance, PTL

\* Nothing new is compiled while a trace owns something on the device, and the two compilers
\* agree on the gate, after a failed rollback or cleanup as after a success.
THEOREM CompileGateHolds == Spec => []NoCompileUnderTraces
<1>1. ASSUME Ind, stage = "idle", device \cap KeyResources # {}, NEW p \in Programs
      PROVE  ~CanCompile(p)
  <2> SUFFICES ASSUME CanCompile(p) PROVE FALSE
    OBVIOUS
  <2>1. activated
    BY <1>1, NothingTraced
  <2> QED
    BY <1>1, <2>1 DEF Ind, IdleState, CanCompile
<1>2. Ind => GatesAgree
  BY DEF Ind, IdleState, GatesAgree
<1>3. Ind => NoCompileUnderTraces
  BY <1>1, <1>2 DEF NoCompileUnderTraces
<1> QED
  BY <1>3, Invariance, PTL

-----------------------------------------------------------------------------
(* Registrations. *)

\* Only register_capture_plan changes the registry, and only by the plan it accepts.
LEMMA RegistryGrows ==
    ASSUME [Next]_vars
    PROVE  \/ registered' = registered
           \/ \E plan \in Plans : RegisterCapturePlan(plan)
BY DEF Next, vars, traceVars, captureVars, resourceVars, replayVars, Compile, StartCapture,
       PrepareInputs, PrepareWorkspace, PrimeCaptures, BeginCapture, EndCapture, FinishCapture,
       CaptureAllRaises, CaptureRecordRaises, Rollback, Replay, ReplayRaises, TraceCleanup,
       CleanupPrograms, EagerForward

\* Two plans that agree on program, trace, body, operation and workspace are one plan: the
\* tail's feedback is a function of its trace.
LEMMA PlanIdentity ==
    ASSUME NEW p \in Plans, NEW q \in Plans, p.program = q.program, p.trace = q.trace,
           p.body = q.body, p.operation = q.operation, p.workspace = q.workspace
    PROVE  p = q
BY PlansAssumption

LEMMA RegistryStep ==
    ASSUME registered \subseteq Plans, RegistryConsistent, [Next]_vars
    PROVE  RegistryConsistent'
<1>1. CASE registered' = registered
  BY <1>1 DEF RegistryConsistent, Traces, Bodies
<1>2. ASSUME NEW plan \in Plans, RegisterCapturePlan(plan)
      PROVE  RegistryConsistent'
  <2>1. registered' = registered \cup {plan} /\ Consistent(plan)
    BY <1>2 DEF RegisterCapturePlan
  <2>2. \A q \in registered :
          /\ q.program = plan.program => q = plan
          /\ q.trace = plan.trace => q.body = plan.body /\ q.operation = plan.operation
    BY <2>1, PlanIdentity DEF Consistent
  <2>3. \A p, q \in registered' :
          /\ p.program = q.program => p = q
          /\ p.trace = q.trace => p.body = q.body /\ p.operation = q.operation
    BY <2>1, <2>2 DEF RegistryConsistent
  <2>4. \A p, q \in registered' : p.body # NoKey => p.body # q.trace
    <3>1. \A p, q \in registered : p.body # NoKey => p.body # q.trace
      BY DEF RegistryConsistent, Traces, Bodies
    <3>2. \A q \in registered : plan.body # q.trace
      BY <2>1 DEF Consistent, Traces
    <3>3. \A q \in registered : q.body # NoKey => q.body # plan.trace
      BY <2>1 DEF Consistent, Bodies
    <3>4. plan.body # NoKey => plan.body # plan.trace
      BY PlansAssumption
    <3> QED
      BY <2>1, <3>1, <3>2, <3>3, <3>4
  <2>5. (Traces \cap Bodies = {})'
    BY <2>4 DEF Traces, Bodies
  <2> QED
    BY <2>3, <2>5 DEF RegistryConsistent
<1> QED
  BY <1>1, <1>2, RegistryGrows

\* A program replays one trace, a trace has one body, and no key names both a trace and a
\* body, whichever registrations were attempted and refused.
THEOREM Registry == Spec => []RegistryConsistent
<1>1. Init => RegistryConsistent
  BY DEF Init, TraceInit, RegistryConsistent, Traces, Bodies
<1>2. Ind /\ RegistryConsistent /\ [Next]_vars => RegistryConsistent'
  BY RegistryStep DEF Ind, TypeOK
<1> QED
  BY <1>1, <1>2, Invariance, PTL DEF Spec

-----------------------------------------------------------------------------
(* Replay. *)

\* Before activation nothing was replayed, and as long as replay is possible a plan whose
\* inputs would be kept finds them current.
Kept ==
    /\ ~activated => previous.body = NoKey
    /\ ~replayFailed => \A plan \in registered :
                          MayKeepInputs(plan) => resident = ResidentKey(plan)

LEMMA KeptInit == Init => Kept
BY DEF Init, TraceInit, Kept

\* A plan that runs a trace or body nobody replayed last may not keep its inputs.
LEMMA NothingReplayed ==
    ASSUME NEW plan \in Plans, previous.body = NoKey
    PROVE  ~MayKeepInputs(plan)
BY PlansAssumption, KeysAssumption DEF MayKeepInputs, Switched, ResidentKey

LEMMA KeptReplay ==
    ASSUME Ind, RegistryConsistent, Kept, NEW plan \in Plans, NEW full \in BOOLEAN,
           Replay(plan, full)
    PROVE  Kept'
<1>1. /\ plan \in registered /\ registered' = registered /\ registered \subseteq Plans
      /\ previous' = [body |-> ResidentKey(plan),
                      tail |-> IF plan.body = NoKey THEN NoKey ELSE plan.trace]
      /\ ~replayFailed /\ replayFailed' = replayFailed
      /\ activated' = activated
  BY DEF Ind, TypeOK, Replay, Replayable, captureVars, resourceVars
<1>2. activated
  <2>1. plan.trace \in Keys
    BY PlansAssumption
  <2> QED
    BY <2>1 DEF Ind, Inactive, Replay, Replayable
<1>3. plan.feeds => resident' = ResidentKey(plan)
  BY <1>1 DEF Kept, Replay, MayKeepInputs
<1>4. ASSUME NEW q \in registered, MayKeepInputs(q)'
      PROVE  resident' = ResidentKey(q)
  <2>1. /\ q.feeds /\ ResidentKey(q) = ResidentKey(plan)
        /\ q.body # NoKey => q.trace = IF plan.body = NoKey THEN NoKey ELSE plan.trace
    BY <1>1, <1>4 DEF MayKeepInputs, Switched, ResidentKey
  <2>2. q.trace \in Keys /\ plan.trace \in Keys
    BY <1>1, PlansAssumption
  <2>3. q.trace = plan.trace
    <3>1. CASE q.body # NoKey
      BY <3>1, <2>1, <2>2, KeysAssumption
    <3>2. CASE q.body = NoKey /\ plan.body # NoKey
      <4>1. q.trace = plan.body
        BY <3>2, <2>1 DEF ResidentKey
      <4> QED
        BY <4>1, <3>2, <1>1 DEF RegistryConsistent, Traces, Bodies
    <3>3. CASE q.body = NoKey /\ plan.body = NoKey
      BY <3>3, <2>1 DEF ResidentKey
    <3> QED
      BY <3>1, <3>2, <3>3
  <2>4. plan.feeds
    BY <1>1, <2>1, <2>3, PlansAssumption
  <2> QED
    BY <1>3, <2>1, <2>4
<1>5. \A q \in registered' : MayKeepInputs(q)' => (resident = ResidentKey(q))'
  BY <1>1, <1>4 DEF ResidentKey
<1> QED
  BY <1>1, <1>2, <1>5 DEF Kept

\* Only replay, a failing replay and cleanup touch what was replayed last; a step that does
\* not, and neither registers a plan nor ends a capture, keeps Kept.
LEMMA KeptUnchanged ==
    ASSUME Ind, Kept, UNCHANGED <<previous, resident, replayFailed>>,
           activated' \/ ~activated,
           \/ registered' = registered
           \/ \E plan \in Plans : registered' = registered \cup {plan} /\ ~activated
    PROVE  Kept'
<1>1. ~activated' => previous'.body = NoKey
  BY DEF Kept
<1>2. ASSUME ~replayFailed', NEW q \in registered', MayKeepInputs(q)'
      PROVE  resident' = ResidentKey(q)
  <2>1. MayKeepInputs(q)
    BY <1>2 DEF MayKeepInputs, Switched, ResidentKey
  <2>2. q \in Plans
    BY DEF Ind, TypeOK
  <2>3. CASE q \in registered
    BY <1>2, <2>1, <2>3 DEF Kept
  <2>4. CASE q \notin registered
    BY <2>1, <2>2, <2>4, NothingReplayed DEF Kept
  <2> QED
    BY <2>3, <2>4
<1>3. ~replayFailed' => \A q \in registered' :
                          MayKeepInputs(q)' => (resident = ResidentKey(q))'
  BY <1>2 DEF ResidentKey
<1> QED
  BY <1>1, <1>3 DEF Kept

LEMMA KeptNext ==
    ASSUME Ind, RegistryConsistent, Kept, [Next]_vars
    PROVE  Kept'
<1> USE DEF captureVars, resourceVars, replayVars, traceVars
<1>1. ASSUME NEW p \in Programs, Compile(p) PROVE Kept'
  BY <1>1, KeptUnchanged DEF Compile
<1>2. ASSUME NEW plan \in Plans, RegisterCapturePlan(plan) PROVE Kept'
  BY <1>2, KeptUnchanged DEF RegisterCapturePlan
<1>3. CASE \/ StartCapture \/ PrimeCaptures \/ CleanupPrograms \/ EagerForward
           \/ \E k \in Keys : PrepareInputs(k) \/ BeginCapture(k) \/ EndCapture(k)
           \/ \E p \in Programs, id \in Ids : PrepareWorkspace(p, id)
  <2>1. UNCHANGED <<registered, previous, resident, replayFailed, activated>>
    BY <1>3 DEF StartCapture, PrimeCaptures, CleanupPrograms, EagerForward, PrepareInputs,
                BeginCapture, EndCapture, PrepareWorkspace
  <2> QED
    BY <2>1, KeptUnchanged
<1>4. CASE FinishCapture
  BY <1>4, KeptUnchanged DEF FinishCapture
<1>5. CASE \/ CaptureAllRaises
           \/ \E k \in Keys, parts \in {{"in"}, Parts} : CaptureRecordRaises(k, parts)
  <2>1. stage # "idle" /\ UNCHANGED <<registered, previous, resident, replayFailed>>
    BY <1>5 DEF CaptureAllRaises, CaptureRecordRaises, Rollback
  <2> QED
    BY <2>1, KeptUnchanged DEF Ind, BusyState
<1>6. ASSUME NEW plan \in Plans, NEW full \in BOOLEAN, Replay(plan, full) PROVE Kept'
  BY <1>6, KeptReplay
<1>7. ASSUME NEW plan \in Plans, ReplayRaises(plan) PROVE Kept'
  BY <1>7 DEF ReplayRaises, Kept
<1>8. CASE TraceCleanup
  <2>1. CASE activated'
    BY <1>8, <2>1, KeptUnchanged DEF TraceCleanup
  <2>2. CASE ~activated'
    <3>1. registered' = registered /\ previous'.body = NoKey
      BY <1>8, <2>2 DEF TraceCleanup
    <3>2. \A q \in registered' : ~MayKeepInputs(q)'
      BY <3>1, PlansAssumption, KeysAssumption
      DEF Ind, TypeOK, MayKeepInputs, Switched, ResidentKey
    <3> QED
      BY <3>1, <3>2 DEF Kept
  <2> QED
    BY <2>1, <2>2
<1>9. CASE UNCHANGED vars
  BY <1>9, KeptUnchanged DEF vars
<1> QED
  BY <1>1, <1>2, <1>3, <1>4, <1>5, <1>6, <1>7, <1>8, <1>9 DEF Next

\* A replay that reloads nothing finds the next step's tokens and positions in the inputs of
\* the body it runs, after any sequence of replays of any traces.
THEOREM KeptInputs == Spec => []KeptInputsAreCurrent
<1>1. Ind /\ RegistryConsistent /\ Kept /\ [Next]_vars => Kept'
  BY KeptNext
<1>2. Kept => KeptInputsAreCurrent
  BY DEF Kept, KeptInputsAreCurrent, Replayable
<1> QED
  BY <1>1, <1>2, KeptInit, Invariance, Registry, PTL DEF Spec

-----------------------------------------------------------------------------
(* The lane implements the compile gate. *)

\* A program is added only while no trace owns anything.
LEMMA CompileIsAddProgram ==
    ASSUME Ind, NEW p \in Programs, Compile(p)
    PROVE  [Gate!Next]_Gate!vars
<1>1. /\ stage = "idle" /\ UNCHANGED <<stage, device>>
      /\ CanCompile(p)
      /\ programs' = programs \/ programs' = programs \cup {p}
  BY DEF Compile, CompileSucceeds, CompileFails, traceVars, captureVars, resourceVars
<1>2. device \cap KeyResources = {}
  BY <1>1, NothingTraced DEF Ind, IdleState, CanCompile
<1> QED
  BY <1>1, <1>2 DEF Gate!Next, Gate!AddProgram, Gate!vars, CanCompile

LEMMA StartIsStart ==
    ASSUME Ind, StartCapture
    PROVE  Gate!StartCapture
BY NothingTraced DEF StartCapture, programVars, resourceVars, Gate!StartCapture

\* The steps of capture_all only add to what traces own; its end and its rollback both end
\* the capture.
LEMMA CaptureStepIsCapture ==
    ASSUME Ind,
           \/ \E k \in Keys : PrepareInputs(k) \/ BeginCapture(k) \/ EndCapture(k)
           \/ \E p \in Programs, id \in Ids : PrepareWorkspace(p, id)
           \/ PrimeCaptures
    PROVE  Gate!Capture
<1>1. stage # "idle" /\ stage' # "idle" /\ programs' = programs /\ device \subseteq device'
  BY DEF PrepareInputs, BeginCapture, EndCapture, PrepareWorkspace, PrimeCaptures, programVars,
         captureVars, resourceVars
<1> QED
  BY <1>1 DEF Gate!Capture

LEMMA RollbackIsEndCapture ==
    ASSUME Ind,
           \/ FinishCapture
           \/ CaptureAllRaises
           \/ \E k \in Keys, parts \in {{"in"}, Parts} : CaptureRecordRaises(k, parts)
    PROVE  Gate!EndCapture
BY DEF FinishCapture, CaptureAllRaises, CaptureRecordRaises, Rollback, Gate!EndCapture

LEMMA CleanupIsRelease ==
    ASSUME Ind, TraceCleanup
    PROVE  Gate!Release
BY DEF TraceCleanup, ReleaseAll, Gate!Release

LEMMA GateStutters ==
    ASSUME \/ UNCHANGED vars
           \/ CleanupPrograms
           \/ EagerForward
           \/ \E plan \in Plans : \/ RegisterCapturePlan(plan)
                                  \/ \E full \in BOOLEAN : Replay(plan, full)
                                  \/ ReplayRaises(plan)
    PROVE  UNCHANGED Gate!vars
<1>1. UNCHANGED <<programs, stage, device>>
  BY DEF vars, CleanupPrograms, ProgramCleanup, EagerForward, RegisterCapturePlan, Replay,
         ReplayRaises, programVars, traceVars, captureVars, resourceVars
<1> QED
  BY <1>1 DEF Gate!vars

LEMMA GateStep == Ind /\ [Next]_vars => [Gate!Next]_Gate!vars
<1> SUFFICES ASSUME Ind, [Next]_vars PROVE [Gate!Next]_Gate!vars
  OBVIOUS
<1>1. ASSUME NEW p \in Programs, Compile(p) PROVE [Gate!Next]_Gate!vars
  BY <1>1, CompileIsAddProgram
<1>2. CASE StartCapture
  BY <1>2, StartIsStart DEF Gate!Next
<1>3. CASE \/ \E k \in Keys : PrepareInputs(k) \/ BeginCapture(k) \/ EndCapture(k)
           \/ \E p \in Programs, id \in Ids : PrepareWorkspace(p, id)
           \/ PrimeCaptures
  BY <1>3, CaptureStepIsCapture DEF Gate!Next
<1>4. CASE \/ FinishCapture
           \/ CaptureAllRaises
           \/ \E k \in Keys, parts \in {{"in"}, Parts} : CaptureRecordRaises(k, parts)
  BY <1>4, RollbackIsEndCapture DEF Gate!Next
<1>5. CASE TraceCleanup
  BY <1>5, CleanupIsRelease DEF Gate!Next
<1>6. CASE \/ UNCHANGED vars
           \/ CleanupPrograms
           \/ EagerForward
           \/ \E plan \in Plans : \/ RegisterCapturePlan(plan)
                                  \/ \E full \in BOOLEAN : Replay(plan, full)
                                  \/ ReplayRaises(plan)
  BY <1>6, GateStutters
<1> QED
  BY <1>1, <1>2, <1>3, <1>4, <1>5, <1>6 DEF Next

\* Registering, capturing, rolling back, replaying and releasing implement the abstract gate:
\* no program is added and no capture starts while an earlier one left anything.
THEOREM ImplementsGate == Spec => GateSpec
<1>1. Init => Gate!Init
  BY DEF Init, ProgramInit, TraceInit, Gate!Init
<1>2. Ind /\ [Next]_vars => [Gate!Next]_Gate!vars
  BY GateStep
<1> QED
  BY <1>1, <1>2, Invariance, PTL DEF Spec, GateSpec, Gate!Spec


-----------------------------------------------------------------------------
(* A lane drives its two compilers as TraceCompiler says. *)

LEMMA LaneStep == [ExecNext]_execVars => [Next]_vars
<1> SUFFICES ASSUME [ExecNext]_execVars PROVE [Next]_vars
  OBVIOUS
<1>1. CASE UNCHANGED execVars \/ AllocateKV \/ StartCleanup
  BY <1>1 DEF execVars, AllocateKV, StartCleanup
<1>2. CASE \E p \in Programs, sampled \in BOOLEAN : CompileProgram(p, sampled)
  BY <1>2 DEF CompileProgram, Next
<1>3. CASE (\E plan \in Plans : RegisterPlan(plan)) \/ WarmupCaptures \/ WarmupSkipsCapture
           \/ CaptureStep \/ WarmupFinishesCapture
  BY <1>3 DEF RegisterPlan, WarmupCaptures, WarmupSkipsCapture, CaptureStep, WarmupFinishesCapture, Next
<1>4. CASE \/ \E left \in LeftBehind : ForwardEager(left)
           \/ \E plan \in Plans, left \in LeftBehind : ForwardTraced(plan, left)
           \/ \E async \in BOOLEAN : ReadDecodeOutput(async)
           \/ ProcessDecodeOutputHost
  BY <1>4 DEF ForwardEager, ForwardTraced, ReadDecodeOutput, ProcessDecodeOutputHost, Next
<1>5. CASE CleanupStep
  BY <1>5 DEF CleanupStep, CleanupOwner, CleanupTraces, CleanupCompiler, CleanupKV, Next
<1> QED BY <1>1, <1>2, <1>3, <1>4, <1>5 DEF ExecNext

\* Through warm-up, serving and any cleanup, the compilers of a lane behave as TraceCompiler
\* specifies: what is proved of it holds in a lane.
THEOREM TracedLane == ExecSpec => Spec
<1>1. ExecInit => Init
  BY DEF ExecInit
<1> QED BY <1>1, LaneStep, PTL DEF ExecSpec, Spec

LEMMA LaneInvariance == ExecSpec => []Ind
BY TracedLane, Invariance, PTL

-----------------------------------------------------------------------------
(* The KV cache. *)

\* The model holds tensors of a bound cache only, and none of one that is being released.
KVInv ==
    /\ ModelSeesAllocated
    /\ kvState \in {"unresolved", "configured", "bound", "released"}
    /\ kvReleasing \in BOOLEAN
    /\ kvState # "bound" => kvBound = {} /\ ~kvReleasing
    /\ kvReleasing => kvBound = {}
    /\ kvState = "released" => kvDevice = {}

LEMMA KVInitial == ExecInit => KVInv
BY DEF ExecInit, KVInit, KVInv, ModelSeesAllocated

LEMMA KVStep ==
    ASSUME KVInv,
           \/ Configure \/ Allocate \/ AllocateRaises \/ AllocateRaisesTwice
           \/ Release \/ ReleaseRaises \/ UNCHANGED kvVars
    PROVE  KVInv'
<1> USE DEF KVInv, ModelSeesAllocated
<1>1. CASE Configure \/ UNCHANGED kvVars
  BY <1>1 DEF Configure, kvVars
<1>2. CASE Allocate \/ AllocateRaisesTwice
  BY <1>2 DEF Allocate, AllocateRaisesTwice
<1>3. CASE AllocateRaises
  BY <1>3 DEF AllocateRaises, Deallocated
<1>4. CASE Release
  BY <1>4 DEF Release, Deallocated, ToUnbind
<1>5. CASE ReleaseRaises
  <2>1. CASE ToUnbind /\ kvBound' \in SUBSET kvBound /\ UNCHANGED <<kvOwned, kvDevice, kvReleasing>>
    BY <1>5, <2>1 DEF ReleaseRaises, ToUnbind
  <2>2. CASE /\ \E stuck \in SUBSET kvOwned \ {{}} : Deallocated(kvOwned, kvDevice, stuck)
             /\ kvBound' = IF ToUnbind THEN {} ELSE kvBound
             /\ kvReleasing' = (kvReleasing \/ kvState = "bound")
    <3>1. kvOwned' = kvDevice' /\ kvState' = kvState /\ kvState # "released"
      BY <1>5, <2>2 DEF ReleaseRaises, Deallocated
    <3>2. kvBound' = {}
      BY <2>2 DEF ToUnbind
    <3>3. CASE kvState = "bound"
      BY <2>2, <3>1, <3>2, <3>3
    <3>4. CASE kvState # "bound"
      <4>1. kvReleasing' = FALSE
        BY <2>2, <3>4
      <4> QED BY <3>1, <3>2, <3>4, <4>1
    <3> QED BY <3>3, <3>4
  <2> QED BY <1>5, <2>1, <2>2 DEF ReleaseRaises
<1> QED BY <1>1, <1>2, <1>3, <1>4, <1>5

LEMMA OnlyKVSteps ==
    ASSUME [ExecNext]_execVars
    PROVE  \/ AllocateKV
           \/ CleanupKV
           \/ UNCHANGED kvVars
BY DEF ExecNext, execVars, CompileProgram, RegisterPlan, WarmupCaptures, WarmupSkipsCapture, CaptureStep,
       WarmupFinishesCapture, ForwardEager, ForwardTraced, ReadDecodeOutput, ProcessDecodeOutputHost,
       StartCleanup, CleanupStep, CleanupOwner, CleanupTraces, CleanupCompiler

LEMMA KVKeeps == KVInv /\ [ExecNext]_execVars => KVInv'
BY KVStep, OnlyKVSteps DEF AllocateKV, CleanupKV

\* Whatever allocation, binding or release stops half way: the model never has a tensor that is
\* not allocated, and the manager owns exactly those that are.
THEOREM ModelAlwaysSeesAllocated == ExecSpec => []ModelSeesAllocated
<1>1. KVInv => ModelSeesAllocated
  BY DEF KVInv
<1> QED BY <1>1, KVInitial, KVKeeps, PTL DEF ExecSpec

-----------------------------------------------------------------------------
(* Sampling buffers. *)

LEMMA OnlyEnsureSampling ==
    ASSUME [ExecNext]_execVars, "sampling" \in held' \ held
    PROVE  stage = "idle" /\ ~activated
<1>1. \A left \in LeftBehind : "sampling" \notin left
  BY LeftBehindAssumption
<1>2. ASSUME NEW p, NEW sampled, CompileProgram(p, sampled) PROVE stage = "idle" /\ ~activated
  BY <1>2 DEF CompileProgram, EnsureSampling, Usable, Active
<1> QED BY <1>1, <1>2
        DEF ExecNext, execVars, laneVars, AllocateKV, RegisterPlan, WarmupCaptures, WarmupSkipsCapture,
            CaptureStep, WarmupFinishesCapture, ForwardEager, ForwardTraced, ReadDecodeOutput,
            ProcessDecodeOutputHost, StartCleanup, CleanupStep, CleanupOwner, CleanupTraces,
            CleanupCompiler, CleanupKV

\* The buffers of the sampler are never allocated over addresses that a trace has recorded.
THEOREM SamplingAlwaysBeforeTraces == ExecSpec => SamplingBeforeTraces
<1>1. Ind /\ [ExecNext]_execVars =>
        ["sampling" \in held' \ held => device \cap KeyResources = {}]_execVars
  BY OnlyEnsureSampling, NothingTraced
<1> QED BY <1>1, LaneInvariance, PTL DEF ExecSpec, SamplingBeforeTraces

-----------------------------------------------------------------------------
(* Cleanup. *)

\* What the first n - 1 actions of CleanupOrder leave behind when none of them raises.
DoneBefore(n) ==
    /\ n > 1 => "leases" \notin held
    /\ n > 2 => "reads" \notin held
    /\ n > 3 => "prefill" \notin held
    /\ n > 4 => "decode" \notin held
    /\ n > 5 => tracesReleased
    /\ n > 6 => programsReleased
    /\ n > 7 => "sampling" \notin held
    /\ n > 8 => kvState = "released"

\* The registries of the compilers, once released, have nothing left.
ReleasedInv ==
    /\ tracesReleased => ~activated
    /\ programsReleased => compileOrphans = {}

\* A terminal lane only cleans up, and a pass without a failure leaves nothing undone.
PassInv ==
    /\ pass \in 0 .. 8 /\ passFailed \in BOOLEAN
    /\ held \subseteq Owners
    /\ pass > 0 \/ cleanedUp => terminal
    /\ terminal => stage = "idle"
    /\ cleanedUp => pass = 0 /\ DoneBefore(9)
    /\ pass > 0 /\ ~passFailed => DoneBefore(pass)

LEMMA ReleasedInitial == Init => ReleasedInv
BY DEF Init, TraceInit, ProgramInit, ReleasedInv

LEMMA ReleasedKeeps == Ind /\ ReleasedInv /\ [Next]_vars => ReleasedInv'
<1> SUFFICES ASSUME Ind, ReleasedInv, [Next]_vars PROVE ReleasedInv'
  OBVIOUS
<1> USE DEF ReleasedInv
<1>1. CASE UNCHANGED vars
  BY <1>1 DEF vars, programVars, traceVars, captureVars
<1>2. ASSUME NEW p \in Programs, Compile(p) PROVE ReleasedInv'
  BY <1>2 DEF Compile, CompileSucceeds, CompileFails, CanCompile, traceVars, captureVars
<1>3. CASE CleanupPrograms
  BY <1>3 DEF CleanupPrograms, ProgramCleanup, traceVars, captureVars
<1>4. CASE TraceCleanup
  BY <1>4 DEF TraceCleanup
<1>5. CASE stage # "idle" /\ UNCHANGED <<tracesReleased, programsReleased, compileOrphans>>
  BY <1>5 DEF Ind, BusyState
<1>6. CASE UNCHANGED <<tracesReleased, programsReleased, compileOrphans, activated>>
  BY <1>6
<1>7. ASSUME NEW k \in Keys, NEW parts \in {{"in"}, Parts},
             PrepareInputs(k) \/ BeginCapture(k) \/ EndCapture(k) \/ CaptureRecordRaises(k, parts)
      PROVE  ReleasedInv'
  BY <1>5, <1>7 DEF PrepareInputs, BeginCapture, EndCapture, CaptureRecordRaises, Rollback, programVars
<1>8. ASSUME NEW p \in Programs, NEW id \in Ids, PrepareWorkspace(p, id) PROVE ReleasedInv'
  BY <1>6, <1>8 DEF PrepareWorkspace, programVars, captureVars
<1>9. CASE PrimeCaptures \/ FinishCapture \/ CaptureAllRaises
  BY <1>5, <1>9 DEF PrimeCaptures, FinishCapture, CaptureAllRaises, Rollback
<1>10. CASE StartCapture \/ EagerForward \/ \E plan \in Plans : RegisterCapturePlan(plan)
  BY <1>6, <1>10 DEF StartCapture, EagerForward, RegisterCapturePlan, programVars, traceVars, captureVars
<1>11. ASSUME NEW plan \in Plans, (\E full \in BOOLEAN : Replay(plan, full)) \/ ReplayRaises(plan)
       PROVE  ReleasedInv'
  BY <1>6, <1>11 DEF Replay, ReplayRaises, programVars, captureVars
<1> QED BY <1>1, <1>2, <1>3, <1>4, <1>7, <1>8, <1>9, <1>10, <1>11 DEF Next, Parts

LEMMA PassInitial == ExecInit => PassInv
<1> SUFFICES ASSUME ExecInit PROVE PassInv
  OBVIOUS
<1>1. pass = 0 /\ ~terminal /\ ~cleanedUp /\ held = {} /\ passFailed \in BOOLEAN
  BY DEF ExecInit
<1> QED BY <1>1 DEF PassInv

LEMMA CaptureIsBusy == CaptureStep \/ WarmupFinishesCapture => stage # "idle"
BY DEF CaptureStep, WarmupFinishesCapture, PrepareInputs, BeginCapture, EndCapture, PrepareWorkspace,
       PrimeCaptures, CaptureAllRaises, CaptureRecordRaises, FinishCapture

\* Outside a cleanup: the lane is live before and after, or only starts to be cleaned up.
LEMMA LiveKeeps ==
    ASSUME Ind, PassInv, [ExecNext]_execVars, ~CleanupStep, ~StartCleanup, ~UNCHANGED execVars
    PROVE  /\ ~terminal /\ UNCHANGED <<terminal, cleanedUp, pass, passFailed>>
           /\ held' \subseteq Owners
<1>1. \/ stage = "idle" /\ ~terminal
      \/ stage # "idle"
  BY CaptureIsBusy
     DEF ExecNext, AllocateKV, CompileProgram, RegisterPlan, WarmupCaptures, WarmupSkipsCapture,
         CaptureDecided, ForwardEager, ForwardTraced,
         ReadDecodeOutput, ProcessDecodeOutputHost, Usable, Active
<1>2. UNCHANGED <<terminal, cleanedUp, pass, passFailed>>
  BY DEF ExecNext, laneVars, AllocateKV, CompileProgram, RegisterPlan, WarmupCaptures,
         WarmupSkipsCapture, CaptureStep, WarmupFinishesCapture, ForwardEager, ForwardTraced,
         ReadDecodeOutput, ProcessDecodeOutputHost
<1>3. held' \subseteq Owners
  <2>1. \A left \in LeftBehind : left \subseteq Owners
    BY LeftBehindAssumption
  <2> QED BY <2>1 DEF ExecNext, laneVars, AllocateKV, CompileProgram, EnsureSampling, RegisterPlan,
            WarmupCaptures, WarmupSkipsCapture, CaptureStep, WarmupFinishesCapture, ForwardEager,
            ForwardTraced, ReadDecodeOutput, ProcessDecodeOutputHost, PassInv, Owners
<1> QED BY <1>1, <1>2, <1>3 DEF PassInv

\* An action of a pass: it succeeds and is done, or the pass has failed.
LEMMA ProceedStep ==
    ASSUME PassInv, pass > 0, NEW raised \in BOOLEAN, Proceed(raised)
    PROVE  /\ pass \in 1 .. 8 /\ pass' = IF pass = 8 THEN 0 ELSE pass + 1
           /\ passFailed' \in BOOLEAN
           /\ ~passFailed' => ~passFailed /\ ~raised
           /\ cleanedUp' => pass = 8 /\ ~passFailed'
           /\ UNCHANGED terminal
<1>1. Len(CleanupOrder) = 8
  BY DEF CleanupOrder
<1>2. pass \in 1 .. 8 /\ pass' = (pass + 1) % 9
  BY <1>1 DEF PassInv, Proceed
<1>3. pass' = IF pass = 8 THEN 0 ELSE pass + 1
  BY <1>2
<1>4. passFailed' \in BOOLEAN /\ (~passFailed' => ~passFailed /\ ~raised)
  BY DEF PassInv, Proceed
<1>5. cleanedUp' => pass = 8 /\ ~passFailed'
  <2>1. cleanedUp' => pass' = 0 /\ ~passFailed'
    BY DEF Proceed
  <2>2. pass' = 0 => pass = 8
    BY <1>2, <1>3
  <2> QED BY <2>1, <2>2
<1> QED BY <1>2, <1>3, <1>4, <1>5 DEF Proceed

LEMMA PassAction ==
    ASSUME PassInv, pass > 0
    PROVE  /\ At("leases") <=> pass = 1
           /\ At("reads") <=> pass = 2
           /\ At("prefill") <=> pass = 3
           /\ At("decode") <=> pass = 4
           /\ At("traces") <=> pass = 5
           /\ At("programs") <=> pass = 6
           /\ At("sampling") <=> pass = 7
           /\ At("kv") <=> pass = 8
<1>1. pass \in 1 .. 8
  BY DEF PassInv
<1> QED BY <1>1 DEF At, CleanupOrder

\* An action that raises nothing has done its part, and undoes nothing.
LEMMA CleanupStepDone ==
    ASSUME Ind, KVInv, ReleasedInv, PassInv, NEW n \in 1 .. 8, pass = n, CleanupStep
    PROVE  /\ stage' = stage /\ held' \subseteq held
           /\ \E raised \in BOOLEAN :
                 /\ Proceed(raised)
                 /\ ~raised /\ DoneBefore(n) => DoneBefore(n + 1)'
<1>1. pass > 0
  OBVIOUS
<1>2. ASSUME NEW owner \in Owners, NEW raised \in BOOLEAN, CleanupOwner(owner, raised)
      PROVE  /\ stage' = stage /\ held' \subseteq held /\ Proceed(raised)
             /\ ~raised /\ DoneBefore(n) => DoneBefore(n + 1)'
  <2>1. At(owner) /\ Proceed(raised) /\ held' = (IF raised THEN held ELSE held \ {owner})
        /\ UNCHANGED <<stage, tracesReleased, programsReleased, kvState>>
    BY <1>2 DEF CleanupOwner, vars, programVars, traceVars, captureVars, kvVars
  <2>2. ASSUME ~raised, DoneBefore(n) PROVE DoneBefore(n + 1)'
    <3>1. held' = held \ {owner}
      BY <2>1, <2>2
    <3>2. \/ owner = "leases" /\ n = 1
          \/ owner = "reads" /\ n = 2
          \/ owner = "prefill" /\ n = 3
          \/ owner = "decode" /\ n = 4
          \/ owner = "sampling" /\ n = 7
      <4>1. owner \in {"leases", "reads", "prefill", "decode", "sampling"}
        BY DEF Owners
      <4>2. /\ (At("leases") => n = 1) /\ (At("reads") => n = 2) /\ (At("prefill") => n = 3)
            /\ (At("decode") => n = 4) /\ (At("sampling") => n = 7)
        BY <1>1, PassAction
      <4> QED BY <2>1, <4>1, <4>2
    <3> QED BY <2>1, <2>2, <3>1, <3>2 DEF DoneBefore
  <2> QED BY <2>1, <2>2
<1>3. CASE CleanupTraces
  <2>1. n = 5 /\ Proceed(~tracesReleased') /\ UNCHANGED <<held, kvState, programsReleased, stage>>
    BY <1>1, <1>3, PassAction
       DEF CleanupTraces, TraceCleanup, vars, programVars, traceVars, captureVars, kvVars
  <2>2. tracesReleased' /\ DoneBefore(n) => DoneBefore(n + 1)'
    BY <2>1 DEF DoneBefore
  <2>3. tracesReleased' \in BOOLEAN
    BY LaneStep, IndNext DEF Ind, TypeOK, ExecNext
  <2> QED BY <2>1, <2>2, <2>3
<1>4. CASE CleanupCompiler
  <2>1. n = 6 /\ Proceed(~programsReleased') /\ UNCHANGED <<held, kvState, tracesReleased, stage>>
    BY <1>1, <1>4, PassAction
       DEF CleanupCompiler, CleanupPrograms, ProgramCleanup, vars, programVars, traceVars, captureVars,
           kvVars
  <2>2. programsReleased' /\ DoneBefore(n) => DoneBefore(n + 1)'
    BY <2>1 DEF DoneBefore
  <2>3. programsReleased' \in BOOLEAN
    BY LaneStep, IndNext DEF Ind, TypeOK, ProgramTypeOK, ExecNext
  <2> QED BY <2>1, <2>2, <2>3
<1>5. CASE CleanupKV
  <2>1. n = 8 /\ UNCHANGED <<held, stage, tracesReleased, programsReleased>>
    BY <1>1, <1>5, PassAction DEF CleanupKV, vars, programVars, traceVars, captureVars
  <2>2. Proceed(TRUE) \/ (Proceed(FALSE) /\ kvState' = "released")
    BY <1>5 DEF CleanupKV, Release
  <2>3. kvState' = "released" /\ DoneBefore(n) => DoneBefore(n + 1)'
    BY <2>1 DEF DoneBefore
  <2> QED BY <2>1, <2>2, <2>3
<1> QED BY <1>2, <1>3, <1>4, <1>5 DEF CleanupStep

LEMMA PassKeeps == Ind /\ KVInv /\ ReleasedInv /\ PassInv /\ [ExecNext]_execVars => PassInv'
<1> SUFFICES ASSUME Ind, KVInv, ReleasedInv, PassInv, [ExecNext]_execVars PROVE PassInv'
  OBVIOUS
<1>1. CASE UNCHANGED execVars
  BY <1>1 DEF PassInv, DoneBefore, execVars, laneVars, kvVars, vars, programVars, traceVars, captureVars
<1>2. CASE StartCleanup
  <2>1. /\ stage' = "idle" /\ terminal' /\ pass' = 1 /\ passFailed' = FALSE
        /\ ~cleanedUp' /\ held' = held
    BY <1>2 DEF StartCleanup, vars, traceVars, captureVars
  <2>2. DoneBefore(pass)'
    BY <2>1 DEF DoneBefore
  <2>3. pass' \in 0 .. 8 /\ held' \subseteq Owners
    BY <2>1 DEF PassInv
  <2>4. passFailed' \in BOOLEAN
    BY <2>1
  <2> QED BY <2>1, <2>2, <2>3, <2>4 DEF PassInv
<1>3. CASE CleanupStep
  <2>1. PICK n \in 1 .. 8 : pass = n
    <3>1. pass > 0
      BY <1>3 DEF CleanupStep, CleanupOwner, CleanupTraces, CleanupCompiler, CleanupKV, At
    <3> QED BY <3>1 DEF PassInv
  <2>2. PICK raised \in BOOLEAN : Proceed(raised) /\ (~raised /\ DoneBefore(n) => DoneBefore(n + 1)')
    BY <1>3, <2>1, CleanupStepDone
  <2>3. stage' = stage /\ held' \subseteq held
    BY <1>3, <2>1, CleanupStepDone
  <2>4. /\ pass' = IF n = 8 THEN 0 ELSE n + 1
        /\ passFailed' \in BOOLEAN
        /\ ~passFailed' => ~passFailed /\ ~raised
        /\ cleanedUp' => n = 8 /\ ~passFailed'
        /\ UNCHANGED terminal
    <3>1. pass > 0
      BY <2>1
    <3> QED BY <2>1, <2>2, <3>1, ProceedStep
  <2>5. ~passFailed' => DoneBefore(n + 1)'
    <3>1. ~passFailed => DoneBefore(n)
      BY <2>1 DEF PassInv
    <3> QED BY <2>2, <2>4, <3>1
  <2>6. pass' > 0 /\ ~passFailed' => DoneBefore(pass)'
    <3>1. pass' > 0 => pass' = n + 1
      BY <2>4
    <3> QED BY <2>5, <3>1
  <2>7. cleanedUp' => pass' = 0 /\ DoneBefore(9)'
    <3>1. ASSUME cleanedUp' PROVE n = 8 /\ n + 1 = 9 /\ pass' = 0 /\ ~passFailed'
      BY <2>4, <3>1
    <3> QED BY <2>5, <3>1
  <2>8. pass' \in 0 .. 8 /\ held' \subseteq Owners /\ terminal /\ terminal' /\ stage' = "idle"
    BY <2>1, <2>3, <2>4 DEF PassInv
  <2> QED BY <2>4, <2>6, <2>7, <2>8 DEF PassInv
<1>4. CASE ~CleanupStep /\ ~StartCleanup /\ ~UNCHANGED execVars
  <2>1. /\ ~terminal /\ UNCHANGED <<terminal, cleanedUp, pass, passFailed>> /\ held' \subseteq Owners
    BY <1>4, LiveKeeps
  <2> QED BY <2>1 DEF PassInv
<1> QED BY <1>1, <1>2, <1>3, <1>4

LEMMA LaneInvariants == ExecSpec => [](Ind /\ KVInv /\ ReleasedInv /\ PassInv)
<1>1. ExecInit => KVInv /\ ReleasedInv /\ PassInv
  BY KVInitial, ReleasedInitial, PassInitial DEF ExecInit
<1>2. Ind /\ KVInv /\ ReleasedInv /\ PassInv /\ [ExecNext]_execVars
        => KVInv' /\ ReleasedInv' /\ PassInv'
  BY KVKeeps, ReleasedKeeps, PassKeeps, LaneStep
<1> QED BY <1>1, <1>2, LaneInvariance, PTL DEF ExecSpec

\* After a cleanup that succeeded, at whichever attempt, nothing of the lane is left: the failures
\* of earlier attempts are not forgotten, and no action of the last one was skipped.
THEOREM NothingHeldAfterCleanup == ExecSpec => []CleanedUpHoldsNothing
<1>1. ASSUME Ind, KVInv, ReleasedInv, PassInv, cleanedUp PROVE CleanedUpHoldsNothing
  <2>1. /\ stage = "idle" /\ tracesReleased /\ programsReleased /\ kvState = "released"
        /\ held = {}
    BY <1>1 DEF PassInv, DoneBefore, Owners
  <2>2. device \cap KeyResources = {}
    BY <1>1, <2>1, NothingTraced DEF ReleasedInv
  <2> QED BY <1>1, <2>1, <2>2 DEF CleanedUpHoldsNothing, ReleasedInv, KVInv, ModelSeesAllocated
<1>2. Ind /\ KVInv /\ ReleasedInv /\ PassInv => CleanedUpHoldsNothing
  BY <1>1 DEF CleanedUpHoldsNothing
<1> QED BY <1>2, LaneInvariants, PTL

-----------------------------------------------------------------------------
(* While no release of a trace fails. *)

\* A release pass that meets no refusal leaves nothing, so the compiler is not activated.
LEMMA CleanPass ==
    ASSUME Ind, NEW art, NEW hold, NEW inputs, NEW allocated, NEW stuck,
           ReleaseAll(art, hold, inputs, allocated, stuck), faults' = 0
    PROVE  ~Leftovers(artifact', orphans', workspace')
<1>1. stuck = {}
  BY DEF ReleaseAll, CountFault, Ind, TypeOK
<1>2. \A k \in Keys : artifact'[k] = "none"
  BY <1>1 DEF ReleaseAll, ArtifactAfter, HoldsAfter, TraceStuck
<1>3. orphans' = {}
  BY <1>1 DEF ReleaseAll
<1>4. \A p \in Programs : workspace'[p] = NoId
  BY <1>1 DEF ReleaseAll, ReleaseWorkspaces, WorkspaceStuck
<1> QED BY <1>2, <1>3, <1>4 DEF Leftovers

LEMMA NothingTracedAfter == (Ind /\ stage = "idle" /\ ~activated => device \cap KeyResources = {})'
BY NothingTraced, PTL

\* Between two captures nothing is allocated for a trace.
LEMMA IdleAllocatesNothing ==
    ASSUME stage = "idle", [Next]_vars
    PROVE  device' \subseteq device
<1>1. CASE TraceCleanup
  BY <1>1 DEF TraceCleanup, ReleaseAll
<1>2. CASE ~TraceCleanup
  BY <1>2 DEF Next, vars, traceVars, resourceVars, Compile, CleanupPrograms, EagerForward,
              RegisterCapturePlan, StartCapture, PrepareInputs, PrepareWorkspace, PrimeCaptures,
              BeginCapture, EndCapture, FinishCapture, CaptureAllRaises, CaptureRecordRaises, Replay,
              ReplayRaises
<1> QED BY <1>1, <1>2

\* Steps of a live lane leave the count of refusals behind; so does every other.
LEMMA FaultsStay ==
    ASSUME Ind, [Next]_vars, faults' = 0
    PROVE  faults = 0
<1>1. \A art, hold, inputs, allocated, stuck :
        ReleaseAll(art, hold, inputs, allocated, stuck) => faults = 0
  BY DEF ReleaseAll, CountFault, Ind, TypeOK
<1> QED BY <1>1 DEF Next, vars, traceVars, resourceVars, Compile, CleanupPrograms, EagerForward,
              RegisterCapturePlan, StartCapture, PrepareInputs, PrepareWorkspace, PrimeCaptures,
              BeginCapture, EndCapture, FinishCapture, CaptureAllRaises, CaptureRecordRaises, Replay,
              ReplayRaises, TraceCleanup, Rollback

KVFull ==
    /\ kvState = "bound" /\ kvDevice = KVTensors
    /\ kvHanded => kvBound = KVTensors

Traced == device \cap KeyResources # {}

\* A live lane traces over a bound cache only, and its cleanup reaches the cache after the traces.
OrderInv ==
    /\ ~terminal => IF kvState = "bound" THEN KVFull ELSE ~kvHanded
    /\ stage # "idle" => kvState = "bound"
    /\ ~terminal /\ Traced => kvState = "bound"
    /\ faults = 0 /\ terminal /\ Traced => KVFull /\ pass \in 1 .. 5

LEMMA OrderInitial == ExecInit => OrderInv
<1> SUFFICES ASSUME ExecInit PROVE OrderInv
  OBVIOUS
<1>1. kvState # "bound" /\ ~kvHanded /\ stage = "idle" /\ ~Traced
  BY DEF ExecInit, KVInit, Init, TraceInit, Traced
<1> QED BY <1>1 DEF OrderInv, ExecInit

LEMMA OrderLive ==
    ASSUME Ind, KVInv, PassInv, OrderInv, [ExecNext]_execVars,
           ~CleanupStep, ~StartCleanup, ~UNCHANGED execVars
    PROVE  OrderInv'
<1>1. ~terminal /\ ~terminal'
  BY LiveKeeps
<1>2. CASE AllocateKV
  <2>1. stage = "idle" /\ UNCHANGED <<device, stage, faults>>
    BY <1>2 DEF AllocateKV, Active, vars, traceVars, captureVars, resourceVars
  <2>2. Traced' = Traced
    BY <2>1 DEF Traced
  <2>3. kvState # "bound" => ~kvHanded /\ ~Traced
    BY <1>1 DEF OrderInv
  <2>4. kvState # "bound"
    BY <1>2 DEF AllocateKV, Configure, Allocate, AllocateRaises, AllocateRaisesTwice
  <2>5. IF kvState' = "bound" THEN KVFull' ELSE ~kvHanded'
    <3>1. kvOwned = kvDevice
      BY DEF KVInv, ModelSeesAllocated
    <3>2. CASE Configure \/ AllocateRaises
      BY <2>3, <2>4, <3>2 DEF Configure, AllocateRaises
    <3>3. CASE Allocate
      BY <3>1, <3>3 DEF Allocate, KVFull
    <3>4. CASE AllocateRaisesTwice
      BY <2>3, <2>4, <3>1, <3>4 DEF AllocateRaisesTwice, KVFull
    <3> QED BY <1>2, <3>2, <3>3, <3>4 DEF AllocateKV
  <2> QED BY <1>1, <2>1, <2>2, <2>3, <2>4, <2>5 DEF OrderInv
<1>3. CASE ~AllocateKV
  <2>1. UNCHANGED kvVars
    BY <1>3, OnlyKVSteps DEF CleanupStep
  <2>2. KVFull' = KVFull /\ UNCHANGED <<kvState, kvHanded>>
    BY <2>1 DEF kvVars, KVFull
  <2>3. stage' # "idle" /\ stage = "idle" => kvState = "bound"
    BY DEF ExecNext, AllocateKV, CompileProgram, Compile, RegisterPlan, RegisterCapturePlan,
           WarmupCaptures, WarmupSkipsCapture, WarmupFinishesCapture, FinishCapture, CaptureStep,
           PrepareInputs, PrepareWorkspace, PrimeCaptures, BeginCapture, EndCapture, CaptureAllRaises,
           CaptureRecordRaises, Rollback, ForwardEager, EagerForward, ForwardTraced, Replay,
           ReplayRaises, ReadDecodeOutput, ProcessDecodeOutputHost, CaptureDecided, Usable, vars,
           traceVars, captureVars
  <2>4. stage' # "idle" => kvState = "bound"
    BY <2>3 DEF OrderInv
  <2>5. Traced' => kvState = "bound"
    <3>1. CASE stage # "idle"
      BY <3>1 DEF OrderInv
    <3>2. CASE stage = "idle"
      <4>1. device' \subseteq device
        BY <3>2, LaneStep, IdleAllocatesNothing
      <4> QED BY <1>1, <4>1 DEF OrderInv, Traced
    <3> QED BY <3>1, <3>2
  <2> QED BY <1>1, <2>2, <2>4, <2>5 DEF OrderInv
<1> QED BY <1>2, <1>3

LEMMA OrderCleanup ==
    ASSUME Ind, KVInv, ReleasedInv, PassInv, OrderInv, CleanupStep
    PROVE  OrderInv'
<1>1. PICK n \in 1 .. 8 : pass = n
  <2>1. pass > 0
    BY DEF CleanupStep, CleanupOwner, CleanupTraces, CleanupCompiler, CleanupKV, At
  <2> QED BY <2>1 DEF PassInv
<1>2. terminal /\ stage = "idle" /\ stage' = "idle"
  BY <1>1, CleanupStepDone DEF PassInv
<1>3. PICK raised \in BOOLEAN : Proceed(raised)
  BY <1>1, CleanupStepDone
<1>4. terminal' /\ pass' = IF n = 8 THEN 0 ELSE n + 1
  <2>1. pass > 0
    BY <1>1
  <2> QED BY <1>1, <1>2, <1>3, <2>1, ProceedStep
<1>5. [Next]_vars /\ device' \subseteq device /\ (faults' = 0 => faults = 0)
  BY <1>2, LaneStep, IdleAllocatesNothing, FaultsStay DEF ExecNext
<1>6. CASE n = 5
  <2>1. CleanupTraces
    BY <1>1, <1>6, PassAction DEF CleanupStep, CleanupOwner, CleanupCompiler, CleanupKV, At,
                                  CleanupOrder, Owners
  <2>2. faults' = 0 => ~activated'
    <3>1. CASE TraceCleanup
      BY <3>1, CleanPass DEF TraceCleanup
    <3>2. CASE tracesReleased /\ UNCHANGED vars
      BY <3>2 DEF ReleasedInv, vars, traceVars
    <3> QED BY <2>1, <3>1, <3>2 DEF CleanupTraces
  <2>3. Ind'
    BY <1>5, IndNext
  <2>4. faults' = 0 => ~Traced'
    BY <1>2, <2>2, <2>3, NothingTracedAfter DEF Traced
  <2> QED BY <1>2, <1>4, <2>4 DEF OrderInv
<1>7. CASE n # 5
  <2>1. faults' = 0 /\ Traced' => KVFull /\ n \in 1 .. 4
    BY <1>1, <1>2, <1>5, <1>7 DEF OrderInv, Traced
  <2>2. n # 8 => UNCHANGED kvVars
    <3>1. CleanupKV => n = 8
      BY <1>1, PassAction DEF CleanupKV
    <3> QED BY <3>1 DEF CleanupStep, CleanupOwner, CleanupTraces, CleanupCompiler
  <2>3. UNCHANGED kvVars /\ KVFull => KVFull'
    BY DEF kvVars, KVFull
  <2> QED BY <1>2, <1>4, <2>1, <2>2, <2>3 DEF OrderInv
<1> QED BY <1>6, <1>7

LEMMA OrderKeeps ==
    Ind /\ KVInv /\ ReleasedInv /\ PassInv /\ OrderInv /\ [ExecNext]_execVars => OrderInv'
<1> SUFFICES ASSUME Ind, KVInv, ReleasedInv, PassInv, OrderInv, [ExecNext]_execVars PROVE OrderInv'
  OBVIOUS
<1>1. CASE UNCHANGED execVars
  BY <1>1 DEF OrderInv, KVFull, Traced, execVars, laneVars, kvVars, vars, traceVars, captureVars,
              resourceVars
<1>2. CASE StartCleanup
  <2>1. /\ UNCHANGED <<device, faults, kvVars>> /\ stage = "idle" /\ stage' = "idle"
        /\ terminal' /\ pass' = 1 /\ pass = 0
    BY <1>2 DEF StartCleanup, vars, traceVars, captureVars, resourceVars
  <2>2. Traced' = Traced /\ KVFull' = KVFull
    BY <2>1 DEF Traced, KVFull, kvVars
  <2>3. faults = 0 /\ Traced => KVFull
    BY <2>1 DEF OrderInv
  <2> QED BY <2>1, <2>2, <2>3 DEF OrderInv
<1> QED BY <1>1, <1>2, OrderLive, OrderCleanup

\* As long as no release of a trace is refused, the KV tensors a trace has recorded stay on the
\* device and with the model until the last trace is gone.
THEOREM KVAlwaysOutlivesTraces == ExecSpec => []KVOutlivesTraces
<1>1. ExecSpec => []OrderInv
  BY LaneInvariants, OrderInitial, OrderKeeps, PTL DEF ExecSpec
<1>2. OrderInv => KVOutlivesTraces
  BY DEF OrderInv, KVOutlivesTraces, KVFull, Traced
<1> QED BY <1>1, <1>2, PTL

-----------------------------------------------------------------------------
(* What warm-up commits. *)

\* The trace of a key with the inputs and outputs it was captured with.
Whole(k) == artifact[k] = "live" /\ holds[k] = Parts

AllWhole == \A k \in Traces \cup Bodies : Whole(k)

\* What is captured is whole, and warm-up commits only a capture of all it requires.
CommitInv ==
    /\ stage = "capture" => \A k \in Traces \cup Bodies : k \in prepared \/ Whole(k)
    /\ faults = 0 /\ stage = "idle" /\ activated /\ ~terminal => AllWhole
    /\ stage # "idle" => Required \subseteq registered
    /\ captured /\ ~terminal => activated /\ Required \subseteq registered /\ stage = "idle"

LEMMA CommitInitial == ExecInit => CommitInv
BY DEF ExecInit, Init, TraceInit, CommitInv

\* A lane that is terminal after the step has nothing to commit.
LEMMA CommitTerminal ==
    ASSUME stage' = "idle", terminal'
    PROVE  CommitInv'
BY DEF CommitInv

LEMMA CommitSame ==
    ASSUME CommitInv, UNCHANGED <<registered, stage, prepared, artifact, holds, activated, faults,
                                  terminal, captured>>
    PROVE  CommitInv'
BY DEF CommitInv, AllWhole, Whole, Traces, Bodies

\* Preparing and priming: nothing is an artifact yet, and everything is prepared before the first
\* recording.
LEMMA CommitPrepare ==
    ASSUME Ind, CommitInv, UNCHANGED <<terminal, captured>>,
           \/ \E k \in Keys : PrepareInputs(k)
           \/ \E p \in Programs, id \in Ids : PrepareWorkspace(p, id)
           \/ PrimeCaptures
    PROVE  CommitInv'
<1>1. CASE \E k \in Keys : PrepareInputs(k)
  BY <1>1 DEF PrepareInputs, CommitInv, programVars, replayVars
<1>2. CASE \E p \in Programs, id \in Ids : PrepareWorkspace(p, id)
  BY <1>2 DEF PrepareWorkspace, CommitInv, captureVars
<1>3. CASE PrimeCaptures
  <2>1. /\ stage = "prepare" /\ stage' = "capture" /\ prepared = Traces \cup Bodies
        /\ UNCHANGED <<registered, prepared, activated>>
    BY <1>3 DEF PrimeCaptures, InputsPrepared
  <2> QED BY <2>1 DEF CommitInv, Traces, Bodies
<1> QED BY <1>1, <1>2, <1>3

\* Recording: the key that leaves prepared has become whole.
LEMMA CommitRecord ==
    ASSUME Ind, CommitInv, UNCHANGED <<terminal, captured>>, NEW k \in Keys,
           BeginCapture(k) \/ EndCapture(k)
    PROVE  CommitInv'
<1>1. CASE BeginCapture(k)
  BY <1>1, CommitSame DEF BeginCapture
<1>2. CASE EndCapture(k)
  <2>1. artifact \in [Keys -> {"none", "live", "released"}] /\ holds \in [Keys -> SUBSET Parts]
    BY DEF Ind, TypeOK
  <2>2. /\ stage = "capture" /\ stage' = "capture" /\ registered' = registered
        /\ prepared' = prepared \ {k}
        /\ artifact' = [artifact EXCEPT ![k] = "live"] /\ holds' = [holds EXCEPT ![k] = Parts]
    BY <1>2 DEF EndCapture
  <2>3. Whole(k)' /\ \A j \in Keys : Whole(j) => Whole(j)'
    BY <2>1, <2>2 DEF Whole
  <2>4. Traces' = Traces /\ Bodies' = Bodies /\ Traces \cup Bodies \subseteq Keys
    BY <2>2, PlansAssumption DEF Traces, Bodies, Ind, TypeOK
  <2>5. \A j \in Traces \cup Bodies : j \in prepared' \/ Whole(j)'
    BY <2>2, <2>3, <2>4 DEF CommitInv
  <2> QED BY <2>2, <2>4, <2>5 DEF CommitInv
<1> QED BY <1>1, <1>2

\* A rollback without refusals leaves nothing activated.
LEMMA CommitRollback ==
    ASSUME Ind, CommitInv, PassInv, UNCHANGED <<terminal, captured>>, stage # "idle",
           NEW art, NEW hold, NEW inputs, NEW allocated, Rollback(art, hold, inputs, allocated)
    PROVE  CommitInv'
<1>1. faults' = 0 => ~activated'
  BY CleanPass DEF Rollback
<1>2. ~captured \/ terminal
  BY DEF CommitInv
<1> QED BY <1>1, <1>2 DEF CommitInv, Rollback

LEMMA CommitKeeps == Ind /\ PassInv /\ CommitInv /\ [ExecNext]_execVars => CommitInv'
<1> SUFFICES ASSUME Ind, PassInv, CommitInv, [ExecNext]_execVars PROVE CommitInv'
  OBVIOUS
<1>1. CASE UNCHANGED execVars \/ AllocateKV
           \/ (\E p \in Programs, sampled \in BOOLEAN : CompileProgram(p, sampled))
           \/ (\E left \in LeftBehind : ForwardEager(left))
           \/ (\E plan \in Plans, left \in LeftBehind : ForwardTraced(plan, left))
           \/ (\E async \in BOOLEAN : ReadDecodeOutput(async)) \/ ProcessDecodeOutputHost
  BY <1>1, CommitSame
     DEF execVars, laneVars, vars, programVars, traceVars, captureVars, resourceVars, AllocateKV,
         CompileProgram, Compile, ForwardEager, EagerForward, ForwardTraced, Replay, ReplayRaises,
         ReadDecodeOutput, ProcessDecodeOutputHost
<1>2. ASSUME NEW plan \in Plans, RegisterPlan(plan) PROVE CommitInv'
  BY <1>2 DEF RegisterPlan, RegisterCapturePlan, CommitInv, laneVars
<1>3. CASE WarmupCaptures
  BY <1>3 DEF WarmupCaptures, CaptureDecided, StartCapture, CommitInv, laneVars
<1>4. CASE WarmupSkipsCapture
  <2>1. /\ stage = "idle" /\ activated /\ Required \subseteq registered
        /\ UNCHANGED <<registered, stage, prepared, artifact, holds, activated, faults, terminal>>
    BY <1>4 DEF WarmupSkipsCapture, CaptureDecided, Usable, Active, vars, traceVars, captureVars,
                resourceVars
  <2>2. AllWhole' = AllWhole
    BY <2>1 DEF AllWhole, Whole, Traces, Bodies
  <2> QED BY <2>1, <2>2 DEF CommitInv
<1>5. CASE CaptureStep
  <2>1. UNCHANGED <<terminal, captured>> /\ stage # "idle"
    BY <1>5, CaptureIsBusy DEF CaptureStep, laneVars
  <2> QED BY <1>5, <2>1, CommitPrepare, CommitRecord, CommitRollback
          DEF CaptureStep, CaptureAllRaises, CaptureRecordRaises
<1>6. CASE WarmupFinishesCapture
  <2>1. /\ stage = "capture" /\ prepared = {} /\ stage' = "idle" /\ activated' = TRUE
        /\ UNCHANGED <<registered, artifact, holds>>
    BY <1>6 DEF WarmupFinishesCapture, FinishCapture, resourceVars
  <2>2. AllWhole'
    BY <2>1 DEF CommitInv, AllWhole, Whole, Traces, Bodies
  <2> QED BY <2>1, <2>2 DEF CommitInv
<1>7. CASE StartCleanup
  BY <1>7, CommitTerminal DEF StartCleanup, vars, traceVars, captureVars
<1>8. CASE CleanupStep
  <2>1. pass > 0 /\ UNCHANGED <<stage, terminal>>
    BY <1>8 DEF CleanupStep, CleanupOwner, CleanupTraces, CleanupCompiler, CleanupKV, At, Proceed,
               TraceCleanup, CleanupPrograms, vars, traceVars, captureVars
  <2>2. stage' = "idle" /\ terminal'
    BY <2>1 DEF PassInv, Ind, TypeOK
  <2> QED BY <2>2, CommitTerminal
<1> QED BY <1>1, <1>2, <1>3, <1>4, <1>5, <1>6, <1>7, <1>8 DEF ExecNext

\* As long as no release pass of the traces is refused, all warm-up takes as captured is on the
\* device, and a traced forward never runs a trace without its inputs and outputs.
THEOREM CapturedStaysComplete == ExecSpec => []CompleteUnlessStuck
<1>1. ExecSpec => [](Ind /\ PassInv /\ CommitInv)
  BY LaneInvariants, CommitInitial, CommitKeeps, PTL DEF ExecSpec
<1>2. Ind /\ PassInv /\ CommitInv => CompleteUnlessStuck
  <2> SUFFICES ASSUME Ind, PassInv, CommitInv, faults = 0
               PROVE  CapturedIsComplete /\ ReplayableIsComplete
    BY DEF CompleteUnlessStuck
  <2>1. ASSUME NEW k \in Keys, Whole(k) PROVE {"trace", "in", "out"} \X {k} \subseteq device
    BY <2>1, ExactOwnership DEF Whole, Owned, Parts
  <2>2. ASSUME NEW plan \in registered, AllWhole PROVE Captured(plan)
    <3>1. {plan.trace, plan.body} \ {NoKey} \subseteq (Traces \cup Bodies) \cap Keys
      BY PlansAssumption DEF Traces, Bodies, Ind, TypeOK
    <3>2. ASSUME NEW k \in {plan.trace, plan.body} \ {NoKey}, NEW r \in {"trace", "in", "out"}
          PROVE  <<r, k>> \in device
      BY <3>1, <3>2, <2>1, <2>2 DEF AllWhole
    <3>3. \A K : (\A r \in {"trace", "in", "out"}, k \in K : <<r, k>> \in device) =>
                  {"trace", "in", "out"} \X K \subseteq device
      OBVIOUS
    <3> QED BY <3>2, <3>3, Zenon DEF Captured
  <2>3. CapturedIsComplete
    <3> SUFFICES ASSUME captured, ~terminal, NEW plan \in Required PROVE Captured(plan)
      BY DEF CapturedIsComplete
    <3>1. AllWhole /\ plan \in registered
      BY DEF CommitInv
    <3> QED BY <3>1, <2>2
  <2>4. ReplayableIsComplete
    <3> SUFFICES ASSUME NEW plan \in registered, Usable, pass = 0, Replayable(plan)
                 PROVE  Captured(plan)
      BY DEF ReplayableIsComplete
    <3>1. ~terminal /\ stage = "idle" /\ artifact[plan.trace] # "none" /\ plan.trace \in Keys
      BY PlansAssumption DEF Usable, Active, Replayable, Ind, TypeOK
    <3>2. activated
      BY <3>1 DEF Ind, Inactive
    <3>3. AllWhole
      BY <3>1, <3>2 DEF CommitInv
    <3> QED BY <3>3, <2>2
  <2> QED BY <2>3, <2>4
<1> QED BY <1>1, <1>2, PTL

=============================================================================

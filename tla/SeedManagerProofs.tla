--------------------------- MODULE SeedManagerProofs ---------------------------
(***************************************************************************)
(* Proofs about SamplingState, on a lane of any size and for any requests: *)
(* salts keep the streams of equal seeds apart, and every token is sampled *)
(* with its own request's seed, position, penalty and history.  Each       *)
(* method of the seed manager has a lemma for each of the two; the steps   *)
(* of the runtime are compositions of these methods.                       *)
(***************************************************************************)
EXTENDS SamplingState, TLAPS

\* A registration order: of two slots of equal seeds, one is first.
Order(rank, seedOf) ==
    /\ DOMAIN rank \subseteq Slots
    /\ \A s \in DOMAIN rank : rank[s] \in Int
    /\ \A s, t \in DOMAIN rank : s # t /\ seedOf[s] = seedOf[t] => rank[s] # rank[t]

\* The fields of a stream that salts are about.
Shaped(table) ==
    \A s \in Slots : \A field \in {"active", "seed", "salt"} : field \in DOMAIN table[s]

Apart(table) == SaltsApart(table) /\ Shaped(table)

-----------------------------------------------------------------------------
(* The methods of the seed manager. *)

LEMMA ClearedApart ==
    ASSUME NEW table, Apart(table), NEW slots
    PROVE  Apart(Cleared(table, slots))
<1>1. SaltsApart(Cleared(table, slots))
  BY DEF Apart, SaltsApart, Live, Cleared, EmptyStream
<1>2. Shaped(Cleared(table, slots))
  BY DEF Apart, Shaped, Cleared, EmptyStream
<1> QED BY <1>1, <1>2 DEF Apart

\* _register_slot, in any order: the newcomer takes a salt that no twin has.
LEMMA RegisteredApart ==
    ASSUME NEW table, Apart(table), NEW rank, NEW seedOf, Order(rank, seedOf),
           Salting, NEW after \in Registered(table, rank, seedOf, Salting)
    PROVE  Apart(after)
<1> DEFINE new == DOMAIN rank
           base == Cleared(table, new)
           earlier(s) == {t \in new : rank[t] < rank[s] /\ seedOf[t] = seedOf[s]}
           taken(s, salt) ==
               {base[t].salt : t \in Twins(base, s, seedOf[s])} \cup {salt[t] : t \in earlier(s)}
<1>1. PICK salt \in [new -> 0 .. SaltBound] :
         /\ \A s \in new :
               IF Salting /\ seedOf[s] # None THEN SmallestFree(salt[s], taken(s, salt))
               ELSE salt[s] = 0
         /\ after = [s \in Slots |->
                       IF s \in new
                       THEN [EmptyStream EXCEPT !.active = TRUE, !.seed = seedOf[s],
                                                !.salt = salt[s]]
                       ELSE base[s]]
  BY DEF Registered
<1>2. \A s \in new : /\ after[s].seed = seedOf[s] /\ after[s].salt = salt[s]
                     /\ seedOf[s] # None => salt[s] \notin taken(s, salt)
  BY <1>1 DEF Order, EmptyStream, SmallestFree
<1>9. Shaped(after)
  <2>1. \A s \in Slots \ new : after[s] = base[s]
    BY <1>1
  <2>2. \A s \in new : DOMAIN after[s] = DOMAIN EmptyStream
    BY <1>1 DEF Order
  <2>3. Shaped(base)
    BY ClearedApart DEF Apart
  <2> QED BY <2>1, <2>2, <2>3 DEF Shaped, EmptyStream
<1>3. \A s \in Slots \ new : after[s] = base[s]
  BY <1>1
<1>4. Apart(base)
  BY ClearedApart
<1>5. ASSUME NEW s \in Live(after), NEW t \in Live(after), s # t,
             after[s].seed = after[t].seed, after[s].seed # None, s \in new, t \notin new
      PROVE  after[s].salt # after[t].salt
  <2>1. t \in Twins(base, s, seedOf[s])
    BY <1>2, <1>3, <1>5 DEF Twins, Live
  <2> QED BY <2>1, <1>2, <1>3, <1>5 DEF Live
<1>6. ASSUME NEW s \in new, NEW t \in new, after[s].seed = after[t].seed,
             after[s].seed # None, rank[t] < rank[s]
      PROVE  after[s].salt # after[t].salt
  BY <1>2, <1>6
<1> SUFFICES ASSUME NEW s \in Live(after), NEW t \in Live(after), s # t,
                    after[s].seed = after[t].seed, after[s].seed # None
             PROVE  after[s].salt # after[t].salt
  BY <1>9 DEF Apart, SaltsApart
<1>7. CASE s \in new /\ t \in new
  <2>1. rank[s] < rank[t] \/ rank[t] < rank[s]
    BY <1>2, <1>7 DEF Order
  <2> QED BY <2>1, <1>6, <1>7
<1>8. CASE s \notin new /\ t \notin new
  BY <1>3, <1>4, <1>8 DEF Apart, SaltsApart, Live
<1> QED BY <1>5, <1>7, <1>8

LEMMA SlotOrder ==
    ASSUME NEW members \in SUBSET Slots, NEW seedOf
    PROVE  Order([s \in members |-> s], seedOf)
BY SlotsAssumption DEF Order

LEMMA SynchronizedApart ==
    ASSUME NEW table, Apart(table), NEW members \in SUBSET Slots, NEW seedOf, NEW reset,
           Salting, NEW after \in Synchronized(table, members, seedOf, reset, Salting)
    PROVE  Apart(after)
<1> DEFINE changes == ChangedMembers(table, members, seedOf)
           base == Cleared(table, Slots \ members)
<1>1. after \in Registered(base, [s \in changes |-> s], seedOf, Salting)
  BY DEF Synchronized
<1>2. changes \in SUBSET Slots
  BY DEF ChangedMembers
<1>3. Apart(base)
  BY ClearedApart
<1> QED BY <1>1, <1>2, <1>3, SlotOrder, RegisteredApart

\* apply_slot_remap: no stream is copied to two slots, so no two get its salt.
LEMMA RemappedApart ==
    ASSUME NEW table, Apart(table), NEW moves \in [Slots -> Slots], ValidRemap(moves)
    PROVE  Apart(Remapped(table, moves))
<1> DEFINE after == Remapped(table, moves)
           from(s) == IF s \in Targets(moves) THEN moves[s] ELSE s
<1>1. \A s \in Live(after) : after[s] = table[from(s)] /\ from(s) \in Live(table)
  BY DEF Remapped, Live, Targets, Sources, EmptyStream
<1>2. \A s, t \in Live(after) : s # t => from(s) # from(t)
  BY DEF Remapped, Live, Targets, Sources, EmptyStream, ValidRemap
<1>3. SaltsApart(after)
  BY <1>1, <1>2 DEF Apart, SaltsApart
<1>4. Shaped(after)
  BY DEF Apart, Shaped, Remapped, Targets, EmptyStream
<1> QED BY <1>3, <1>4 DEF Apart

LEMMA DrawnKeeps ==
    ASSUME NEW table, Shaped(table), NEW s \in Slots, NEW position
    PROVE  LET after == Drawn(table[s], position) IN
           /\ after.active = table[s].active
           /\ after.seed = table[s].seed
           /\ after.salt = table[s].salt
           /\ DOMAIN after = DOMAIN table[s]
<1> DEFINE stream == table[s]
<1>1. "active" \in DOMAIN stream /\ "seed" \in DOMAIN stream /\ "salt" \in DOMAIN stream
  BY DEF Shaped
<1> HIDE DEF stream
<1>2. \A c, l, d :
         LET after == [stream EXCEPT !.counter = c, !.last = l, !.current = d] IN
         /\ after.active = stream.active
         /\ after.seed = stream.seed
         /\ after.salt = stream.salt
         /\ DOMAIN after = DOMAIN stream
  BY <1>1
<1> QED BY <1>2 DEF Drawn, stream

\* refresh: a draw moves a stream on, and leaves its salt.
LEMMA AdvancedApart ==
    ASSUME NEW table, Apart(table), NEW members, NEW positions
    PROVE  Apart(Advanced(table, members, positions))
<1> DEFINE after == Advanced(table, members, positions)
<1>1. \A s \in Slots : /\ after[s].active = table[s].active
                       /\ after[s].seed = table[s].seed
                       /\ after[s].salt = table[s].salt
                       /\ DOMAIN after[s] = DOMAIN table[s]
  BY DrawnKeeps DEF Apart, Advanced
<1> HIDE DEF after
<1>2. SaltsApart(after)
  BY <1>1 DEF Apart, SaltsApart, Live
<1>3. Shaped(after)
  BY <1>1 DEF Apart, Shaped
<1> QED BY <1>2, <1>3 DEF Apart, after

-----------------------------------------------------------------------------
(* The operations of a lane that salts. *)

\* A lane whose streams are apart.
Sound(l) == "seeds" \in DOMAIN l /\ Apart(l.seeds)

LEMMA OtherFields ==
    ASSUME NEW l, Sound(l), NEW h, NEW v, NEW m, NEW i, NEW p, NEW r
    PROVE  /\ Sound([l EXCEPT !.history = h])
           /\ Sound([l EXCEPT !.rows = r])
           /\ Sound([l EXCEPT !.history = h, !.valid = v])
           /\ Sound([l EXCEPT !.params = p, !.history = h, !.mask = m, !.identity = i, !.valid = v])
BY DEF Sound

LEMMA NewSeeds ==
    ASSUME NEW l, Sound(l), NEW table, Apart(table), NEW m, NEW i, NEW p, NEW r
    PROVE  /\ Sound([l EXCEPT !.seeds = table])
           /\ Sound([l EXCEPT !.seeds = table, !.params = p, !.mask = m, !.rows = r])
           /\ Sound([l EXCEPT !.seeds = table, !.mask = m, !.identity = i, !.params = p])
BY DEF Sound

LEMMA AdmitPrefillSound ==
    ASSUME Sound(lane), Salting, remap \in [Slots -> Slots],
           NEW n \in Nat, NEW slots \in [1 .. n -> Slots], NEW who,
           NEW l \in AdmitPrefill(lane, slots, who, remap)
    PROVE  Sound(l)
<1> DEFINE moved == Remapped(lane.seeds, remap)
           members == Range(slots)
           rank == [s \in members |-> CHOOSE i \in DOMAIN slots : slots[i] = s]
           ask == [s \in Slots |-> IF s \in members THEN Asks[who[rank[s]]] ELSE NoAsk]
           placed == [mask |-> members, ask |-> ask, path |-> PathOf(members, ask)]
           positions == [s \in Slots |-> 0]
           table(admitted) == IF placed.path = "topk" THEN Advanced(admitted, members, positions)
                              ELSE admitted
<1>1. PICK admitted \in Admitted(moved, rank, SeedsOf(placed), Salting) :
         "seeds" \in DOMAIN l /\ l.seeds = table(admitted)
  <2> DEFINE asks == [i \in DOMAIN who |-> Asks[who[i]].penalty]
             histories == [i \in DOMAIN who |-> [of |-> who[i], counted |-> 0]]
             lanes(admitted) ==
                 [seeds |-> table(admitted),
                  rows |-> IF placed.path = "topk" THEN PrefillRows(table(admitted), slots)
                           ELSE DefaultRows,
                  params |-> [s \in Slots |-> InPrefillRow(asks, None, s)],
                  history |-> [s \in Slots |-> InPrefillRow(histories, NoHistory, s)],
                  identity |-> IdentityOf(placed),
                  valid |-> HistoryValidAfterPrefill(placed, Live(moved) \ members),
                  mask |-> Live(table(admitted))]
  <2>1. l \in {lanes(admitted) : admitted \in Admitted(moved, rank, SeedsOf(placed), Salting)}
    BY DEF AdmitPrefill
  <2>2. PICK admitted \in Admitted(moved, rank, SeedsOf(placed), Salting) : l = lanes(admitted)
    BY <2>1
  <2>3. "seeds" \in DOMAIN l /\ l.seeds = table(admitted)
    BY <2>2
  <2> QED BY <2>3
<1>2. ValidRemap(remap)
  BY DEF AdmitPrefill
<1>3. Apart(moved)
  BY <1>2, RemappedApart DEF Sound
<1>4. \A s \in members : rank[s] \in DOMAIN slots /\ slots[rank[s]] = s
  BY DEF Range
<1>5. Order(rank, SeedsOf(placed))
  <2>1. DOMAIN rank = members /\ members \subseteq Slots
    BY DEF Range
  <2> HIDE DEF rank
  <2>2. \A s \in members : rank[s] \in Int
    BY <1>4
  <2>3. \A s, t \in members : rank[s] = rank[t] => s = t
    BY <1>4
  <2> QED BY <2>1, <2>2, <2>3 DEF Order
<1>6. Apart(admitted)
  BY <1>1, <1>3, <1>5, RegisteredApart DEF Admitted
<1>7. Apart(Advanced(admitted, members, positions))
  BY <1>6, AdvancedApart
<1> QED BY <1>1, <1>6, <1>7 DEF Sound

LEMMA RebuiltSound ==
    ASSUME NEW l, Sound(l), NEW p
    PROVE  Sound(Rebuilt(l, p))
BY OtherFields DEF Rebuilt

LEMMA ApplySlotRemapSound ==
    ASSUME NEW l, Sound(l), Salting, NEW moves \in [Slots -> Slots],
           NEW p, p.mask \in SUBSET Slots, NEW m \in ApplySlotRemap(l, p, moves)
    PROVE  Sound(m)
<1> DEFINE moved == Remapped(l.seeds, moves)
           new == {s \in p.mask : ~moved[s].active}
<1>1. PICK admitted \in Admitted(moved, [s \in new |-> s], SeedsOf(p), Salting) :
         \E synced \in Synchronized(admitted, p.mask, SeedsOf(p), FALSE, Salting) :
             m = Rebuilt([l EXCEPT !.seeds = synced], p)
  BY DEF ApplySlotRemap
<1>2. PICK synced \in Synchronized(admitted, p.mask, SeedsOf(p), FALSE, Salting) :
         m = Rebuilt([l EXCEPT !.seeds = synced], p)
  BY <1>1
<1>3. Apart(moved)
  BY RemappedApart DEF ApplySlotRemap, Sound
<1>4. Apart(admitted)
  BY <1>1, <1>3, SlotOrder, RegisteredApart DEF Admitted
<1>5. Apart(synced)
  BY <1>2, <1>4, SynchronizedApart
<1> QED BY <1>2, <1>5, NewSeeds, RebuiltSound

\* synchronize_decode is a remap, a synchronization of the seeds, and the call's values.
Starts(l, p, moves) == IF moves = Identity THEN {l} ELSE ApplySlotRemap(l, p, moves)

SynchronizedLane(l, p, synced, reset) ==
    IF reset THEN Rebuilt([l EXCEPT !.seeds = synced], p)
    ELSE [l EXCEPT !.seeds = synced, !.mask = p.mask, !.identity = IdentityOf(p),
                   !.params = ParamsOf(p)]

LEMMA SynchronizeDecodeMakes ==
    ASSUME NEW l, NEW moves, NEW p, NEW reset, NEW m \in SynchronizeDecode(l, p, moves, reset)
    PROVE  \E k \in Starts(l, p, moves) :
             \E synced \in Synchronized(k.seeds, p.mask, SeedsOf(p), reset, Salting) :
               m = SynchronizedLane(k, p, synced, reset)
<1> DEFINE starts == Starts(l, p, moves)
           made(k, synced) == SynchronizedLane(k, p, synced, reset)
           synced_(k) == {k} \X Synchronized(k.seeds, p.mask, SeedsOf(p), reset, Salting)
<1>1. m \in {made(pair[1], pair[2]) :
               pair \in UNION {synced_(k) : k \in {k \in starts : k.identity # None \/ reset}}}
  BY DEF SynchronizeDecode, Starts, SynchronizedLane
<1>2. PICK pair \in UNION {synced_(k) : k \in {k \in starts : k.identity # None \/ reset}} :
         m = made(pair[1], pair[2])
  BY <1>1
<1> HIDE DEF made
<1>3. PICK k \in starts : pair \in synced_(k)
  BY <1>2
<1>4. pair[1] = k /\ pair[2] \in Synchronized(k.seeds, p.mask, SeedsOf(p), reset, Salting)
  BY <1>3
<1> QED BY <1>2, <1>4 DEF made

LEMMA SynchronizeDecodeSound ==
    ASSUME NEW l, Sound(l), Salting, NEW moves \in [Slots -> Slots],
           NEW p, p.mask \in SUBSET Slots, NEW reset \in BOOLEAN,
           NEW m \in SynchronizeDecode(l, p, moves, reset)
    PROVE  Sound(m)
<1>1. PICK k \in Starts(l, p, moves) :
         \E synced \in Synchronized(k.seeds, p.mask, SeedsOf(p), reset, Salting) :
           m = SynchronizedLane(k, p, synced, reset)
  <2>1. m \in SynchronizeDecode(l, p, moves, reset)
    OBVIOUS
  <2> QED BY ONLY <2>1, SynchronizeDecodeMakes
<1>2. PICK synced \in Synchronized(k.seeds, p.mask, SeedsOf(p), reset, Salting) :
         m = SynchronizedLane(k, p, synced, reset)
  BY <1>1
<1>3. Sound(k)
  BY <1>1, ApplySlotRemapSound DEF Starts
<1>4. Apart(synced)
  BY <1>2, <1>3, SynchronizedApart DEF Sound
<1>5. Sound([k EXCEPT !.seeds = synced])
  BY <1>3, <1>4, NewSeeds
<1> QED BY <1>2, <1>3, <1>4, <1>5, NewSeeds, RebuiltSound DEF SynchronizedLane

LEMMA RefreshDynamicInputsSound ==
    ASSUME NEW l, Sound(l), NEW p, NEW positions
    PROVE  Sound(RefreshDynamicInputs(l, p, positions))
<1>1. Apart(l.seeds) /\ Apart(Advanced(l.seeds, p.mask, positions))
  BY AdvancedApart DEF Sound
<1> QED BY <1>1 DEF RefreshDynamicInputs, Sound

-----------------------------------------------------------------------------
(* Every step. *)

SaltInv ==
    /\ remap \in [Slots -> Slots]
    /\ Salting => Sound(lane)

LEMMA SaltInit == SamplingInit => SaltInv
<1> SUFFICES ASSUME SamplingInit PROVE SaltInv
  OBVIOUS
<1>1. Apart([s \in Slots |-> EmptyStream])
  BY DEF Apart, SaltsApart, Shaped, Live, EmptyStream
<1>2. Sound(lane)
  BY <1>1 DEF SamplingInit, FreshLane, Sound
<1> QED BY <1>2 DEF SamplingInit, SaltInv, Identity

LEMMA AdmissionKeeps ==
    ASSUME SaltInv, NEW slots \in Batches(Slots), NEW who,
           Prefill(slots, who) \/ PrefillRaises(slots, who)
    PROVE  SaltInv'
<1>1. remap' \in [Slots -> Slots] /\ (Salting' <=> Salting)
  BY DEF Prefill, PrefillRaises, Identity, Salting, Commands
<1>2. ASSUME Salting PROVE Sound(lane')
  <2>1. PICK n \in 1 .. 2 : slots \in [1 .. n -> Slots]
    <3>1. slots \in UNION {[1 .. n -> Slots] : n \in 1 .. 2}
      BY DEF Batches
    <3> QED BY ONLY <3>1
  <2>2. \A l \in AdmitPrefill(lane, slots, who, remap) : Sound(l)
    BY <1>2, <2>1, n \in Nat, AdmitPrefillSound DEF SaltInv
  <2>3. \A l : Sound(l) => Sound(PrefillCounted(l))
    BY OtherFields DEF PrefillCounted
  <2>4. CASE Prefill(slots, who)
    BY <2>2, <2>3, <2>4 DEF Prefill
  <2>5. CASE PrefillRaises(slots, who)
    BY <2>2, <2>5 DEF PrefillRaises
  <2> QED BY <2>4, <2>5
<1> QED BY <1>1, <1>2 DEF SaltInv, Sound

LEMMA SchedulerKeeps ==
    ASSUME SaltInv, (\E s \in Slots : Finish(s)) \/ (\E s, t \in Slots : Reorder(s, t))
    PROVE  SaltInv'
<1>1. lane' = lane /\ contract' = contract /\ remap' \in [Slots -> Slots]
  BY DEF SaltInv, Finish, Reorder
<1> QED BY <1>1 DEF SaltInv, Salting, Commands, Sound

LEMMA SampledKeeps ==
    ASSUME SaltInv, NEW c \in Calls, SampledStep(c)
    PROVE  SaltInv'
<1> DEFINE p == Prepared(c)
<1>1. remap' \in [Slots -> Slots] /\ (Salting' <=> Salting)
  BY DEF SampledStep, Identity, Salting, Commands
<1>2. ASSUME Salting PROVE Sound(lane')
  <2>1. p.mask \in SUBSET Slots
    BY <1>2 DEF Prepared, TakesParams, Salting, Active
  <2> HIDE DEF p
  <2>2. \A l \in RefreshReset(c, p) : Sound(l)
    <3>1. \A l \in SynchronizeDecode(lane, p, remap, c.reset) : Sound(l)
      BY <1>2, <2>1, SynchronizeDecodeSound DEF SaltInv, Calls
    <3> QED BY <3>1, RefreshDynamicInputsSound DEF RefreshReset
  <2>3. PICK l \in RefreshReset(c, p) :
           lane' = IF PenaltiesEnabled(p) THEN [l EXCEPT !.history = Counted(@)] ELSE l
    BY <1>2 DEF SampledStep, Salting, p
  <2> QED BY <2>2, <2>3, OtherFields
<1> QED BY <1>1, <1>2 DEF SaltInv, Sound

LEMMA HostStepKeeps ==
    ASSUME SaltInv, HostStep
    PROVE  SaltInv'
<1>1. remap' \in [Slots -> Slots] /\ (Salting' <=> Salting)
  BY DEF HostStep, Identity, Salting, Commands
<1>2. ASSUME Salting PROVE Sound(lane')
  <2>1. lane' = [lane EXCEPT !.rows = DefaultRows] /\ Sound(lane)
    BY <1>2 DEF HostStep, Salting, SaltInv
  <2> QED BY <2>1, OtherFields
<1> QED BY <1>1, <1>2 DEF SaltInv, Sound

LEMMA SaltNext == SaltInv /\ [SamplingNext]_samplingVars => SaltInv'
<1> SUFFICES ASSUME SaltInv, [SamplingNext]_samplingVars PROVE SaltInv'
  OBVIOUS
<1>1. CASE UNCHANGED samplingVars
  BY <1>1 DEF SaltInv, samplingVars, schedulerVars, Salting, Commands, Sound
<1>2. ASSUME NEW slots \in Batches(Slots), NEW who \in Batches(Requests),
             Prefill(slots, who) \/ PrefillRaises(slots, who)
      PROVE  SaltInv'
  BY <1>2, AdmissionKeeps
<1>3. ASSUME NEW c \in Calls, SampledStep(c) PROVE SaltInv'
  BY <1>3, SampledKeeps
<1> QED BY <1>1, <1>2, <1>3, SchedulerKeeps, HostStepKeeps DEF SamplingNext

\* However requests come, fail, move, end and are reset: on a lane that salts, two live streams
\* of one seed never have one salt, and so never the same draws.
THEOREM SaltsStayDistinct == SamplingSpec => []SaltsDistinct
<1>1. SaltInv => SaltsDistinct
  BY DEF SaltInv, SaltsDistinct, Twinned, Sound, Apart
<1> QED BY <1>1, SaltInit, SaltNext, PTL DEF SamplingSpec

-----------------------------------------------------------------------------
(***************************************************************************)
(* What a request's tokens are sampled with, under both contracts.  With   *)
(* the resets a sampled step takes all it needs from the call.  With the   *)
(* commands it may rely on what the lane has kept since the last call that *)
(* told it: each part of OwnInv says which part of the lane can be relied  *)
(* on, as long as what the scheduler must tell is what untold holds.       *)
(***************************************************************************)

StreamFields == {"active", "seed", "counter", "salt", "last", "current"}
LaneFields == {"seeds", "rows", "params", "history", "identity", "valid", "mask"}

\* Streams are records; those of a lane that does not salt have salt 0.
Plain(table) ==
    \A s \in Slots : /\ DOMAIN table[s] = StreamFields
                     /\ table[s].salt \in Nat
                     /\ ~Salting => table[s].salt = 0

Formed(l) == DOMAIN l = LaneFields /\ Plain(l.seeds)

OwnTypes ==
    /\ request \in [Slots -> Requests \cup {None}]
    /\ generated \in [Slots -> Nat]
    /\ remap \in [Slots -> Slots]
    /\ untold \in {{}, {"members"}, {"params", "members"}}
    /\ Formed(lane)

\* What the request of an active slot asks for.
AskOf(s) == Asks[request[s]]
Greedy(s) == AskOf(s).greedy /\ AskOf(s).mode = "none"

\* The parameters of the last sampled step are those of the requests that still run.
ResidentAsks ==
    Commands /\ (resident # None \/ feedback) /\ "params" \notin untold =>
        /\ \A s \in Active : resident.ask[remap[s]] = AskOf(s)
        /\ resident.path \in {"topk", "argmax"}
        /\ resident.path = "argmax" => \A s \in Active : Greedy(s)

ResidentMembers ==
    Commands /\ feedback /\ ~changed /\ untold = {} => resident.mask = Active

LaneParams ==
    Commands /\ "params" \notin untold => \A s \in Active : lane.params[remap[s]] = AskOf(s).penalty

LaneSeeds ==
    Commands /\ untold = {} => \A s \in Active : lane.seeds[remap[s]].seed = AskOf(s).seed

\* A stream that is not told its position has come as far as its request.
LaneCounters ==
    Commands /\ feedback /\ ~changed /\ untold = {} /\ resident.path = "topk" =>
        \A s \in Active : AskOf(s).seed # None => lane.seeds[s].counter = generated[s] + 1

LaneHistories ==
    untold = {} =>
        \A s \in Active : AskOf(s).penalty # None => lane.history[remap[s]] = HostHistory[s]

\* A token of q is sampled as q asked.
OwnDraw(seen, q) ==
    /\ seen.path = "topk" /\ Asks[q].seed # None =>
         /\ seen.seed # None
         /\ seen.seed.seed = Asks[q].seed
         /\ seen.seed.counter = seen.nth
         /\ ~Salting => seen.seed.salt = 0
    /\ seen.nth > 0 => seen.penalty = Asks[q].penalty
    /\ seen.nth > 0 /\ Asks[q].penalty # None =>
         seen.history = [of |-> q, counted |-> seen.nth - 1]

DrawnOwn == \A q \in Requests : OwnDraw(drawn[q], q)

OwnInv ==
    /\ OwnTypes
    /\ ResidentAsks
    /\ ResidentMembers
    /\ LaneParams
    /\ LaneSeeds
    /\ LaneCounters
    /\ LaneHistories
    /\ DrawnOwn

-----------------------------------------------------------------------------
(* What the methods of the seed manager make of a stream. *)

LEMMA ClearedPlain ==
    ASSUME NEW table, Plain(table), NEW slots
    PROVE  Plain(Cleared(table, slots)) /\ \A s \in Slots \ slots : Cleared(table, slots)[s] = table[s]
BY DEF Plain, Cleared, EmptyStream, StreamFields

LEMMA RegisteredPlain ==
    ASSUME NEW table, Plain(table), NEW rank, DOMAIN rank \subseteq Slots, NEW seedOf,
           NEW after \in Registered(table, rank, seedOf, Salting)
    PROVE  /\ Plain(after)
           /\ \A s \in DOMAIN rank : after[s].seed = seedOf[s]
           /\ \A s \in Slots \ DOMAIN rank : after[s] = table[s]
<1> DEFINE new == DOMAIN rank
           base == Cleared(table, new)
           earlier(s) == {t \in new : rank[t] < rank[s] /\ seedOf[t] = seedOf[s]}
           taken(s, salt) ==
               {base[t].salt : t \in Twins(base, s, seedOf[s])} \cup {salt[t] : t \in earlier(s)}
<1>1. PICK salt \in [new -> 0 .. SaltBound] :
         /\ \A s \in new :
               IF Salting /\ seedOf[s] # None THEN SmallestFree(salt[s], taken(s, salt))
               ELSE salt[s] = 0
         /\ after = [s \in Slots |->
                       IF s \in new
                       THEN [EmptyStream EXCEPT !.active = TRUE, !.seed = seedOf[s],
                                                !.salt = salt[s]]
                       ELSE base[s]]
  BY DEF Registered
<1>2. \A s \in new : /\ DOMAIN after[s] = StreamFields
                     /\ after[s].seed = seedOf[s] /\ after[s].salt = salt[s]
                     /\ ~Salting => salt[s] = 0
  BY <1>1 DEF EmptyStream, StreamFields
<1>3. \A s \in Slots \ new : after[s] = table[s]
  <2>1. \A s \in Slots \ new : base[s] = table[s]
    BY ClearedPlain
  <2>2. \A s \in Slots \ new : after[s] = base[s]
    BY <1>1
  <2> QED BY <2>1, <2>2
<1>4. Plain(after)
  BY <1>2, <1>3 DEF Plain
<1> QED BY <1>2, <1>3, <1>4

LEMMA SynchronizedPlain ==
    ASSUME NEW table, Plain(table), NEW members \in SUBSET Slots, NEW seedOf, NEW reset,
           NEW after \in Synchronized(table, members, seedOf, reset, Salting)
    PROVE  Plain(after) /\ \A s \in members : after[s].seed = seedOf[s]
<1> DEFINE changes == ChangedMembers(table, members, seedOf)
           base == Cleared(table, Slots \ members)
           rank == [s \in changes |-> s]
<1>1. after \in Registered(base, rank, seedOf, Salting)
  BY DEF Synchronized
<1>2. DOMAIN rank = changes /\ changes \subseteq members
  BY DEF ChangedMembers
<1>3. Plain(base) /\ \A s \in members : base[s] = table[s]
  BY ClearedPlain
<1> HIDE DEF base, rank
<1>4. /\ Plain(after)
      /\ \A s \in changes : after[s].seed = seedOf[s]
      /\ \A s \in Slots \ changes : after[s] = base[s]
  BY <1>1, <1>2, <1>3, RegisteredPlain
<1>5. \A s \in members \ changes : table[s].seed = seedOf[s]
  BY DEF ChangedMembers
<1> QED BY <1>3, <1>4, <1>5

LEMMA DecodeResetPlain ==
    ASSUME NEW table, Plain(table), NEW members \in SUBSET Slots, NEW seedOf,
           NEW after \in DecodeReset(table, members, seedOf, Salting)
    PROVE  Plain(after) /\ \A s \in members : after[s].seed = seedOf[s]
<1>1. PICK synced \in Synchronized(table, members, seedOf, TRUE, Salting) :
        after = [s \in Slots |->
                   IF s \in members
                   THEN [synced[s] EXCEPT !.counter = 0, !.last = None, !.current = None]
                   ELSE synced[s]]
  BY DEF DecodeReset
<1>2. Plain(synced) /\ \A s \in members : synced[s].seed = seedOf[s]
  <2>1. PICK reset : reset = TRUE
    OBVIOUS
  <2>2. synced \in Synchronized(table, members, seedOf, reset, Salting)
    BY <1>1, <2>1, Zenon
  <2> QED BY <2>2, SynchronizedPlain
<1>3. ASSUME NEW s \in Slots
      PROVE  /\ DOMAIN after[s] = DOMAIN synced[s]
             /\ after[s].seed = synced[s].seed /\ after[s].salt = synced[s].salt
  BY <1>1, <1>2 DEF Plain, StreamFields
<1> QED BY <1>2, <1>3 DEF Plain

LEMMA ReloadedPlain ==
    ASSUME NEW table, Plain(table), NEW members \in SUBSET Slots, NEW seedOf,
           NEW after \in Reloaded(table, members, seedOf, Salting)
    PROVE  /\ Plain(after)
           /\ \A s \in members : after[s].seed = seedOf[s]
           /\ \A s \in Slots : after[s].counter = table[s].counter
<1> DEFINE changes == {s \in members : table[s].seed # seedOf[s]}
           among(s) == {t \in changes \ {s} : table[t].active /\ seedOf[t] = seedOf[s]}
           taken(s, salt) ==
               {table[t].salt : t \in Twins(table, s, seedOf[s]) \ changes}
               \cup {IF t < s THEN salt[t] ELSE 0 : t \in among(s)}
<1>1. PICK salt \in [changes -> 0 .. SaltBound] :
         /\ \A s \in changes :
               IF Salting /\ seedOf[s] # None THEN SmallestFree(salt[s], taken(s, salt))
               ELSE salt[s] = 0
         /\ after = [s \in Slots |->
                       IF s \in changes
                       THEN [table[s] EXCEPT !.seed = seedOf[s], !.salt = salt[s], !.last = None,
                                             !.current = None]
                       ELSE table[s]]
  BY DEF Reloaded
<1>2. \A s \in changes : /\ DOMAIN after[s] = StreamFields
                         /\ after[s].seed = seedOf[s] /\ after[s].salt = salt[s]
                         /\ after[s].counter = table[s].counter
                         /\ ~Salting => salt[s] = 0
  BY <1>1 DEF Plain, StreamFields
<1>3. \A s \in Slots \ changes : after[s] = table[s]
  BY <1>1
<1>4. Plain(after)
  BY <1>2, <1>3 DEF Plain
<1> QED BY <1>2, <1>3, <1>4

\* What is live after a remap is what was in the slot it came from.
LEMMA RemappedPlain ==
    ASSUME NEW table, Plain(table), NEW moves \in [Slots -> Slots]
    PROVE  /\ Plain(Remapped(table, moves))
           /\ \A s \in Live(Remapped(table, moves)) :
                /\ Remapped(table, moves)[s] = table[moves[s]]
                /\ s \notin Sources(moves) \ Targets(moves)
<1> DEFINE after == Remapped(table, moves)
<1>1. Plain(after)
  BY DEF Plain, Remapped, Targets, EmptyStream, StreamFields
<1>2. ASSUME NEW s \in Live(after)
      PROVE  after[s] = table[moves[s]] /\ s \notin Sources(moves) \ Targets(moves)
  <2>1. s \in Slots /\ after[s].active /\ ~EmptyStream.active
    BY <1>2 DEF Live, EmptyStream
  <2>2. CASE s \in Targets(moves)
    BY <2>1, <2>2 DEF Remapped
  <2>3. CASE s \notin Targets(moves)
    <3>1. moves[s] = s /\ s \notin Sources(moves)
      BY <2>1, <2>3 DEF Remapped, Targets
    <3> QED BY <2>1, <2>3, <3>1 DEF Remapped
  <2> QED BY <2>2, <2>3
<1> QED BY <1>1, <1>2

\* The counter of the next draw of a seeded stream: that of the position, if it is told.
NextCounter(stream, position) == IF position = None THEN stream.counter ELSE position + 1

Draw(stream, counter) == [seed |-> stream.seed, counter |-> counter, salt |-> stream.salt]

LEMMA DrawnPlain ==
    ASSUME NEW stream, DOMAIN stream = StreamFields, NEW position
    PROVE  LET after == Drawn(stream, position) IN
           /\ DOMAIN after = StreamFields
           /\ after.seed = stream.seed /\ after.salt = stream.salt
           /\ stream.seed # None =>
                /\ after.counter = NextCounter(stream, position) + 1
                /\ after.current = Draw(stream, NextCounter(stream, position))
<1> DEFINE after == Drawn(stream, position)
           counter == IF position = None \/ stream.seed = None THEN stream.counter ELSE position + 1
           draw == Draw(stream, counter)
<1>1. CASE after = stream /\ stream.seed = None
  BY <1>1
<1>2. CASE after = [stream EXCEPT !.counter = counter + 1, !.last = position, !.current = draw]
  BY <1>2 DEF StreamFields, NextCounter
<1> QED BY <1>1, <1>2 DEF Drawn, Draw

LEMMA AdvancedPlain ==
    ASSUME NEW table, Plain(table), NEW members \in SUBSET Slots, NEW positions
    PROVE  LET after == Advanced(table, members, positions) IN
           /\ Plain(after)
           /\ \A s \in Slots : after[s].seed = table[s].seed /\ after[s].salt = table[s].salt
           /\ \A s \in members : table[s].seed # None =>
                /\ after[s].counter = NextCounter(table[s], positions[s]) + 1
                /\ after[s].current = Draw(table[s], NextCounter(table[s], positions[s]))
<1> DEFINE after == Advanced(table, members, positions)
           next(s) == NextCounter(table[s], positions[s])
<1>1. \A s \in Slots : after[s] = IF s \in members THEN Drawn(table[s], positions[s]) ELSE table[s]
  BY DEF Advanced
<1>2. \A s \in Slots : DOMAIN table[s] = StreamFields
  BY DEF Plain
<1> HIDE DEF after
<1>3. \A s \in members :
        /\ DOMAIN after[s] = StreamFields
        /\ after[s].seed = table[s].seed /\ after[s].salt = table[s].salt
        /\ table[s].seed # None =>
             /\ after[s].counter = next(s) + 1
             /\ after[s].current = Draw(table[s], next(s))
  BY <1>1, <1>2, DrawnPlain
<1>4. \A s \in Slots : after[s].seed = table[s].seed /\ after[s].salt = table[s].salt
  BY <1>1, <1>3
<1>5. Plain(after)
  BY <1>1, <1>3 DEF Plain
<1> QED BY <1>3, <1>4, <1>5 DEF after

-----------------------------------------------------------------------------
(* The refresh of a sampled step. *)

\* What a step of path `path` finds in a lane for the request of each active slot.
Serves(l, path) ==
    \A s \in Active :
        /\ l.params[s] = AskOf(s).penalty
        /\ AskOf(s).penalty # None => l.history[s] = HostHistory[s]
        /\ l.seeds[s].seed = AskOf(s).seed
        /\ path = "topk" /\ AskOf(s).seed # None =>
             /\ l.seeds[s].counter = generated[s] + 2
             /\ l.rows[s] = [seed |-> AskOf(s).seed, counter |-> generated[s] + 1,
                             salt |-> l.seeds[s].salt]

\* A placement that is the batch with what its requests ask for.
Own(p) ==
    /\ p.mask = Active
    /\ \A s \in Active : p.ask[s] = AskOf(s)
    /\ p.told = HostHistory
    /\ p.path \in {"topk", "argmax"}
    /\ p.path = "argmax" => \A s \in Active : Greedy(s)

LEMMA PreparedOwn ==
    ASSUME OwnInv, NEW c \in Calls, Called(c), PrepareAccepts(c), Commands => CommandsAccepted(c)
    PROVE  /\ Own(Prepared(c))
           /\ ~c.reloadInputs =>
                /\ Commands /\ ~c.reset /\ feedback /\ ~changed /\ untold = {} /\ remap = Identity
                /\ Prepared(c).path = "topk" => resident.path = "topk"
<1> DEFINE p == Prepared(c)
           ask == [s \in Slots |-> IF s \in Active THEN Asks[request[s]] ELSE NoAsk]
<1>1. Active \subseteq Slots /\ c.reloadInputs \in BOOLEAN /\ c.reloadParams \in BOOLEAN /\ c.reset \in BOOLEAN
  BY DEF Active, Calls
<1>2. ~c.reloadInputs => /\ Commands /\ ~c.reset /\ feedback /\ ~changed /\ untold = {}
                         /\ remap = Identity
  BY <1>1 DEF Called, PrepareAccepts, OwnInv, OwnTypes
<1>3. CASE TakesParams(c)
  <2>1. p = [mask |-> Active, ask |-> ask, path |-> PathOf(Active, ask), told |-> HostHistory]
    BY <1>3 DEF Prepared
  <2>2. \A s \in Active : ask[s] = AskOf(s)
    BY <1>1 DEF AskOf
  <2>3. PathOf(Active, ask) \in {"topk", "argmax"}
    BY DEF PathOf
  <2>4. PathOf(Active, ask) = "argmax" <=> \A s \in Active : Greedy(s)
    BY <2>2 DEF PathOf, Greedy
  <2>5. Own(p)
    BY <2>1, <2>2, <2>3, <2>4 DEF Own
  <2>6. ~c.reloadInputs /\ p.path = "topk" => resident.path = "topk"
    <3> SUFFICES ASSUME ~c.reloadInputs, p.path = "topk" PROVE resident.path = "topk"
      OBVIOUS
    <3>1. ~(\A s \in Active : Greedy(s))
      BY <2>1, <2>4
    <3> QED BY <1>2, <3>1 DEF OwnInv, ResidentAsks
  <2> QED BY <1>2, <2>5, <2>6
<1>4. CASE ~TakesParams(c)
  <2>1. /\ Commands /\ ~c.reloadParams /\ resident # None /\ RemappedResident # None
        /\ "params" \notin untold
    BY <1>1, <1>4 DEF TakesParams, PrepareAccepts, Called
  <2>2. p = [mask |-> IF c.reloadInputs THEN Active ELSE RemappedResident.mask,
             ask |-> RemappedResident.ask, path |-> RemappedResident.path, told |-> HostHistory]
    BY <1>4 DEF Prepared
  <2>3. /\ \A s \in Active : RemappedResident.ask[s] = resident.ask[remap[s]]
        /\ RemappedResident.path = resident.path
    <3>1. CASE remap = Identity
      BY <1>1, <3>1 DEF RemappedResident, Identity
    <3>2. CASE remap # Identity
      BY <1>1, <2>1, <3>2 DEF RemappedResident
    <3> QED BY <3>1, <3>2
  <2>4. /\ \A s \in Active : RemappedResident.ask[s] = AskOf(s)
        /\ resident.path \in {"topk", "argmax"}
        /\ resident.path = "argmax" => \A s \in Active : Greedy(s)
    BY <2>1, <2>3 DEF OwnInv, ResidentAsks
  <2>5. ~c.reloadInputs => RemappedResident.mask = Active
    BY <1>2 DEF RemappedResident, OwnInv, ResidentMembers
  <2>6. Own(p)
    BY <2>2, <2>3, <2>4, <2>5 DEF Own
  <2>7. p.path = "topk" => resident.path = "topk"
    BY <2>2, <2>3
  <2> QED BY <1>2, <2>6, <2>7
<1> QED BY <1>3, <1>4

LEMMA RebuiltFormed ==
    ASSUME NEW l, Formed(l), NEW p
    PROVE  /\ Formed(Rebuilt(l, p))
           /\ Rebuilt(l, p).seeds = l.seeds
           /\ Rebuilt(l, p).history = p.told
           /\ Rebuilt(l, p).params = ParamsOf(p)
BY DEF Formed, Rebuilt, LaneFields

LEMMA SeedsFormed ==
    ASSUME NEW l, Formed(l), NEW table, Plain(table)
    PROVE  /\ Formed([l EXCEPT !.seeds = table])
           /\ [l EXCEPT !.seeds = table].seeds = table
           /\ [l EXCEPT !.seeds = table].history = l.history
           /\ [l EXCEPT !.seeds = table].params = l.params
BY DEF Formed, LaneFields

\* apply_slot_remap leaves the histories of the host.
LEMMA ApplySlotRemapFormed ==
    ASSUME NEW l, Formed(l), NEW moves \in [Slots -> Slots], NEW p, p.mask \in SUBSET Slots,
           NEW m \in ApplySlotRemap(l, p, moves)
    PROVE  Formed(m) /\ m.history = p.told
<1> DEFINE moved == Remapped(l.seeds, moves)
           new == {s \in p.mask : ~moved[s].active}
           rank == [s \in new |-> s]
<1>1. PICK admitted \in Admitted(moved, rank, SeedsOf(p), Salting) :
         \E synced \in Synchronized(admitted, p.mask, SeedsOf(p), FALSE, Salting) :
             m = Rebuilt([l EXCEPT !.seeds = synced], p)
  BY DEF ApplySlotRemap
<1>2. PICK synced \in Synchronized(admitted, p.mask, SeedsOf(p), FALSE, Salting) :
         m = Rebuilt([l EXCEPT !.seeds = synced], p)
  BY <1>1
<1>3. Plain(moved)
  BY RemappedPlain DEF Formed
<1>4. DOMAIN rank \subseteq Slots
  OBVIOUS
<1> HIDE DEF moved, rank
<1>5. Plain(admitted)
  BY <1>1, <1>3, <1>4, RegisteredPlain DEF Admitted
<1>6. Plain(synced)
  <2>1. PICK reset : reset = FALSE
    OBVIOUS
  <2>2. synced \in Synchronized(admitted, p.mask, SeedsOf(p), reset, Salting)
    BY <1>2, <2>1, Zenon
  <2> QED BY <1>5, <2>2, SynchronizedPlain
<1>7. Formed([l EXCEPT !.seeds = synced])
  BY <1>6, SeedsFormed
<1> QED BY <1>2, <1>7, RebuiltFormed

\* A lane that was told what to sample with, its seeds not yet drawn.
Told(l) ==
    \A s \in Active :
        /\ l.seeds[s].seed = AskOf(s).seed
        /\ AskOf(s).penalty # None => l.history[s] = HostHistory[s]

LEMMA SynchronizeDecodeTells ==
    ASSUME OwnInv, NEW p, Own(p), NEW reset \in BOOLEAN, "members" \in untold => reset,
           NEW m \in SynchronizeDecode(lane, p, remap, reset)
    PROVE  Formed(m) /\ Told(m)
<1>1. PICK k \in Starts(lane, p, remap) :
         \E synced \in Synchronized(k.seeds, p.mask, SeedsOf(p), reset, Salting) :
           m = SynchronizedLane(k, p, synced, reset)
  BY SynchronizeDecodeMakes
<1>2. PICK synced \in Synchronized(k.seeds, p.mask, SeedsOf(p), reset, Salting) :
         m = SynchronizedLane(k, p, synced, reset)
  BY <1>1
<1>3. p.mask = Active /\ p.mask \in SUBSET Slots /\ p.told = HostHistory
  BY DEF Own, Active
<1>4. Formed(k) /\ ((k = lane /\ remap = Identity) \/ k.history = HostHistory)
  BY <1>1, <1>3, ApplySlotRemapFormed DEF Starts, OwnInv, OwnTypes
<1>5. Plain(synced) /\ \A s \in Active : synced[s].seed = SeedsOf(p)[s]
  BY <1>2, <1>3, <1>4, SynchronizedPlain DEF Formed
<1>6. \A s \in Active : SeedsOf(p)[s] = AskOf(s).seed
  BY <1>3 DEF SeedsOf, Own
<1>7. CASE reset
  <2>1. Formed([k EXCEPT !.seeds = synced]) /\ [k EXCEPT !.seeds = synced].seeds = synced
    BY <1>4, <1>5, SeedsFormed
  <2>2. Formed(m) /\ m.seeds = synced /\ m.history = HostHistory
    BY <1>2, <1>3, <1>7, <2>1, RebuiltFormed DEF SynchronizedLane
  <2> QED BY <1>5, <1>6, <2>2 DEF Told
<1>8. CASE ~reset
  <2>1. Formed(m) /\ m.seeds = synced /\ m.history = k.history
    BY <1>2, <1>4, <1>5, <1>8 DEF SynchronizedLane, Formed, LaneFields
  <2>2. untold = {}
    BY <1>8 DEF OwnInv, OwnTypes
  <2>3. \A s \in Active : AskOf(s).penalty # None => k.history[s] = HostHistory[s]
    BY <1>3, <1>4, <2>2 DEF OwnInv, LaneHistories, Identity
  <2> QED BY <1>5, <1>6, <2>1, <2>3 DEF Told
<1> QED BY <1>7, <1>8

\* The seeds of a lane that was told, drawn where each request has come to.
LEMMA DrawsServe ==
    ASSUME OwnInv, NEW l, Formed(l), Told(l), NEW positions,
           \A s \in Active : AskOf(s).seed # None =>
               NextCounter(l.seeds[s], positions[s]) = generated[s] + 1
    PROVE  LET table == Advanced(l.seeds, Active, positions) IN
           /\ Plain(table)
           /\ \A s \in Active :
                /\ table[s].seed = AskOf(s).seed
                /\ AskOf(s).seed # None =>
                     /\ table[s].counter = generated[s] + 2
                     /\ table[s].current = [seed |-> AskOf(s).seed, counter |-> generated[s] + 1,
                                            salt |-> table[s].salt]
<1> DEFINE table == Advanced(l.seeds, Active, positions)
<1>1. Plain(l.seeds) /\ Active \in SUBSET Slots
  BY DEF Formed, Active
<1>2. Plain(table)
  BY ONLY <1>1, AdvancedPlain
<1>3. \A s \in Active :
        /\ l.seeds[s].seed = AskOf(s).seed /\ s \in Slots /\ generated[s] \in Nat
        /\ DOMAIN l.seeds[s] = StreamFields
        /\ table[s] = Drawn(l.seeds[s], positions[s])
  BY <1>1 DEF Told, Plain, OwnInv, OwnTypes, Advanced
<1> HIDE DEF table
<1>4. \A s \in Active :
        /\ table[s].seed = AskOf(s).seed /\ table[s].salt = l.seeds[s].salt
        /\ AskOf(s).seed # None =>
             /\ table[s].counter = NextCounter(l.seeds[s], positions[s]) + 1
             /\ table[s].current = Draw(l.seeds[s], NextCounter(l.seeds[s], positions[s]))
  BY <1>3, DrawnPlain
<1>5. ASSUME NEW s \in Active, AskOf(s).seed # None
      PROVE  /\ table[s].counter = generated[s] + 2
             /\ table[s].current = [seed |-> AskOf(s).seed, counter |-> generated[s] + 1,
                                    salt |-> table[s].salt]
  <2>1. table[s].counter = generated[s] + 1 + 1 /\ table[s].current = Draw(l.seeds[s], generated[s] + 1)
    BY <1>4, <1>5
  <2>2. l.seeds[s].seed = AskOf(s).seed /\ l.seeds[s].salt = table[s].salt
    BY <1>3, <1>4
  <2>3. table[s].current = Draw(l.seeds[s], generated[s] + 1)
    BY <2>1
  <2>4. Draw(l.seeds[s], generated[s] + 1) =
          [seed |-> AskOf(s).seed, counter |-> generated[s] + 1, salt |-> table[s].salt]
    BY <2>2 DEF Draw
  <2>5. table[s].counter = generated[s] + 2
    BY <1>3, <2>1
  <2> QED BY ONLY <2>3, <2>4, <2>5
<1> QED BY <1>2, <1>4, <1>5 DEF table

LEMMA ResetServes ==
    ASSUME OwnInv, ~Commands, NEW p, Own(p), NEW c \in Calls, Called(c), NEW l \in RefreshReset(c, p)
    PROVE  Formed(l) /\ Serves(l, p.path)
<1>1. PICK m \in SynchronizeDecode(lane, p, remap, c.reset) : l = RefreshDynamicInputs(m, p, Positions)
  BY DEF RefreshReset
<1>2. Formed(m) /\ Told(m)
  BY <1>1, SynchronizeDecodeTells DEF Called, Calls
<1> DEFINE drawnTable == Advanced(m.seeds, Active, Positions)
           table == IF p.path = "topk" THEN drawnTable ELSE m.seeds
<1>3. \A s \in Active : NextCounter(m.seeds[s], Positions[s]) = generated[s] + 1
  BY SeedsAssumption DEF NextCounter, Positions, OwnInv, OwnTypes, Active
<1>4. /\ Plain(drawnTable)
      /\ \A s \in Active :
           /\ drawnTable[s].seed = AskOf(s).seed
           /\ AskOf(s).seed # None =>
                /\ drawnTable[s].counter = generated[s] + 2
                /\ drawnTable[s].current = [seed |-> AskOf(s).seed, counter |-> generated[s] + 1,
                                            salt |-> drawnTable[s].salt]
  BY <1>2, <1>3, DrawsServe
<1>5. l = [m EXCEPT !.seeds = table, !.params = ParamsOf(p), !.mask = p.mask,
                    !.rows = IF p.path = "topk" THEN RowsOf(table, p.mask) ELSE DefaultRows]
  BY <1>1 DEF RefreshDynamicInputs, Own
<1> HIDE DEF drawnTable
<1>6. /\ DOMAIN l = LaneFields /\ l.seeds = table /\ l.params = ParamsOf(p)
      /\ l.history = m.history
      /\ p.path = "topk" => l.rows = RowsOf(table, p.mask)
  BY <1>2, <1>5 DEF Formed, LaneFields
<1>7. Formed(l)
  BY <1>2, <1>4, <1>6 DEF Formed
<1>8. \A s \in Active : l.params[s] = AskOf(s).penalty
  BY <1>6 DEF ParamsOf, Own, Active
<1>9. p.path = "topk" => \A s \in Active : l.rows[s] = drawnTable[s].current
  BY <1>6 DEF RowsOf, Own, Active
<1> QED BY <1>2, <1>4, <1>6, <1>7, <1>8, <1>9 DEF Serves, Told

\* remap_slots moves what a continuing request needs into its slot.
LEMMA RemapSlotsMoves ==
    ASSUME OwnInv
    PROVE  LET m == RemapSlots(lane, remap) IN
           /\ Formed(m)
           /\ remap = Identity => m = lane
           /\ \A s \in Slots : m.params[s] = lane.params[remap[s]]
           /\ \A s \in Live(Remapped(lane.seeds, remap)) :
                m.seeds[s] = lane.seeds[remap[s]] /\ m.history[s] = lane.history[remap[s]]
<1> DEFINE m == RemapSlots(lane, remap)
           moved == Remapped(lane.seeds, remap)
<1>1. /\ DOMAIN lane = LaneFields /\ Plain(lane.seeds) /\ remap \in [Slots -> Slots]
      /\ Live(moved) \subseteq Slots
  BY DEF OwnInv, OwnTypes, Formed, Live
<1>2. /\ Plain(moved)
      /\ \A s \in Live(moved) : moved[s] = lane.seeds[remap[s]] /\ s \notin Sources(remap) \ Targets(remap)
  BY <1>1, RemappedPlain
<1>3. CASE remap = Identity
  <2>1. m = lane /\ \A s \in Slots : remap[s] = s
    BY <1>3 DEF RemapSlots, Identity
  <2> QED BY <1>1, <2>1 DEF OwnInv, OwnTypes
<1>4. CASE remap # Identity
  <2> DEFINE histories == [s \in Slots |-> IF s \in Sources(remap) \ Targets(remap) THEN NoHistory
                                            ELSE lane.history[remap[s]]]
             params == [s \in Slots |-> lane.params[remap[s]]]
  <2>1. m = [lane EXCEPT !.seeds = moved, !.mask = Live(moved), !.rows = CurrentRows(moved),
                         !.params = params, !.history = histories]
    BY <1>4 DEF RemapSlots
  <2> HIDE DEF moved
  <2>2. DOMAIN m = LaneFields /\ m.seeds = moved /\ m.params = params /\ m.history = histories
    BY <1>1, <2>1 DEF LaneFields
  <2>3. Formed(m)
    BY <1>2, <2>2 DEF Formed
  <2> HIDE DEF m
  <2>4. \A s \in Live(moved) : m.seeds[s] = lane.seeds[remap[s]] /\ m.history[s] = lane.history[remap[s]]
    BY <1>1, <1>2, <2>2
  <2> QED BY <1>4, <2>2, <2>3, <2>4 DEF m, moved
<1> QED BY <1>3, <1>4

\* The call and the lane together tell the lane what to sample with.
LEMMA CommandsTell ==
    ASSUME OwnInv, Commands, NEW c \in Calls, Called(c), NEW p, Own(p), CommandsAccepted(c),
           p = Prepared(c), NEW moved, moved = RemapSlots(lane, remap),
           NEW l \in IF c.reset THEN ResetDecodeState(moved, p, c.reloadParams)
                     ELSE ConfigureDecode(moved, p, c.reloadParams)
    PROVE  /\ Formed(l) /\ Told(l)
           /\ \A s \in Active : l.params[s] = AskOf(s).penalty
           /\ ~c.reset => \A s \in Slots : l.seeds[s].counter = moved.seeds[s].counter
<1>1. /\ p.mask = Active /\ p.mask \in SUBSET Slots /\ p.told = HostHistory
      /\ \A s \in Active : SeedsOf(p)[s] = AskOf(s).seed
      /\ \A s \in Active : ParamsOf(p)[s] = AskOf(s).penalty
  BY DEF Own, Active, SeedsOf, ParamsOf
<1>2. /\ Formed(moved)
      /\ \A s \in Slots : moved.params[s] = lane.params[remap[s]]
      /\ \A s \in Live(Remapped(lane.seeds, remap)) :
           moved.seeds[s] = lane.seeds[remap[s]] /\ moved.history[s] = lane.history[remap[s]]
  BY RemapSlotsMoves
<1>3. ~c.reloadParams => \A s \in Active : moved.params[s] = AskOf(s).penalty
  BY <1>1, <1>2 DEF Called, OwnInv, LaneParams
<1>4. CASE c.reset
  <2>1. PICK table \in DecodeReset(moved.seeds, p.mask, SeedsOf(p), Salting) :
          l = [Rebuilt(moved, p) EXCEPT !.seeds = table,
                                        !.params = IF c.reloadParams THEN @ ELSE moved.params]
    BY <1>4 DEF ResetDecodeState
  <2>2. Plain(table) /\ \A s \in Active : table[s].seed = SeedsOf(p)[s]
    <3>1. Plain(moved.seeds) /\ p.mask \in SUBSET Slots
      BY <1>1, <1>2 DEF Formed
    <3>2. Plain(table) /\ \A s \in p.mask : table[s].seed = SeedsOf(p)[s]
      <4>1. table \in DecodeReset(moved.seeds, p.mask, SeedsOf(p), Salting)
        OBVIOUS
      <4>2. Plain(table)
        BY ONLY <3>1, <4>1, DecodeResetPlain
      <4>3. \A s \in p.mask : table[s].seed = SeedsOf(p)[s]
        BY ONLY <3>1, <4>1, DecodeResetPlain
      <4> QED BY <4>2, <4>3
    <3> QED BY <1>1, <3>2
  <2>3. /\ DOMAIN Rebuilt(moved, p) = LaneFields
        /\ Rebuilt(moved, p).history = HostHistory /\ Rebuilt(moved, p).params = ParamsOf(p)
    BY <1>1, <1>2 DEF Formed, Rebuilt, LaneFields
  <2>4. /\ DOMAIN l = LaneFields /\ l.seeds = table /\ l.history = HostHistory
        /\ l.params = IF c.reloadParams THEN ParamsOf(p) ELSE moved.params
    BY <2>1, <2>3 DEF LaneFields
  <2> QED BY <1>1, <1>3, <1>4, <2>2, <2>4 DEF Formed, Told
<1>5. CASE ~c.reset
  <2>1. untold = {} /\ Live(Remapped(lane.seeds, remap)) = Active
    BY <1>1, <1>5 DEF Called, CommandsAccepted, OwnInv, OwnTypes
  <2>2. \A s \in Active :
          /\ moved.seeds[s].seed = AskOf(s).seed
          /\ AskOf(s).penalty # None => moved.history[s] = HostHistory[s]
    BY <1>2, <2>1 DEF OwnInv, LaneSeeds, LaneHistories
  <2>3. CASE ~c.reloadParams
    <3>1. l = moved
      BY <1>5, <2>3 DEF ConfigureDecode
    <3> QED BY <1>2, <1>3, <2>2, <2>3, <3>1 DEF Told
  <2>4. CASE c.reloadParams
    <3>1. PICK table \in Reloaded(moved.seeds, p.mask, SeedsOf(p), Salting) :
            l = [moved EXCEPT !.seeds = table, !.params = ParamsOf(p), !.identity = IdentityOf(p)]
      BY <1>5, <2>4 DEF ConfigureDecode
    <3>2. /\ Plain(table)
          /\ \A s \in Active : table[s].seed = SeedsOf(p)[s]
          /\ \A s \in Slots : table[s].counter = moved.seeds[s].counter
      <4>1. Plain(moved.seeds) /\ p.mask \in SUBSET Slots
        BY <1>1, <1>2 DEF Formed
      <4>2. table \in Reloaded(moved.seeds, p.mask, SeedsOf(p), Salting)
        OBVIOUS
      <4>3. Plain(table)
        BY ONLY <4>1, <4>2, ReloadedPlain
      <4>4. \A s \in p.mask : table[s].seed = SeedsOf(p)[s]
        BY ONLY <4>1, <4>2, ReloadedPlain
      <4>5. \A s \in Slots : table[s].counter = moved.seeds[s].counter
        <5>1. PICK old : old = moved.seeds
          OBVIOUS
        <5>2. Plain(old) /\ p.mask \in SUBSET Slots /\ table \in Reloaded(old, p.mask, SeedsOf(p), Salting)
          BY <4>1, <4>2, <5>1
        <5>3. \A s \in Slots : table[s].counter = old[s].counter
          BY ONLY <5>2, ReloadedPlain
        <5> QED BY <5>1, <5>3
      <4> QED BY <1>1, <4>3, <4>4, <4>5
    <3>3. DOMAIN l = LaneFields /\ l.seeds = table /\ l.history = moved.history /\ l.params = ParamsOf(p)
      BY <1>2, <3>1 DEF Formed, LaneFields
    <3> QED BY <1>1, <2>2, <3>2, <3>3 DEF Formed, Told
  <2> QED BY <2>3, <2>4
<1> QED BY <1>4, <1>5

LEMMA CommandsServe ==
    ASSUME OwnInv, Commands, NEW c \in Calls, Called(c), PrepareAccepts(c), CommandsAccepted(c),
           NEW p, p = Prepared(c), NEW l \in RefreshCommands(c, p)
    PROVE  Formed(l) /\ Serves(l, p.path)
<1> DEFINE moved == RemapSlots(lane, remap)
           positions == IF c.reloadInputs THEN Positions ELSE Unpositioned
           refreshed(m) ==
               LET table == Advanced(m.seeds, p.mask, positions)
               IN IF p.path = "topk" THEN [m EXCEPT !.seeds = table, !.rows = RowsOf(table, p.mask)]
                  ELSE IF c.reset \/ c.reloadParams THEN [m EXCEPT !.rows = DefaultRows]
                  ELSE m
<1>1. PICK m \in (IF c.reset THEN ResetDecodeState(moved, p, c.reloadParams)
                  ELSE ConfigureDecode(moved, p, c.reloadParams)) : l = refreshed(m)
  BY DEF RefreshCommands
<1>2. /\ Own(p)
      /\ ~c.reloadInputs => /\ ~c.reset /\ feedback /\ ~changed /\ untold = {} /\ remap = Identity
                            /\ p.path = "topk" => resident.path = "topk"
  BY PreparedOwn
<1>3. /\ Formed(m) /\ Told(m)
      /\ \A s \in Active : m.params[s] = AskOf(s).penalty
      /\ ~c.reset => \A s \in Slots : m.seeds[s].counter = moved.seeds[s].counter
  BY <1>1, <1>2, CommandsTell
<1>4. CASE p.path # "topk"
  <2>1. /\ DOMAIN l = LaneFields /\ l.seeds = m.seeds /\ l.history = m.history /\ l.params = m.params
    BY <1>1, <1>3, <1>4 DEF Formed, LaneFields
  <2> QED BY <1>3, <1>4, <2>1 DEF Formed, Serves, Told
<1>5. CASE p.path = "topk"
  <2>1. ASSUME NEW s \in Active, AskOf(s).seed # None
        PROVE  NextCounter(m.seeds[s], positions[s]) = generated[s] + 1
    <3>1. s \in Slots /\ generated[s] \in Nat
      BY DEF Active, OwnInv, OwnTypes
    <3>2. CASE c.reloadInputs
      BY <3>1, <3>2, SeedsAssumption DEF NextCounter, Positions
    <3>3. CASE ~c.reloadInputs
      <4>1. moved = lane
        BY <1>2, <3>3, RemapSlotsMoves
      <4>2. lane.seeds[s].counter = generated[s] + 1
        BY <1>2, <1>5, <2>1, <3>3 DEF OwnInv, LaneCounters
      <4>3. m.seeds[s].counter = generated[s] + 1
        BY <1>2, <1>3, <3>1, <3>3, <4>1, <4>2
      <4> QED BY <3>1, <3>3, <4>3 DEF NextCounter, Unpositioned
    <3> QED BY <3>2, <3>3
  <2> DEFINE table == Advanced(m.seeds, Active, positions)
  <2>2. /\ Plain(table)
        /\ \A s \in Active :
             /\ table[s].seed = AskOf(s).seed
             /\ AskOf(s).seed # None =>
                  /\ table[s].counter = generated[s] + 2
                  /\ table[s].current = [seed |-> AskOf(s).seed, counter |-> generated[s] + 1,
                                         salt |-> table[s].salt]
    <3> HIDE DEF positions
    <3> QED BY <1>3, <2>1, DrawsServe
  <2>3. l = [m EXCEPT !.seeds = table, !.rows = RowsOf(table, Active)]
    BY <1>1, <1>2, <1>5 DEF Own
  <2> HIDE DEF table
  <2>4. /\ DOMAIN l = LaneFields /\ l.seeds = table /\ l.history = m.history /\ l.params = m.params
        /\ l.rows = RowsOf(table, Active)
    BY <1>3, <2>3 DEF Formed, LaneFields
  <2>5. \A s \in Active : l.rows[s] = table[s].current
    BY <2>4 DEF RowsOf, Active
  <2> QED BY <1>3, <2>2, <2>4, <2>5 DEF Formed, Serves, Told
<1> QED BY <1>4, <1>5

-----------------------------------------------------------------------------
(* What a sampled step draws, and what it leaves. *)

\* What the row of slot s gives its request is what the request asked for.
LEMMA ObservedOwn ==
    ASSUME OwnInv, NEW l, Formed(l), NEW path, Serves(l, path), NEW s \in Active,
           NEW seen, seen = Observed(l, s, generated[s] + 1, path)
    PROVE  OwnDraw(seen, request[s])
<1>1. /\ s \in Slots /\ generated[s] \in Nat /\ request[s] \in Requests
      /\ AskOf(s).seed \in Seeds \cup {None}
      /\ l.seeds[s].salt \in Nat /\ (~Salting => l.seeds[s].salt = 0)
  BY AsksAssumption DEF Active, OwnInv, OwnTypes, AskOf, Ask, Formed, Plain
<1>2. seen = [nth |-> generated[s] + 1, path |-> path, seed |-> l.rows[s],
              penalty |-> l.params[s], history |-> l.history[s]]
  BY DEF Observed
<1>3. ASSUME path = "topk", AskOf(s).seed # None
      PROVE  /\ seen.seed # None
             /\ seen.seed.seed = AskOf(s).seed
             /\ seen.seed.counter = seen.nth
             /\ ~Salting => seen.seed.salt = 0
  <2>1. seen.seed = [seed |-> AskOf(s).seed, counter |-> generated[s] + 1,
                     salt |-> l.seeds[s].salt]
    BY <1>2, <1>3 DEF Serves
  <2>2. seen.seed \in DeviceSeed
    BY <1>1, <2>1 DEF DeviceSeed
  <2> QED BY <1>1, <1>2, <2>1, <2>2, DeviceSeedAssumption
<1>4. AskOf(s).penalty # None => seen.history = [of |-> request[s], counted |-> seen.nth - 1]
  <2>1. AskOf(s).penalty # None => l.history[s] = HostHistory[s]
    BY DEF Serves
  <2>2. HostHistory[s] = [of |-> request[s], counted |-> generated[s]]
    BY <1>1 DEF HostHistory, Active
  <2>3. seen.history = l.history[s] /\ seen.nth - 1 = generated[s]
    BY <1>1, <1>2
  <2> QED BY <2>1, <2>2, <2>3
<1>5. l.params[s] = AskOf(s).penalty
  BY DEF Serves
<1>6. seen.path = path /\ seen.penalty = l.params[s]
  BY <1>2
<1>7. AskOf(s) = Asks[request[s]]
  BY DEF AskOf
<1> QED BY <1>3, <1>4, <1>5, <1>6, <1>7 DEF OwnDraw

LEMMA SampledOwn ==
    ASSUME OwnInv, NEW c \in Calls, SampledStep(c)
    PROVE  OwnInv'
<1>1. PICK p : p = Prepared(c)
  OBVIOUS
<1>2. PICK l \in IF Commands THEN RefreshCommands(c, p) ELSE RefreshReset(c, p) :
         /\ lane' = IF PenaltiesEnabled(p) THEN [l EXCEPT !.history = Counted(@)] ELSE l
         /\ drawn' = [q \in Requests |->
                        IF \E s \in Active : request[s] = q
                        THEN LET s == CHOOSE t \in Active : request[t] = q
                             IN Observed(l, s, generated[s] + 1, p.path)
                        ELSE drawn[q]]
  BY <1>1 DEF SampledStep
<1>3. Called(c) /\ PrepareAccepts(c) /\ (Commands => CommandsAccepted(c))
  BY DEF SampledStep
<1>4. Own(p)
  BY <1>1, <1>3, PreparedOwn
<1>5. Formed(l) /\ Serves(l, p.path)
  BY <1>1, <1>2, <1>3, <1>4, ResetServes, CommandsServe
<1>6. /\ request' = request /\ contract' = contract /\ Active' = Active
      /\ remap' = Identity /\ untold' = {} /\ changed' = FALSE
      /\ resident' = [mask |-> p.mask, ask |-> p.ask, path |-> p.path]
      /\ generated' = [s \in Slots |-> IF s \in Active THEN generated[s] + 1 ELSE generated[s]]
      /\ \A s : AskOf(s)' = AskOf(s)
  BY <1>1 DEF SampledStep, Active, AskOf
<1>7. /\ Active \subseteq Slots /\ \A s \in Slots : generated[s] \in Nat
      /\ \A s \in Active : request[s] # None
  BY DEF Active, OwnInv, OwnTypes
<1>8. /\ Formed(lane') /\ lane'.params = l.params /\ lane'.seeds = l.seeds
      /\ lane'.history = IF PenaltiesEnabled(p) THEN Counted(l.history) ELSE l.history
  BY <1>2, <1>5 DEF Formed, LaneFields
<1>9. \A s \in Active : AskOf(s).penalty # None =>
        lane'.history[s] = [of |-> request[s], counted |-> generated[s] + 1]
  <2> SUFFICES ASSUME NEW s \in Active, AskOf(s).penalty # None
               PROVE  lane'.history[s] = [of |-> request[s], counted |-> generated[s] + 1]
    OBVIOUS
  <2>1. l.history[s] = [of |-> request[s], counted |-> generated[s]]
    BY <1>5, <1>7 DEF Serves, HostHistory
  <2>2. PenaltiesEnabled(p)
    BY <1>4 DEF PenaltiesEnabled, Own
  <2>3. l.history[s] # NoHistory
    BY <1>7, <2>1 DEF NoHistory
  <2>4. lane'.history[s] = [l.history[s] EXCEPT !.counted = @ + 1]
    BY <1>7, <1>8, <2>2, <2>3 DEF Counted
  <2> QED BY <2>1, <2>4
<1>10. OwnTypes'
  BY <1>6, <1>7, <1>8 DEF OwnInv, OwnTypes, Identity, Formed, Plain, Salting, Commands
<1>11. \A s \in Active : remap'[s] = s /\ generated'[s] = generated[s] + 1
  BY <1>6, <1>7 DEF Identity
<1>12. ResidentAsks'
  BY <1>4, <1>6, <1>11 DEF ResidentAsks, Own, Greedy, AskOf
<1>13. ResidentMembers'
  BY <1>4, <1>6 DEF ResidentMembers, Own
<1>14. LaneParams' /\ LaneSeeds'
  <2>1. \A s \in Active : /\ lane'.params[s] = AskOf(s).penalty
                          /\ lane'.seeds[s].seed = AskOf(s).seed
    BY <1>5, <1>8 DEF Serves
  <2> QED BY <1>6, <1>11, <2>1 DEF LaneParams, LaneSeeds
<1>15. LaneCounters'
  <2>1. p.path = "topk" =>
          \A s \in Active : AskOf(s).seed # None => lane'.seeds[s].counter = generated[s] + 2
    BY <1>5, <1>8 DEF Serves
  <2>2. resident'.path = p.path /\ \A s \in Active : generated[s] + 2 = generated'[s] + 1
    BY <1>6, <1>7, <1>11
  <2> QED BY <1>6, <2>1, <2>2 DEF LaneCounters
<1>16. LaneHistories'
  <2>1. \A s \in Active : HostHistory'[s] = [of |-> request[s], counted |-> generated[s] + 1]
    BY <1>6, <1>7, <1>11 DEF HostHistory
  <2>2. \A s \in Active :
          AskOf(s).penalty # None => lane'.history[remap'[s]] = HostHistory'[s]
    BY <1>9, <1>11, <2>1
  <2> QED BY ONLY <1>6, <2>2 DEF LaneHistories
<1>17. DrawnOwn'
  <2> SUFFICES ASSUME NEW q \in Requests PROVE OwnDraw(drawn'[q], q)
    BY <1>6 DEF DrawnOwn, OwnDraw, Salting, Commands
  <2>1. CASE \E s \in Active : request[s] = q
    <3>1. PICK s \in Active : s = CHOOSE t \in Active : request[t] = q
      BY <2>1
    <3>2. request[s] = q
      BY <2>1, <3>1
    <3>3. drawn'[q] = Observed(l, s, generated[s] + 1, p.path)
      BY <1>2, <2>1, <3>1
    <3> QED BY <1>5, <3>2, <3>3, ObservedOwn
  <2>2. CASE ~\E s \in Active : request[s] = q
    <3>1. drawn'[q] = drawn[q]
      BY <1>2, <2>2
    <3> QED BY <3>1 DEF OwnInv, DrawnOwn
  <2> QED BY <2>1, <2>2
<1> QED BY <1>10, <1>12, <1>13, <1>14, <1>15, <1>16, <1>17 DEF OwnInv

-----------------------------------------------------------------------------
(* What a prefill draws. *)

\* A call of at most two requests has its rows in the lane.
LEMMA PrefillRowsAreSlots ==
    ASSUME NEW n \in 1 .. 2, NEW slots \in [1 .. n -> Slots], IsInjective(slots),
           NEW i \in 1 .. n
    PROVE  i - 1 \in Slots
<1>1. \A j \in 1 .. n : slots[j] \in Slots /\ slots[j] \in Nat /\ 0 .. slots[j] \subseteq Slots
  BY SlotsAssumption
<1>2. CASE i = 1
  BY <1>1, <1>2
<1>3. CASE i = 2
  <2>1. slots[1] # slots[2] /\ n = 2
    BY <1>3 DEF IsInjective
  <2>2. 1 \in 0 .. slots[1] \/ 1 \in 0 .. slots[2]
    BY <1>1, <2>1
  <2> QED BY <1>1, <1>3, <2>1, <2>2
<1> QED BY <1>2, <1>3

\* Row i - 1 of a prefill holds what the i-th request of the call asks for.
LEMMA AdmitPrefillGives ==
    ASSUME OwnInv, NEW n \in 1 .. 2, NEW slots \in [1 .. n -> Slots], IsInjective(slots),
           NEW who \in [1 .. n -> Requests], NEW l \in AdmitPrefill(lane, slots, who, remap)
    PROVE  /\ Formed(l)
           /\ \A i \in 1 .. n : OwnDraw(Observed(l, i - 1, 1, l.identity.path), who[i])
<1> DEFINE moved == Remapped(lane.seeds, remap)
           members == Range(slots)
           rank == [s \in members |-> CHOOSE i \in DOMAIN slots : slots[i] = s]
           ask == [s \in Slots |-> IF s \in members THEN Asks[who[rank[s]]] ELSE NoAsk]
           placed == [mask |-> members, ask |-> ask, path |-> PathOf(members, ask)]
           positions == [s \in Slots |-> 0]
           table(admitted) == IF placed.path = "topk" THEN Advanced(admitted, members, positions)
                              ELSE admitted
           asks == [i \in DOMAIN who |-> Asks[who[i]].penalty]
           histories == [i \in DOMAIN who |-> [of |-> who[i], counted |-> 0]]
<1>1. PICK admitted \in Admitted(moved, rank, SeedsOf(placed), Salting) :
        /\ DOMAIN l = LaneFields /\ l.seeds = table(admitted)
        /\ placed.path = "topk" => l.rows = PrefillRows(table(admitted), slots)
        /\ l.params = [s \in Slots |-> InPrefillRow(asks, None, s)]
        /\ l.history = [s \in Slots |-> InPrefillRow(histories, NoHistory, s)]
        /\ l.identity.path = placed.path
  <2> DEFINE lanes(admitted) ==
                 [seeds |-> table(admitted),
                  rows |-> IF placed.path = "topk" THEN PrefillRows(table(admitted), slots)
                           ELSE DefaultRows,
                  params |-> [s \in Slots |-> InPrefillRow(asks, None, s)],
                  history |-> [s \in Slots |-> InPrefillRow(histories, NoHistory, s)],
                  identity |-> IdentityOf(placed),
                  valid |-> HistoryValidAfterPrefill(placed, Live(moved) \ members),
                  mask |-> Live(table(admitted))]
  <2>1. l \in {lanes(admitted) : admitted \in Admitted(moved, rank, SeedsOf(placed), Salting)}
    BY DEF AdmitPrefill
  <2>2. PICK admitted \in Admitted(moved, rank, SeedsOf(placed), Salting) : l = lanes(admitted)
    BY <2>1
  <2> HIDE DEF asks, histories, rank, members, moved, ask, positions
  <2>3. IdentityOf(placed).path = placed.path
    BY DEF IdentityOf
  <2> QED BY <2>2, <2>3 DEF LaneFields
<1>2. /\ DOMAIN slots = 1 .. n /\ DOMAIN who = 1 .. n /\ members \in SUBSET Slots
      /\ \A i \in 1 .. n : slots[i] \in members /\ rank[slots[i]] = i
  BY DEF Range, IsInjective
<1>3. \A i \in 1 .. n : SeedsOf(placed)[slots[i]] = Asks[who[i]].seed
  BY <1>2 DEF SeedsOf
<1>4. Plain(admitted) /\ \A i \in 1 .. n : admitted[slots[i]].seed = Asks[who[i]].seed
  <2>1. Plain(lane.seeds) /\ remap \in [Slots -> Slots]
    BY DEF OwnInv, OwnTypes, Formed
  <2>2. Plain(moved)
    BY <2>1, RemappedPlain
  <2>3. DOMAIN rank = members
    OBVIOUS
  <2> HIDE DEF rank, placed, moved, members
  <2>4. Plain(admitted) /\ \A s \in members : admitted[s].seed = SeedsOf(placed)[s]
    BY <1>2, <2>2, <2>3, RegisteredPlain DEF Admitted
  <2> QED BY <1>2, <1>3, <2>4
<1>5. \A i \in 1 .. n : i - 1 \in Slots
  BY PrefillRowsAreSlots
<1>6. ASSUME NEW i \in 1 .. n
      PROVE  l.params[i - 1] = Asks[who[i]].penalty /\ l.history[i - 1] = [of |-> who[i], counted |-> 0]
  <2>1. Len(asks) = n /\ Len(histories) = n
    BY <1>2
  <2>2. \A values : Len(values) = n => InPrefillRow(values, None, i - 1) = values[i]
    BY DEF InPrefillRow
  <2>3. \A values : Len(values) = n => InPrefillRow(values, NoHistory, i - 1) = values[i]
    BY DEF InPrefillRow
  <2>4. l.params[i - 1] = asks[i] /\ l.history[i - 1] = histories[i]
    BY <1>1, <1>5, <2>1, <2>2, <2>3
  <2> QED BY <1>2, <2>4
<1> HIDE DEF members, placed, rank, asks, histories
<1>7. CASE placed.path # "topk"
  <2>1. Formed(l)
    BY <1>1, <1>4, <1>7 DEF Formed
  <2> QED BY <1>1, <1>6, <1>7, <2>1 DEF OwnDraw, Observed
<1>8. CASE placed.path = "topk"
  <2>1. l.seeds = Advanced(admitted, members, positions)
    BY <1>1, <1>8
  <2>2. Plain(l.seeds)
    <3>1. Plain(admitted) /\ members \in SUBSET Slots
      BY <1>2, <1>4
    <3>2. Plain(Advanced(admitted, members, positions))
      <4> HIDE DEF positions
      <4> QED BY ONLY <3>1, AdvancedPlain
    <3> QED BY <2>1, <3>2
  <2>3. Formed(l)
    BY <1>1, <2>2 DEF Formed
  <2>4. ASSUME NEW i \in 1 .. n, Asks[who[i]].seed # None
        PROVE  /\ l.rows[i - 1] # None
               /\ l.rows[i - 1].seed = Asks[who[i]].seed
               /\ l.rows[i - 1].counter = 1
               /\ ~Salting => l.rows[i - 1].salt = 0
    <3>1. slots[i] \in members /\ slots[i] \in Slots
      BY <1>2
    <3>2. PICK stream : stream = admitted[slots[i]]
      OBVIOUS
    <3>3. /\ DOMAIN stream = StreamFields /\ stream.seed = Asks[who[i]].seed
          /\ stream.salt \in Nat /\ (~Salting => stream.salt = 0)
      BY <1>4, <3>1, <3>2 DEF Plain
    <3>4. l.seeds[slots[i]] = Drawn(stream, 0)
      BY <2>1, <3>1, <3>2 DEF Advanced
    <3>5. l.seeds[slots[i]].current = Draw(stream, 1)
      <4>1. NextCounter(stream, 0) = 1
        BY SeedsAssumption DEF NextCounter
      <4> QED BY <2>4, <3>3, <3>4, <4>1, DrawnPlain
    <3>6. l.rows[i - 1] = l.seeds[slots[i]].current
      <4>1. l.rows = PrefillRows(l.seeds, slots)
        BY <1>1, <1>8
      <4>2. Len(slots) = n
        BY <1>2
      <4> QED BY <1>5, <4>1, <4>2 DEF PrefillRows
    <3>7. l.rows[i - 1] = [seed |-> Asks[who[i]].seed, counter |-> 1, salt |-> stream.salt]
      BY <3>3, <3>5, <3>6 DEF Draw
    <3>8. Asks[who[i]].seed \in Seeds
      BY <2>4, AsksAssumption DEF Ask
    <3>9. l.rows[i - 1] \in DeviceSeed
      BY <3>3, <3>7, <3>8 DEF DeviceSeed
    <3> QED BY <3>3, <3>7, <3>9, DeviceSeedAssumption
  <2>5. ASSUME NEW i \in 1 .. n PROVE OwnDraw(Observed(l, i - 1, 1, l.identity.path), who[i])
    BY <1>6, <2>4, <2>5 DEF OwnDraw, Observed
  <2> QED BY <2>3, <2>5
<1> QED BY <1>7, <1>8

-----------------------------------------------------------------------------
(* Every step. *)

LEMMA OwnStart == SamplingInit => OwnInv
<1> SUFFICES ASSUME SamplingInit PROVE OwnInv
  OBVIOUS
<1>1. Active = {}
  BY DEF SamplingInit, Active
<1>2. Formed(lane)
  <2>1. lane = FreshLane
    BY DEF SamplingInit
  <2>2. Plain([s \in Slots |-> EmptyStream])
    BY DEF Plain, EmptyStream, StreamFields
  <2> QED BY <2>1, <2>2 DEF FreshLane, Formed, LaneFields
<1>3. OwnTypes
  BY <1>2 DEF SamplingInit, OwnTypes, Identity
<1>4. ResidentAsks /\ LaneParams /\ LaneSeeds /\ LaneCounters /\ LaneHistories
  BY <1>1 DEF SamplingInit, ResidentAsks, LaneParams, LaneSeeds, LaneCounters, LaneHistories
<1>5. ResidentMembers
  BY DEF SamplingInit, ResidentMembers
<1>6. DrawnOwn
  BY DEF SamplingInit, DrawnOwn, OwnDraw, NoDraw
<1> QED BY <1>3, <1>4, <1>5, <1>6 DEF OwnInv

\* A prefill leaves everything to be told; what it draws is its requests' own.
LEMMA AdmissionOwn ==
    ASSUME OwnInv, NEW slots \in Batches(Slots), NEW who \in Batches(Requests),
           Len(slots) = Len(who), Prefill(slots, who) \/ PrefillRaises(slots, who)
    PROVE  OwnInv'
<1>1. PICK n \in 1 .. 2 : slots \in [1 .. n -> Slots] /\ who \in [1 .. n -> Requests]
  <2>1. PICK n \in 1 .. 2 : slots \in [1 .. n -> Slots]
    <3>1. slots \in UNION {[1 .. n -> Slots] : n \in 1 .. 2}
      BY DEF Batches
    <3> QED BY ONLY <3>1
  <2>2. PICK m \in 1 .. 2 : who \in [1 .. m -> Requests]
    <3>1. who \in UNION {[1 .. m -> Requests] : m \in 1 .. 2}
      BY DEF Batches
    <3> QED BY ONLY <3>1
  <2>3. Len(slots) = n /\ Len(who) = m
    BY <2>1, <2>2
  <2> QED BY <2>1, <2>2, <2>3
<1>2. IsInjective(slots)
  BY DEF Batches
<1>3. \A l \in AdmitPrefill(lane, slots, who, remap) :
        /\ Formed(l)
        /\ \A i \in 1 .. n : OwnDraw(Observed(l, i - 1, 1, l.identity.path), who[i])
  BY <1>1, <1>2, AdmitPrefillGives
<1>4. /\ contract' = contract /\ remap' = Identity /\ untold' = {"params", "members"}
  BY DEF Prefill, PrefillRaises
<1>5. /\ request' \in [Slots -> Requests \cup {None}]
      /\ generated' \in [Slots -> Nat]
  <2>1. CASE Prefill(slots, who)
    <3>1. \A s \in Range(slots) : (CHOOSE i \in DOMAIN slots : slots[i] = s) \in 1 .. n
      BY <1>1 DEF Range
    <3> QED BY <1>1, <2>1, <3>1 DEF Prefill, OwnInv, OwnTypes
  <2>2. CASE PrefillRaises(slots, who)
    BY <2>2 DEF PrefillRaises, OwnInv, OwnTypes
  <2> QED BY <2>1, <2>2
<1>6. Formed(lane') /\ \A q \in Requests : OwnDraw(drawn'[q], q)
  <2>1. CASE PrefillRaises(slots, who)
    BY <1>3, <2>1 DEF PrefillRaises, OwnInv, DrawnOwn
  <2>2. CASE Prefill(slots, who)
    <3>1. PICK l \in AdmitPrefill(lane, slots, who, remap) :
             /\ lane' = PrefillCounted(l)
             /\ drawn' = [q \in Requests |->
                            IF q \in Range(who)
                            THEN LET i == CHOOSE j \in DOMAIN who : who[j] = q
                                 IN Observed(l, i - 1, 1, l.identity.path)
                            ELSE drawn[q]]
      BY <2>2 DEF Prefill
    <3>2. Formed(lane')
      BY <1>3, <3>1 DEF PrefillCounted, Formed, LaneFields
    <3>3. ASSUME NEW q \in Requests PROVE OwnDraw(drawn'[q], q)
      <4>1. CASE q \in Range(who)
        <5>1. PICK i \in 1 .. n : i = (CHOOSE j \in DOMAIN who : who[j] = q) /\ who[i] = q
          BY <1>1, <4>1 DEF Range
        <5>2. drawn'[q] = Observed(l, i - 1, 1, l.identity.path)
          BY <3>1, <4>1, <5>1
        <5> QED BY <1>3, <5>1, <5>2
      <4>2. CASE q \notin Range(who)
        <5>1. drawn'[q] = drawn[q]
          BY <3>1, <4>2
        <5> QED BY <5>1 DEF OwnInv, DrawnOwn
      <4> QED BY <4>1, <4>2
    <3> QED BY <3>2, <3>3
  <2> QED BY <2>1, <2>2
<1>7. OwnTypes'
  BY <1>4, <1>5, <1>6 DEF OwnTypes, Identity, Formed, Plain, Salting, Commands
<1>8. ResidentAsks' /\ ResidentMembers' /\ LaneParams' /\ LaneSeeds' /\ LaneCounters' /\ LaneHistories'
  BY <1>4 DEF ResidentAsks, ResidentMembers, LaneParams, LaneSeeds, LaneCounters, LaneHistories
<1>9. DrawnOwn'
  BY <1>4, <1>6 DEF DrawnOwn, OwnDraw, Salting, Commands
<1> QED BY <1>7, <1>8, <1>9 DEF OwnInv

LEMMA FinishOwn ==
    ASSUME OwnInv, NEW s \in Slots, Finish(s)
    PROVE  OwnInv'
<1>1. /\ UNCHANGED <<contract, remap, lane, resident, feedback, drawn>>
      /\ Active' \subseteq Active /\ \A t \in Active' : request'[t] = request[t]
      /\ changed' = TRUE /\ untold' = untold \cup {"members"} /\ untold' # {}
      /\ "params" \in untold' <=> "params" \in untold
  BY DEF Finish, Active, OwnInv, OwnTypes
<1>2. \A t \in Active' : AskOf(t)' = AskOf(t)
  BY <1>1 DEF AskOf
<1>3. OwnTypes'
  <2>1. request' \in [Slots -> Requests \cup {None}] /\ generated' \in [Slots -> Nat]
    BY DEF Finish, OwnInv, OwnTypes
  <2>2. untold' \in {{"members"}, {"params", "members"}}
    BY <1>1 DEF OwnInv, OwnTypes
  <2> QED BY <1>1, <2>1, <2>2 DEF OwnInv, OwnTypes, Formed, Plain, Salting, Commands
<1>4. ResidentAsks' /\ LaneParams'
  BY <1>1, <1>2 DEF OwnInv, ResidentAsks, LaneParams, Commands, Greedy
<1>5. ResidentMembers' /\ LaneSeeds' /\ LaneCounters' /\ LaneHistories'
  BY <1>1 DEF ResidentMembers, LaneSeeds, LaneCounters, LaneHistories
<1>6. DrawnOwn'
  BY <1>1 DEF OwnInv, DrawnOwn, OwnDraw, Salting, Commands
<1> QED BY <1>3, <1>4, <1>5, <1>6 DEF OwnInv

LEMMA ReorderOwn ==
    ASSUME OwnInv, NEW s \in Slots, NEW t \in Slots, Reorder(s, t)
    PROVE  OwnInv'
<1>1. /\ UNCHANGED <<contract, untold, lane, resident, feedback, drawn>>
      /\ changed' = TRUE /\ \A x \in Slots : remap[x] = x
  BY DEF Reorder, Identity
<1>2. /\ request' \in [Slots -> Requests \cup {None}] /\ generated' \in [Slots -> Nat]
      /\ remap' \in [Slots -> Slots]
  BY DEF Reorder, OwnInv, OwnTypes
<1>3. \A x \in Active' : /\ remap'[x] \in Active
                         /\ request'[x] = request[remap'[x]]
                         /\ generated'[x] = generated[remap'[x]]
  BY DEF Reorder, Active, OwnInv, OwnTypes, Identity
<1>4. \A x \in Active' : /\ AskOf(x)' = AskOf(remap'[x])
                         /\ HostHistory'[x] = HostHistory[remap'[x]]
  BY <1>2, <1>3 DEF AskOf, HostHistory, Active, OwnInv, OwnTypes
<1>5. \A x \in Active : remap[x] = x
  BY <1>1 DEF Active
<1>6. OwnTypes'
  BY <1>1, <1>2 DEF OwnInv, OwnTypes, Formed, Plain, Salting, Commands
<1>7. ResidentAsks'
  BY <1>1, <1>3, <1>4, <1>5 DEF OwnInv, ResidentAsks, Commands, Greedy
<1>8. LaneParams' /\ LaneSeeds'
  BY <1>1, <1>3, <1>4, <1>5 DEF OwnInv, LaneParams, LaneSeeds, Commands
<1>9. LaneHistories'
  BY <1>1, <1>3, <1>4, <1>5 DEF OwnInv, LaneHistories
<1>10. ResidentMembers' /\ LaneCounters'
  BY <1>1 DEF ResidentMembers, LaneCounters
<1>11. DrawnOwn'
  BY <1>1 DEF OwnInv, DrawnOwn, OwnDraw, Salting, Commands
<1> QED BY <1>6, <1>7, <1>8, <1>9, <1>10, <1>11 DEF OwnInv

\* A step that the host samples moves the lane and the parameters of the last sampled step.
LEMMA HostStepOwn ==
    ASSUME OwnInv, HostStep
    PROVE  OwnInv'
<1>1. /\ UNCHANGED <<contract, request, drawn>> /\ Active' = Active
      /\ feedback' = FALSE /\ untold' = untold \cup {"members"} /\ untold' # {}
      /\ remap' = Identity /\ \A s \in Active : remap'[s] = s
      /\ "params" \in untold' <=> "params" \in untold
      /\ \A s : AskOf(s)' = AskOf(s)
  BY DEF HostStep, Active, Identity, AskOf
<1>2. Formed(lane') /\ (Commands => \A s \in Slots : lane'.params[s] = lane.params[remap[s]])
  <2>1. CASE Commands
    <3>1. lane' = RemapSlots(lane, remap)
      BY <2>1 DEF HostStep
    <3> QED BY <3>1, RemapSlotsMoves
  <2>2. CASE ~Commands
    <3>1. lane' = [lane EXCEPT !.rows = DefaultRows]
      BY <2>2 DEF HostStep
    <3> QED BY <2>2, <3>1 DEF OwnInv, OwnTypes, Formed, LaneFields
  <2> QED BY <2>1, <2>2
<1>3. OwnTypes'
  <2>1. generated' \in [Slots -> Nat]
    BY DEF HostStep, OwnInv, OwnTypes
  <2>2. untold' \in {{"members"}, {"params", "members"}}
    BY <1>1 DEF OwnInv, OwnTypes
  <2> QED BY <1>1, <1>2, <2>1, <2>2 DEF OwnInv, OwnTypes, Formed, Plain, Salting, Commands, Identity
<1>4. LaneParams'
  BY <1>1, <1>2 DEF OwnInv, LaneParams, Commands, Active
<1>5. ResidentAsks'
  <2> SUFFICES ASSUME Commands, resident' # None, "params" \notin untold
               PROVE  /\ \A s \in Active : resident'.ask[s] = AskOf(s)
                      /\ resident'.path \in {"topk", "argmax"}
                      /\ resident'.path = "argmax" => \A s \in Active : Greedy(s)
    BY <1>1 DEF ResidentAsks, Commands, Greedy
  <2>1. resident' = RemappedResident
    BY DEF HostStep
  <2>2. resident # None
    BY <2>1 DEF RemappedResident
  <2>3. /\ \A s \in Active : resident.ask[remap[s]] = AskOf(s)
        /\ resident.path \in {"topk", "argmax"}
        /\ resident.path = "argmax" => \A s \in Active : Greedy(s)
    BY <2>2 DEF OwnInv, ResidentAsks
  <2>4. resident'.path = resident.path /\ \A s \in Slots : resident'.ask[s] = resident.ask[remap[s]]
    BY <2>1, <2>2 DEF RemappedResident, Identity
  <2> QED BY <2>3, <2>4 DEF Active
<1>6. ResidentMembers' /\ LaneSeeds' /\ LaneCounters' /\ LaneHistories'
  BY <1>1 DEF ResidentMembers, LaneSeeds, LaneCounters, LaneHistories
<1>7. DrawnOwn'
  BY <1>1 DEF OwnInv, DrawnOwn, OwnDraw, Salting, Commands
<1> QED BY <1>3, <1>4, <1>5, <1>6, <1>7 DEF OwnInv

LEMMA OwnStep == OwnInv /\ [SamplingNext]_samplingVars => OwnInv'
<1> SUFFICES ASSUME OwnInv, [SamplingNext]_samplingVars PROVE OwnInv'
  OBVIOUS
<1>1. CASE UNCHANGED samplingVars
  BY <1>1 DEF samplingVars, schedulerVars, OwnInv, OwnTypes, ResidentAsks, ResidentMembers,
       LaneParams, LaneSeeds, LaneCounters, LaneHistories, DrawnOwn, OwnDraw, Formed, Plain,
       Salting, Commands, Active, AskOf, Greedy, HostHistory
<1>2. ASSUME NEW slots \in Batches(Slots), NEW who \in Batches(Requests), Len(slots) = Len(who),
             Prefill(slots, who) \/ PrefillRaises(slots, who)
      PROVE  OwnInv'
  BY <1>2, AdmissionOwn
<1>3. ASSUME NEW s \in Slots, Finish(s) PROVE OwnInv'
  BY <1>3, FinishOwn
<1>4. ASSUME NEW s \in Slots, NEW t \in Slots, Reorder(s, t) PROVE OwnInv'
  BY <1>4, ReorderOwn
<1>5. ASSUME NEW c \in Calls, SampledStep(c) PROVE OwnInv'
  BY <1>5, SampledOwn
<1> QED BY <1>1, <1>2, <1>3, <1>4, <1>5, HostStepOwn DEF SamplingNext

\* Whatever the scheduler has not yet told the lane, the rest of what the lane keeps is what the
\* running requests ask for and where they have come to, under either contract.
THEOREM OwnInvariance == SamplingSpec => []OwnInv
BY OwnStart, OwnStep, PTL DEF SamplingSpec

\* The n-th token of a request with a seed is drawn with that seed and the counter n, in whatever
\* slot and beside whomever it runs, and without salts with nothing else (DrawsAreOwn).
THEOREM EveryDrawIsOwn == SamplingSpec => []DrawsAreOwn
<1>1. OwnInv => DrawsAreOwn
  BY DEF OwnInv, DrawnOwn, OwnDraw, DrawsAreOwn
<1> QED BY <1>1, OwnInvariance, PTL

\* Every token is sampled with the penalty of its own request, although prefills overwrite the
\* penalties of the lane and moves leave them in other rows (PenaltiesAreOwn).
THEOREM EveryPenaltyIsOwn == SamplingSpec => []PenaltiesAreOwn
<1>1. OwnInv => PenaltiesAreOwn
  BY DEF OwnInv, DrawnOwn, OwnDraw, PenaltiesAreOwn
<1> QED BY <1>1, OwnInvariance, PTL

\* A penalty is applied to the request's own prompt and its own tokens so far, each counted once
\* (HistoryIsOwn).
THEOREM EveryHistoryIsOwn == SamplingSpec => []HistoryIsOwn
<1>1. OwnInv => HistoryIsOwn
  BY DEF OwnInv, DrawnOwn, OwnDraw, HistoryIsOwn
<1> QED BY <1>1, OwnInvariance, PTL

==============================================================================

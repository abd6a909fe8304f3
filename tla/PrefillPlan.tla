------------------------------ MODULE PrefillPlan ------------------------------
(***************************************************************************)
(* The prefill planner (llm_runtime/prefill/plan.py) and the page-table    *)
(* geometry it plans for (llm_runtime/config.py, PageTableLayout): one     *)
(* public call, a sequence of rows, becomes the sequence of requests that  *)
(* run one after the other, each of one or more chunks.                    *)
(*                                                                         *)
(* A row is [slot, length, cached, table]; table is the row of vLLM's page *)
(* table, which past the blocks of the prompt still holds the entries of   *)
(* the request that had the row before.  A length stands for the tokens.   *)
(***************************************************************************)
EXTENDS Integers, Sequences, FiniteSets, SequencesExt, FiniteSetsExt

CONSTANTS
    BlockSize, PhysicalBlocks,      \* the paged KV cache
    MaxLength,                      \* tokens of the longest prompt the model serves
    MaxBatch,                       \* slots of the lane
    SmallBucket, MediumBucket,      \* 128 and 1024 in the code
    MinChunk, MaxChunk,             \* 2048, and max_prefill_chunk_size
    BatchSizes, MaxWave,            \* the supported wave sizes, and max_prefill_batch_size
    MaxWaveTokens,                  \* _MAX_BATCHED_PREFILL_TOKENS
    Alignment                       \* entries a page table is padded to

Lengths == {BlockSize, PhysicalBlocks, MaxLength, MaxBatch, SmallBucket, MediumBucket, MinChunk,
            MaxChunk, MaxWave, MaxWaveTokens, Alignment}
ASSUME GeometryAssumption == Lengths \subseteq Nat \ {0} /\ BatchSizes \subseteq Nat \ {0}
TwoTo[k \in Nat] == IF k = 0 THEN 1 ELSE 2 * TwoTo[k - 1]
ASSUME BucketAssumption ==
    /\ SmallBucket % BlockSize = 0 /\ MediumBucket % BlockSize = 0 /\ MinChunk % BlockSize = 0
    /\ SmallBucket <= MediumBucket /\ MediumBucket <= MaxChunk /\ MaxChunk % MinChunk = 0
    /\ \E k \in 0 .. MinChunk : MinChunk = TwoTo[k]

Skip == -1      \* paged_fill_cache writes nothing for this entry
CeilDiv(n, d) == (n + d - 1) \div d
RoundUp(n, d) == CeilDiv(n, d) * d
NumBlocks(length) == CeilDiv(length, BlockSize)
Least(a, b) == IF a <= b THEN a ELSE b

\* PageTableLayout.resolve.
RawWidth == Least(NumBlocks(MaxLength), PhysicalBlocks)
PaddingBlocksForgotten == 0
PaddingBlocks == NumBlocks(MaxChunk - 1)
PrefillWidth == RoundUp(RawWidth + PaddingBlocks, Alignment)

-----------------------------------------------------------------------------
(* Buckets, chunks and waves.                                              *)

PaddedLength(length) ==
    IF length <= SmallBucket THEN SmallBucket
    ELSE IF length <= MediumBucket THEN MediumBucket
    ELSE TwoTo[CHOOSE k \in 0 .. length : length <= TwoTo[k] /\ TwoTo[k] < 2 * length]

\* _max_prefill_chunk_size, which raises when it finds none.
ChunkSizes(padded) ==
    IF padded <= MaxChunk THEN {padded}
    ELSE {size \in MinChunk .. MaxChunk : size % MinChunk = 0 /\ padded % size = 0}
ChunkSize(padded) == Max(ChunkSizes(padded))

Uncached(row) == row.length - row.cached
Bucket(row) == PaddedLength(Uncached(row))
InvocationLength(row) == ChunkSize(Bucket(row))
UsesChunks(row) == Bucket(row) > MaxChunk \/ row.cached > 0

\* The rows of a bucket, in order; rows with nothing to compute are left out.
Working(call) == {r \in 1 .. Len(call) : Uncached(call[r]) > 0}
RowsOfBucket(call, bucket) == {r \in Working(call) : Bucket(call[r]) = bucket}

\* A set of rows as a sequence, in source order: row r comes at the place Rank(rows, r).
Rank(rows, r) == Cardinality({q \in rows : q <= r})
InOrder(rows) == [n \in 1 .. Cardinality(rows) |-> CHOOSE r \in rows : Rank(rows, r) = n]

\* A dictionary iterates in the order of insertion: buckets come in the order of their first rows.
FirstOfBucket(call) ==
    {r \in Working(call) : \A q \in Working(call) : q < r => Bucket(call[q]) # Bucket(call[r])}
BucketsInOrder(call) ==
    LET firsts == InOrder(FirstOfBucket(call))
    IN  [i \in 1 .. Len(firsts) |-> Bucket(call[firsts[i]])]

WaveSizes(count) == {size \in BatchSizes : size >= count}
Fits(count, bucket, largest) ==
    /\ count > 1 /\ WaveSizes(count) # {}
    /\ bucket <= MaxChunk
    /\ Min(WaveSizes(count)) <= largest
    /\ Min(WaveSizes(count)) * bucket < MaxWaveTokens

AllUncached(call, rows) == \A r \in rows : call[r].cached = 0

\* The wave of a whole bucket, under the policies without fixed waves.
BatchesBucket(policy, call, bucket) ==
    LET rows == RowsOfBucket(call, bucket) IN
    /\ AllUncached(call, rows)
    /\ \/ policy.kind = "dynamic" /\ Fits(Cardinality(rows), bucket, Least(MaxWave, MaxBatch))
       \/ /\ policy.kind = "legacy" /\ Fits(Cardinality(rows), bucket, MaxBatch)
          /\ bucket = SmallBucket /\ Len(BucketsInOrder(call)) = 1
          /\ Working(call) = 1 .. Len(call)
          /\ \A r \in 1 .. Len(call) : call[r].slot = r - 1

Waves(rows, size) ==
    [w \in 1 .. CeilDiv(Len(rows), size) |->
        [rows |-> SubSeq(rows, (w - 1) * size + 1, Least(w * size, Len(rows))), size |-> size]]

FixedBucket(policy, bucket) == policy.kind = "fixed" /\ bucket \in DOMAIN policy.waves

WavesOfBucket(policy, call, bucket) ==
    LET rows == RowsOfBucket(call, bucket) IN
    IF FixedBucket(policy, bucket)
    THEN Waves(InOrder({r \in rows : call[r].cached = 0}), policy.waves[bucket])
    ELSE IF BatchesBucket(policy, call, bucket)
    THEN <<[rows |-> InOrder(rows), size |-> Min(WaveSizes(Cardinality(rows)))]>>
    ELSE <<>>

\* The waves of the first bucket, then those of the second, and so on: <<b, w>> is wave w of bucket b.
WavesByBucket(policy, call) ==
    LET buckets == BucketsInOrder(call)
    IN  [b \in 1 .. Len(buckets) |-> WavesOfBucket(policy, call, buckets[b])]
Places(waves) == UNION {{<<b, w>> : w \in 1 .. Len(waves[b])} : b \in 1 .. Len(waves)}
UpTo(places, p) == {q \in places : q[1] < p[1] \/ (q[1] = p[1] /\ q[2] <= p[2])}
InTurn(waves) ==
    LET places == Places(waves)
        place == [n \in 1 .. Cardinality(places) |->
                    CHOOSE p \in places : Cardinality(UpTo(places, p)) = n]
    IN  [n \in 1 .. Cardinality(places) |-> waves[place[n][1]][place[n][2]]]
Batched(policy, call) == InTurn(WavesByBucket(policy, call))

-----------------------------------------------------------------------------
(* Requests.                                                               *)

\* Only the blocks the prompt has are copied: what follows in the row is stale.
WholeRow(row) == Len(row.table)
Mapped(row) == NumBlocks(row.length)

\* A table of the canonical width, and the view of it that starts at one block.
PageTable(row, filler) ==
    [i \in 1 .. PrefillWidth |-> IF i <= Mapped(row) THEN row.table[i] ELSE filler]
FillView(row, start, size) ==
    [i \in 1 .. NumBlocks(size) |->
        IF start + i <= Mapped(row) THEN row.table[start + i] ELSE Skip]

ChunksOf(row) ==
    LET size == ChunkSize(Bucket(row))
    IN  [c \in 1 .. CeilDiv(Uncached(row), size) |->
            [start |-> row.cached + (c - 1) * size, size |-> size,
             fill |-> <<FillView(row, (row.cached + (c - 1) * size) \div BlockSize, size)>>]]

SingleRequest(call, r) ==
    LET row == call[r] IN
    [kind |-> IF UsesChunks(row) THEN "chunked" ELSE "single", rows |-> <<r>>, padded |-> 1,
     context |-> IF UsesChunks(row) THEN PageTable(row, 0) ELSE <<>>,
     chunks |-> IF UsesChunks(row) THEN ChunksOf(row)
                ELSE <<[start |-> 0, size |-> Bucket(row), fill |-> <<PageTable(row, Skip)>>]>>]

NoRow == [i \in 1 .. PrefillWidth |-> Skip]
BatchedRequest(call, wave) ==
    [kind |-> "batched", rows |-> wave.rows, padded |-> wave.size, context |-> <<>>,
     chunks |-> <<[start |-> 0, size |-> Bucket(call[wave.rows[1]]),
                   fill |-> [i \in 1 .. wave.size |->
                                IF i <= Len(wave.rows) THEN PageTable(call[wave.rows[i]], Skip)
                                ELSE NoRow]]>>]

\* The rows no wave has taken, in source order.
InWave(waves) == UNION {ToSet(waves[w].rows) : w \in 1 .. Len(waves)}
SequentialByBucket(policy, call) ==
    LET buckets == BucketsInOrder(call)
        left == Working(call) \ InWave(Batched(policy, call))
    IN  FlattenSeq([b \in 1 .. Len(buckets) |-> InOrder(RowsOfBucket(call, buckets[b]) \cap left)])
Sequential(policy, call) == InOrder(Working(call) \ InWave(Batched(policy, call)))

Planned(policy, call) ==
    LET waves == Batched(policy, call)
        singles == Sequential(policy, call)
    IN  [w \in 1 .. Len(waves) |-> BatchedRequest(call, waves[w])]
        \o [s \in 1 .. Len(singles) |-> SingleRequest(call, singles[s])]

-----------------------------------------------------------------------------
(* What the planner refuses with a ValueError.                             *)

ValidRow(row) ==
    /\ 0 <= row.cached /\ row.cached <= row.length /\ row.cached % BlockSize = 0
    /\ row.slot \in 0 .. MaxBatch - 1

FitsTable(row) == Mapped(row) <= RawWidth /\ Mapped(row) <= Len(row.table)

\* A chunked row is refused when a chunk that runs ends past the canonical table.
FitsWidth(row) ==
    LET chunks == SingleRequest(<<row>>, 1).chunks
    IN  Last(chunks).start + Last(chunks).size <= PrefillWidth * BlockSize

Plannable(policy, call) ==
    /\ \A r, s \in 1 .. Len(call) : call[r].slot = call[s].slot => r = s
    /\ \A r \in 1 .. Len(call) : ValidRow(call[r])
    /\ \A r \in Working(call) : FitsTable(call[r]) /\ ChunkSizes(Bucket(call[r])) # {}
    /\ \A r \in Working(call) \ InWave(Batched(policy, call)) : FitsWidth(call[r])

=============================================================================

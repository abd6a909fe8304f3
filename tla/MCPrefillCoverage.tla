--------------------------- MODULE MCPrefillCoverage ---------------------------
(* Blocks and tiles of two tokens, buckets of 8 and 16, chunks of up to 96, prompts of up to 66.  *)
(* Single prompts of every length beside several prefixes, and calls of two and three rows.       *)
EXTENDS PrefillCoverage

MCSupported == {SmallBucket, MediumBucket}
MCTraceLengths == {SmallBucket}

SetupsOf(mode, scripts) ==
    {[lane |-> lane, waves |-> ServingWaves(wave, lane), declared |-> declared, mode |-> mode,
      sampling |-> sampled, argmax |-> sampled /\ greedy, logprobs |-> sampled /\ greedy,
      primes |-> primes, script |-> asked] :
        lane \in {1, 3}, wave \in {1, 4}, declared \in {{}, {8, 16, 32, 64, 128}},
        sampled \in BOOLEAN, greedy \in BOOLEAN, primes \in {"before", "around"}, asked \in scripts}
SetupsFor(Asked(_)) == UNION {SetupsOf(mode, Asked(mode)) : mode \in {"decode_only", "all"}}
\* A list of lengths of the caller's own goes with a wide lane; it has a prompt of two chunks.
MCSetups == {s \in SetupsFor(Scripts) : s.declared = {} \/ (s.lane = 3 /\ s.primes = "around")}
OnceReversed(mode) == {DecodeFirst(mode)}
MCEitherOrder == SetupsFor(OnceReversed)

Singles ==
    {<<WarmRow(0, cached, uncached)>> : cached \in {0, 2, 4, 16, 32, 48, 62, 64}, uncached \in 1 .. 66}
Rows == {WarmRow(0, 0, 3), WarmRow(0, 0, 8), WarmRow(0, 2, 5), WarmRow(0, 0, 12), WarmRow(0, 0, 66)}
Groups ==
    UNION {{[r \in 1 .. n |-> [rows[r] EXCEPT !.slot = r - 1]] : rows \in [1 .. n -> Rows]} : n \in 2 .. 3}
MCCalls == {asked \in Singles : asked[1].length <= MaxLength} \cup Groups

=============================================================================

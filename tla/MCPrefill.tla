------------------------------- MODULE MCPrefill -------------------------------
(* Blocks of two tokens, buckets of two and four blocks, chunks of four, three slots.             *)
(* Two prompts share a prefix of two blocks, of which one takes three chunks; two are short.        *)
EXTENDS Prefill

CONSTANTS short, brief, lead, follow

MCPrompts == {short, brief, lead, follow}
MCLengthOf == (short :> 1) @@ (brief :> 4) @@ (lead :> 17) @@ (follow :> 5)
MCFamilyOf ==
    (short :> "a") @@ (brief :> "b") @@ (lead :> "shared") @@ (follow :> "shared")

AllKeys == {"single", "chunked", "batched"} \X {1, 2} \X {SmallBucket, MediumBucket}
MCConfigs ==
    [policy : {[kind |-> "fixed", waves |-> (SmallBucket :> 2)]}
                \cup [kind : {"dynamic", "legacy"}, waves : {<<>>}],
     tracing : BOOLEAN,
     captured : {AllKeys, AllKeys \ {<<"chunked", 1, SmallBucket>>}}]
MCTraceable == {SmallBucket, MediumBucket}

=============================================================================

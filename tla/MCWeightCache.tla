----------------------------- MODULE MCWeightCache -----------------------------
(* Two revisions of one checkpoint, a fork of the same name, another precision and another        *)
(* topology, in the default cache, in an explicit one and in one that a host cannot write.        *)
EXTENDS WeightCache

CONSTANTS hostA, hostB, pid

Standard == [append |-> FALSE, create |-> "always", fallback |-> FALSE]
Llama3 == [append |-> TRUE, create |-> "explicit_only", fallback |-> TRUE]

Original == [id |-> <<"org", "model">>, revision |-> "r1", pinned |-> TRUE, topology |-> "N300",
             dtype |-> "bf8", configured |-> {}, policy |-> Standard]

MCJobs ==
    {Original,
     [Original EXCEPT !.revision = "r2"],
     [Original EXCEPT !.revision = "r2", !.pinned = FALSE],
     [Original EXCEPT !.dtype = "bf16"],
     [Original EXCEPT !.configured = {"TT_TRANSFORMERS_CACHE"}, !.policy = Llama3],
     [Original EXCEPT !.configured = {"cache_dir", "TT_CACHE_PATH"}],
     [Original EXCEPT !.configured = {"TT_CACHE_PATH"}, !.policy = Llama3],
     [Original EXCEPT !.id = <<"fork", "model">>, !.configured = {"TT_CACHE_PATH"}, !.policy = Llama3],
     [Original EXCEPT !.topology = "T3K", !.configured = {"TT_CACHE_PATH"}, !.policy = Llama3]}

MCReadOnly == {<<hostB, "TT_CACHE_PATH">>}

=============================================================================

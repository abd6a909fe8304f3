------------------------------ MODULE MCLaneGroup ------------------------------
(* Prefill with a traced bucket, its sampled twin and a bucket that has no trace; decode
   with logits and with sampling.  PF and DF are the eager calls of prefill and decode, PT
   and DT the traced ones; the last letter of a host call is H. *)
EXTENDS LaneGroup

Case(operation, path, traced, sampled) ==
    [op |-> operation, path |-> path, traced |-> traced, sampled |-> sampled]

MCCases == {Case("prefill", "logits", TRUE, FALSE), Case("prefill", "topk", TRUE, TRUE),
            Case("prefill", "long", FALSE, FALSE),
            Case("decode", "logits", TRUE, FALSE), Case("decode", "topk", TRUE, TRUE)}

Request(operation, traced, sample) == [op |-> operation, traced |-> traced, sample |-> sample]
PF == Request("prefill", FALSE, TRUE)
DF == Request("decode", FALSE, TRUE)
PT == Request("prefill", TRUE, TRUE)
DT == Request("decode", TRUE, TRUE)
PTH == Request("prefill", TRUE, FALSE)
DTH == Request("decode", TRUE, FALSE)
PFH == Request("prefill", FALSE, FALSE)

Callers(lanes, enabled, kind, scripts, joined, most, served) ==
    [lanes : {lanes}, enabled : {enabled}, kind : {kind}, calls : scripts, joined : joined,
     failures : {most}, forwards : {served}]

\* models/hf_generation.py, the benchmarks, and one traced call of each operation.
Phased == {<<PF, DF, PT, DT>>, <<DF, PF, PT, DT>>, <<PT, DT>>, <<DT, PT>>}
\* decode_only, with the two operations in either order.
DecodeOnly == {<<PF, DF, DT>>, <<DF, PF, DT>>, <<PF, DT>>, <<DT, PF>>}
\* Requests that ask for more after capture.
Late == {<<PFH, DF, PTH, DT, PF, DT>>, <<PTH, DT, PT>>, <<PTH, DTH, DT>>, <<PF, DF, PT, DT, PT>>}

\* A group of three, a lane on its own, and a group of two of which one may be warmed up
\* already or which serves when it is warm.
MCScenarios ==
    Callers(3, Ops, "phased", Phased, {{}}, 1, 0)
      \cup Callers(1, {"decode"}, "decode_only", DecodeOnly, {{}}, 2, 0)
      \cup Callers(2, Ops, "late", Late, {{}, {2}}, 1, 1)
      \cup Callers(2, Ops, "phased", {<<PF, DF, PT, DT>>}, {{}}, 1, 2)

=============================================================================

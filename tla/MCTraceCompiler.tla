--------------------------- MODULE MCTraceCompiler ---------------------------
(* A lane with two decode tails over one body, one of them feeding tokens back, and a
   prefill trace with a workspace.  Two plans can clash with these: p2 may be an alias of
   the first tail instead of having its own, and p3 may name the body's key as a trace. *)
EXTENDS TraceCompiler

CONSTANTS p1, p2, p3, t1, t2, f, b

Decode(p, t, fed) == [program |-> p, trace |-> t, body |-> b, operation |-> "decode",
                      workspace |-> FALSE, feeds |-> fed]

MCPrograms == {p1, p2, p3}
MCKeys == {t1, t2, f, b}
Prefill(p, t) == [program |-> p, trace |-> t, body |-> NoKey, operation |-> "prefill",
                  workspace |-> TRUE, feeds |-> FALSE]

MCPlans == {Decode(p1, t1, TRUE), Decode(p2, t2, FALSE), Prefill(p3, f),
            Decode(p2, t1, TRUE), Prefill(p3, b)}

=============================================================================

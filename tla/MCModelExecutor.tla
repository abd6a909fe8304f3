--------------------------- MODULE MCModelExecutor ---------------------------
(* One decode trace that feeds itself, and one prefill trace with a workspace. *)
EXTENDS ModelExecutor

CONSTANTS p1, p2, t, f

MCPrograms == {p1, p2}
MCKeys == {t, f}
MCPlans == {[program |-> p1, trace |-> t, body |-> NoKey, operation |-> "decode",
             workspace |-> FALSE, feeds |-> TRUE],
            [program |-> p2, trace |-> f, body |-> NoKey, operation |-> "prefill",
             workspace |-> TRUE, feeds |-> FALSE]}

MCLeftBehind == {{}, {"leases"}, {"decode"}}

=============================================================================

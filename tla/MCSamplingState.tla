---------------------------- MODULE MCSamplingState ----------------------------
(* Two slots, three requests: two of equal seeds, of which one is penalised, and a greedy one. *)
EXTENDS SamplingState

CONSTANTS twin, penalised, greedy

MCSlots == 0 .. 1
MCRequests == {twin, penalised, greedy}
MCAsks ==
    [q \in MCRequests |->
        [seed |-> IF q = greedy THEN None ELSE 7, greedy |-> q = greedy,
         penalty |-> IF q = penalised THEN "high" ELSE None,
         mode |-> IF q = twin THEN "top_n" ELSE "none"]]

=============================================================================

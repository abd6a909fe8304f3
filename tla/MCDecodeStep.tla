----------------------------- MODULE MCDecodeStep -----------------------------
(* Two slots and two requests, of which one is greedy. *)
EXTENDS DecodeStep, TLC

CONSTANTS q1, q2, s1, s2

MCSlots == {s1, s2}
MCRequests == {q1, q2}
MCAsks == q1 :> "greedy" @@ q2 :> "warm"

\* Slots are alike.
MCSymmetry == Permutations(MCSlots)

=============================================================================

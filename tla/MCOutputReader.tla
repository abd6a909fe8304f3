---------------------------- MODULE MCOutputReader ----------------------------
(* A thread of the scheduler and one that may drain, with ids that are reused. *)
EXTENDS OutputReader

=============================================================================

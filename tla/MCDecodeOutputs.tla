---------------------------- MODULE MCDecodeOutputs ----------------------------
(* A lane with two traced decode tails, which also runs eager steps. *)
EXTENDS DecodeOutputs

=============================================================================

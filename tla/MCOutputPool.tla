----------------------------- MODULE MCOutputPool -----------------------------
(* Three callers of a group of two lanes. *)
EXTENDS OutputPool

=============================================================================

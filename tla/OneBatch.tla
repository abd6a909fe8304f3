------------------------------- MODULE OneBatch -------------------------------
(***************************************************************************)
(* What an executor promises its caller: a fixed batch of slots, each with *)
(* the request-owned sampling state of one request.  A prefill puts its    *)
(* requests into the slots it is given, a decode step first moves them as  *)
(* it is told; every row is run with its own tokens, parameters and state, *)
(* and answered at its place in the call.  An executor that raised serves  *)
(* no more.                                                                *)
(***************************************************************************)
EXTENDS Naturals, Sequences

CONSTANTS Requests, None

VARIABLES
    batch,      \* the request whose state a slot holds
    given,      \* the arguments of the last forward that returned
    answer,     \* what it returned, row by row
    broken      \* a forward raised

batchVars == <<batch, given, answer, broken>>

Row(r) == [tokens |-> r, params |-> r, state |-> r]
Blank == [tokens |-> None, params |-> None, state |-> None]

Held == {batch[s] : s \in DOMAIN batch} \ {None}
Apart(f) == \A i, j \in DOMAIN f : f[i] = f[j] => i = j

Init ==
    /\ \A s \in DOMAIN batch : batch[s] = None
    /\ given = [op |-> "none"]
    /\ answer = <<>>
    /\ broken = FALSE

Finish ==
    /\ \E s \in DOMAIN batch : batch[s] # None /\ batch' = [batch EXCEPT ![s] = None]
    /\ UNCHANGED <<given, answer, broken>>

\* New requests go to the free slots named for them, and no other slot changes.  The n-th
\* answer is that of the n-th row.
Prefill ==
    /\ ~broken
    /\ given'.op = "prefill"
    /\ LET rows == given'.rows
           slots == given'.slots
       IN  /\ rows # <<>> /\ DOMAIN slots = DOMAIN rows
           /\ Apart(rows) /\ \A i \in DOMAIN rows : rows[i] \in Requests \ Held
           /\ Apart(slots) /\ \A i \in DOMAIN slots : slots[i] \in DOMAIN batch /\ batch[slots[i]] = None
           /\ DOMAIN batch' = DOMAIN batch
           /\ \A i \in DOMAIN rows : batch'[slots[i]] = rows[i]
           /\ \A s \in DOMAIN batch : (\A i \in DOMAIN slots : slots[i] # s) => batch'[s] = batch[s]
           /\ answer' = [i \in DOMAIN rows |-> Row(rows[i])]
    /\ UNCHANGED broken

\* The requests may be moved first: the remap names the slot each slot takes its request from.
\* One row per slot, blank where there is no request.
Decode ==
    /\ ~broken
    /\ Held # {}
    /\ given'.op = "decode"
    /\ LET remap == given'.remap
       IN  /\ remap \in [DOMAIN batch -> DOMAIN batch] /\ Apart(remap)
           /\ batch' = [s \in DOMAIN batch |-> batch[remap[s]]]
    /\ answer' = [i \in 1 .. Len(answer') |-> IF batch'[i - 1] = None THEN Blank ELSE Row(batch'[i - 1])]
    /\ DOMAIN batch = 0 .. Len(answer') - 1
    /\ UNCHANGED broken

\* A forward raises: what the batch holds is lost, and nothing is answered.
Break ==
    /\ broken' = TRUE
    /\ UNCHANGED <<batch, given, answer>>

BatchNext == Finish \/ Prefill \/ Decode \/ Break
BatchSpec == Init /\ [][BatchNext]_batchVars

=============================================================================

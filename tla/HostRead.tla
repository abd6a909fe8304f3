------------------------------- MODULE HostRead -------------------------------
(***************************************************************************)
(* What an asynchronous read promises (llm_runtime/README.md, "Read        *)
(* outputs"): the reader owns the host destination of a queued copy until  *)
(* the copy has been synchronized, gives it up once, and never hands out a *)
(* value the device has not finished writing.                              *)
(***************************************************************************)
CONSTANT Reads

VARIABLES
    copied,     \* reads whose copy the device has finished
    owned,      \* reads the reader owns
    retired,    \* reads it has given up
    returned    \* reads whose value some caller was told is complete

vars == <<copied, owned, retired, returned>>

Init == copied = {} /\ owned = {} /\ retired = {} /\ returned = {}

Own(r) ==
    /\ r \notin owned \cup retired
    /\ owned' = owned \cup {r}
    /\ UNCHANGED <<copied, retired, returned>>

Copy(r) ==
    /\ copied' = copied \cup {r}
    /\ UNCHANGED <<owned, retired, returned>>

Retire(r) ==
    /\ r \in owned \cap copied
    /\ owned' = owned \ {r}
    /\ retired' = retired \cup {r}
    /\ returned' \in {returned, returned \cup {r}}
    /\ UNCHANGED copied

Return(r) ==
    /\ r \in copied
    /\ returned' = returned \cup {r}
    /\ UNCHANGED <<copied, owned, retired>>

Next == \E r \in Reads : Own(r) \/ Copy(r) \/ Retire(r) \/ Return(r)

Spec == Init /\ [][Next]_vars

=============================================================================

------------------------------ MODULE SeedManager ------------------------------
(***************************************************************************)
(* The seed state of a lane (modules/sampling/seed_manager_1d.py).         *)
(*                                                                         *)
(* Each slot holds the stream of one request: its seed, how far it has     *)
(* come, and a salt that keeps requests of equal seeds apart.  Every       *)
(* method is an operator on the table of the slots.  One that assigns      *)
(* salts is a set of tables, empty where the method raises; its order of   *)
(* registration is given by a rank.                                        *)
(*                                                                         *)
(* A device seed is the hash of <<seed, counter, salt>>; here it is that   *)
(* triple, so that two of them are equal only where the code means them    *)
(* to be.  The n-th draw of an unseeded stream is its counter.             *)
(***************************************************************************)
EXTENDS Integers, FiniteSets

CONSTANTS
    Slots,      \* rows of the lane
    Seeds,      \* seeds that requests ask for
    None        \* no seed: the request is to be sampled at random

\* The rows are numbered from 0.
ASSUME SlotsAssumption ==
    /\ Slots \subseteq Nat /\ IsFiniteSet(Slots) /\ Slots # {}
    /\ \A s \in Slots : 0 .. s \subseteq Slots
ASSUME SeedsAssumption == None \notin Seeds /\ None \notin Nat

DeviceSeed == [seed : Seeds \cup {None}, counter : Nat, salt : Nat]

ASSUME DeviceSeedAssumption == None \notin DeviceSeed

\* SeedState, one slot of it.
Stream ==
    [active : BOOLEAN, seed : Seeds \cup {None}, counter : Nat, salt : Nat,
     last : Nat \cup {None}, current : DeviceSeed \cup {None}]

Tables == [Slots -> Stream]

EmptyStream ==
    [active |-> FALSE, seed |-> None, counter |-> 0, salt |-> 0, last |-> None, current |-> None]

Live(table) == {s \in Slots : table[s].active}

\* _clear_slot
Cleared(table, slots) == [s \in Slots |-> IF s \in slots THEN EmptyStream ELSE table[s]]

-----------------------------------------------------------------------------
(* Salts. *)

\* The live slots, other than s, whose requests carry the seed.
Twins(table, s, seed) == {t \in Live(table) \ {s} : table[t].seed = seed}

\* Mutant: the salt is 0 whoever else has the seed.
SmallestFreeAlwaysZero(n, taken) == n = 0

\* _next_free_salt: the loop stops at the first salt not taken.
SmallestFree(n, taken) == n \notin taken /\ 0 .. n - 1 \subseteq taken

SaltBound == Cardinality(Slots)

\* _register_slot, for the slots of rank in its order, after all of them were cleared.
Registered(table, rank, seedOf, salting) ==
    LET new == DOMAIN rank
        base == Cleared(table, new)
        earlier(s) == {t \in new : rank[t] < rank[s] /\ seedOf[t] = seedOf[s]}
        taken(s, salt) ==
            {base[t].salt : t \in Twins(base, s, seedOf[s])} \cup {salt[t] : t \in earlier(s)}
        salts == {salt \in [new -> 0 .. SaltBound] :
                     \A s \in new :
                        IF salting /\ seedOf[s] # None THEN SmallestFree(salt[s], taken(s, salt))
                        ELSE salt[s] = 0}
    IN {[s \in Slots |->
            IF s \in new
            THEN [EmptyStream EXCEPT !.active = TRUE, !.seed = seedOf[s], !.salt = salt[s]]
            ELSE base[s]] : salt \in salts}

-----------------------------------------------------------------------------
(* Membership. *)

\* admit: in request order, and always a new stream.
Admitted(table, rank, seedOf, salting) == Registered(table, rank, seedOf, salting)

ChangedMembers(table, members, seedOf) ==
    {s \in members : ~table[s].active \/ table[s].seed # seedOf[s]}

\* synchronize: whatever has ended is removed, new or changed members need a reset.
Synchronized(table, members, seedOf, reset, salting) ==
    LET changed == ChangedMembers(table, members, seedOf)
    IN IF changed # {} /\ ~reset THEN {}
       ELSE Registered(Cleared(table, Slots \ members), [s \in changed |-> s], seedOf, salting)

\* reset_decode: the counters start again, the salts of those that continue stay.
DecodeReset(table, members, seedOf, salting) ==
    {[s \in Slots |->
        IF s \in members
        THEN [synced[s] EXCEPT !.counter = 0, !.last = None, !.current = None] ELSE synced[s]] :
     synced \in Synchronized(table, members, seedOf, TRUE, salting)}

\* reload_request_seeds: the salts of all changed slots are 0 before the first is chosen.
Reloaded(table, members, seedOf, salting) ==
    LET changed == {s \in members : table[s].seed # seedOf[s]}
        among(s) == {t \in changed \ {s} : table[t].active /\ seedOf[t] = seedOf[s]}
        taken(s, salt) ==
            {table[t].salt : t \in Twins(table, s, seedOf[s]) \ changed}
            \cup {IF t < s THEN salt[t] ELSE 0 : t \in among(s)}
        salts == {salt \in [changed -> 0 .. SaltBound] :
                     \A s \in changed :
                        IF salting /\ seedOf[s] # None THEN SmallestFree(salt[s], taken(s, salt))
                        ELSE salt[s] = 0}
    IN {[s \in Slots |->
            IF s \in changed
            THEN [table[s] EXCEPT !.seed = seedOf[s], !.salt = salt[s], !.last = None,
                                  !.current = None]
            ELSE table[s]] : salt \in salts}

Targets(remap) == {s \in Slots : remap[s] # s}
Sources(remap) == {remap[s] : s \in Targets(remap)}

\* No stream is copied to two slots.
ValidRemap(remap) == \A s, t \in Targets(remap) : remap[s] = remap[t] => s = t

\* apply_slot_remap: remap[new] = old; a slot that is only left is vacated.
Remapped(table, remap) ==
    [s \in Slots |->
        IF s \in Targets(remap)
        THEN IF table[remap[s]].active THEN table[remap[s]] ELSE EmptyStream
        ELSE IF s \in Sources(remap) THEN EmptyStream ELSE table[s]]

-----------------------------------------------------------------------------
(* Draws. *)

\* One slot in _advance_seed_values.  A position is hashed as the next counter; at the position
\* of its last draw, an unseeded stream repeats it.
Drawn(stream, position) ==
    LET counter == IF position = None \/ stream.seed = None THEN stream.counter ELSE position + 1
        repeated == /\ stream.seed = None /\ position # None
                    /\ stream.last = position /\ stream.current # None
        draw == [seed |-> stream.seed, counter |-> counter, salt |-> stream.salt]
    IN IF repeated THEN stream
       ELSE [stream EXCEPT !.counter = counter + 1, !.last = position, !.current = draw]

\* refresh, and the draws of both refreshes of a prefill.
Advanced(table, members, positions) ==
    [s \in Slots |-> IF s \in members THEN Drawn(table[s], positions[s]) ELSE table[s]]

\* The rows that refresh writes; None is the default of the row.
RowsOf(table, members) == [s \in Slots |-> IF s \in members THEN table[s].current ELSE None]

\* _write_current_values
CurrentRows(table) == RowsOf(table, Live(table))

DefaultRows == [s \in Slots |-> None]

-----------------------------------------------------------------------------
(* What a table promises. *)

SaltsApart(table) ==
    \A s, t \in Live(table) :
        s # t /\ table[s].seed = table[t].seed /\ table[s].seed # None
            => table[s].salt # table[t].salt

=============================================================================

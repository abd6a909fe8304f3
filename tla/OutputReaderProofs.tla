-------------------------- MODULE OutputReaderProofs --------------------------
(***************************************************************************)
(* Proofs about OutputReader, for any number of threads, reads, object ids *)
(* and failing synchronizations: it implements HostRead, and a drain       *)
(* retires every read it took.                                             *)
(*                                                                         *)
(* A value is looked up by the id of a Python object, which another value  *)
(* may have had before.  The argument is that ids of values still          *)
(* referenced differ (DistinctIds), so the entry a thread finds is that of *)
(* the value it was given; and that a thread carries, through its waits    *)
(* outside the lock, only reads that are pending or completed (Sound).     *)
(***************************************************************************)
EXTENDS OutputReader, FiniteSetTheorems, TLAPS

Retained == pending \cup completed

ThreadState ==
    [at : Steps, exact : BOOLEAN, arg : Nat, read : Nat, snapshot : SUBSET Reads,
     todo : SUBSET Reads, failed : BOOLEAN]

Types ==
    /\ sequence \in 0 .. MaxReads
    /\ id \in [Reads -> Ids \cup {NoId}]
    /\ byValue \in [Ids -> Nat]
    /\ thread \in [Threads -> ThreadState]
    /\ Retained \subseteq 1 .. sequence

\* Copies finish in order, and what is completed or returned is among them.
Copies ==
    /\ \E n \in 0 .. sequence : copied = 1 .. n
    /\ completed \cup returned \subseteq copied

\* The two registries agree, and a caller holds only values that were retained.
Registries ==
    /\ pending \cap completed = {}
    /\ held \subseteq Retained
    /\ \A r \in pending : byValue[id[r]] = r
    /\ \A i \in Ids : byValue[i] # NoRead => byValue[i] \in pending /\ id[byValue[i]] = i

\* Values that are referenced have ids of their own.
DistinctIds ==
    /\ \A r \in 1 .. sequence : id[r] \in Ids
    /\ \A r, q \in Alive \ {NoRead} : id[r] = id[q] => r = q

\* What a thread carries.
Sound(s) ==
    /\ IF s.at = "retain" THEN s.arg \in 1 .. sequence ELSE s.arg \in Retained \cup {NoRead}
    /\ s.read \in Retained \cup {NoRead}
    /\ s.snapshot \subseteq Retained /\ s.todo \subseteq s.snapshot
    /\ s.at = "lookup" => s.arg # NoRead /\ s.snapshot = {}
    /\ s.at \in {"get", "wait", "retire"} =>
         s.read # NoRead /\ (s.snapshot = {} => s.arg = s.read)
    /\ s.at = "retire" => s.read \in copied
    /\ s.at = "next" => s.snapshot # {}
    /\ s.at # "refused"

\* A read that is not retained yet is that of one thread.
Fresh ==
    \A t \in Threads : At(t, "retain") =>
      /\ thread[t].arg \notin Retained
      /\ \A u \in Threads \ {t} : At(u, "retain") => thread[u].arg # thread[t].arg

ReaderInv ==
    /\ Types
    /\ Copies
    /\ Registries
    /\ DistinctIds
    /\ Fresh
    /\ \A t \in Threads : Sound(thread[t])

-----------------------------------------------------------------------------

LEMMA ReaderInitial == ReaderInit => ReaderInv
<1> SUFFICES ASSUME ReaderInit PROVE ReaderInv
  OBVIOUS
<1>1. Idle \in ThreadState
  BY DEF Idle, ThreadState, Steps, NoRead
<1>2. Types
  BY <1>1, BoundsAssumption DEF ReaderInit, Types, Retained, NoRead
<1>3. Copies
  BY BoundsAssumption DEF ReaderInit, Copies
<1>4. Registries /\ Fresh /\ \A t \in Threads : Sound(thread[t])
  BY DEF ReaderInit, Registries, Fresh, Sound, Retained, Idle, At, NoRead
<1>5. DistinctIds
  BY DEF ReaderInit, DistinctIds, Alive, Idle, NoRead
<1> QED BY <1>2, <1>3, <1>4, <1>5 DEF ReaderInv

\* What references a value.
LEMMA AliveIs ==
    \A r : r \in Alive <=>
             \/ r \in held \cup pending
             \/ \E t \in Threads : r = thread[t].arg \/ r = thread[t].read \/ r \in thread[t].snapshot
BY DEF Alive

LEMMA AliveNext ==
    (\A r : r \in Alive <=>
              \/ r \in held \cup pending
              \/ \E t \in Threads : r = thread[t].arg \/ r = thread[t].read \/ r \in thread[t].snapshot)'
BY AliveIs, PTL

\* A step under which the registries and the copies only grow, and which gives one thread a
\* sound state that refers to values already referenced.
LEMMA ThreadStep ==
    ASSUME ReaderInv, UNCHANGED <<sequence, id>>, NEW t \in Threads, NEW s \in ThreadState,
           thread' = [thread EXCEPT ![t] = s],
           Retained \subseteq Retained', Retained' \subseteq 1 .. sequence,
           copied \subseteq copied', byValue' \in [Ids -> Nat],
           held' \cup pending' \subseteq Alive,
           {s.arg, s.read} \cup s.snapshot \subseteq Alive \cup {NoRead},
           Sound(s)', s.at # "retain",
           \A u \in Threads : At(u, "retain") /\ u # t => thread[u].arg \notin Retained'
    PROVE  Types' /\ DistinctIds' /\ Fresh' /\ (\A u \in Threads : Sound(thread[u]))'
<1>1. thread \in [Threads -> ThreadState] /\ thread' \in [Threads -> ThreadState]
  BY DEF ReaderInv, Types
<1>2. Types'
  BY <1>1 DEF ReaderInv, Types
<1>3. \A u \in Threads : thread'[u] = IF u = t THEN s ELSE thread[u]
  BY <1>1
<1>4. Alive' \subseteq Alive \cup {NoRead}
  <2> SUFFICES ASSUME NEW r, r \in Alive' PROVE r \in Alive \cup {NoRead}
    OBVIOUS
  <2>1. CASE r \in held' \cup pending'
    BY <2>1
  <2>2. ASSUME NEW u \in Threads,
               r = thread'[u].arg \/ r = thread'[u].read \/ r \in thread'[u].snapshot
        PROVE  r \in Alive \cup {NoRead}
    BY <1>3, <2>2, AliveIs
  <2> QED BY <2>1, <2>2, AliveNext
<1>5. DistinctIds'
  BY <1>4 DEF ReaderInv, DistinctIds
<1>6. Fresh'
  <2> SUFFICES ASSUME NEW u \in Threads, thread'[u].at = "retain"
               PROVE  /\ thread'[u].arg \notin Retained'
                      /\ \A v \in Threads \ {u} : thread'[v].at = "retain" =>
                           thread'[v].arg # thread'[u].arg
    BY DEF Fresh, At
  <2>1. u # t /\ thread'[u] = thread[u]
    BY <1>3
  <2> QED BY <1>3, <2>1 DEF ReaderInv, Fresh, At
<1>7. ASSUME NEW u \in Threads PROVE Sound(thread[u])'
  <2>1. CASE u = t
    BY <1>3, <2>1 DEF Sound
  <2>2. CASE u # t
    <3>1. thread'[u] = thread[u] /\ Sound(thread[u])
      BY <1>3, <2>2 DEF ReaderInv
    <3> QED BY <3>1 DEF Sound
  <2> QED BY <2>1, <2>2
<1> QED BY <1>2, <1>5, <1>6, <1>7

-----------------------------------------------------------------------------
(* The steps. *)

\* What is referenced was submitted.
LEMMA AliveSubmitted == ReaderInv => Alive \subseteq 0 .. sequence
<1> SUFFICES ASSUME ReaderInv, NEW r \in Alive PROVE r \in 0 .. sequence
  OBVIOUS
<1>1. /\ Retained \subseteq 0 .. sequence /\ held \cup pending \subseteq Retained
      /\ 0 \in 0 .. sequence /\ 1 .. sequence \subseteq 0 .. sequence
  <2>1. sequence \in Nat
    BY BoundsAssumption DEF ReaderInv, Types
  <2> QED BY <2>1 DEF ReaderInv, Types, Registries, Retained
<1>2. ASSUME NEW t \in Threads, r = thread[t].arg \/ r = thread[t].read \/ r \in thread[t].snapshot
      PROVE  r \in 0 .. sequence
  <2>1. Sound(thread[t])
    BY DEF ReaderInv
  <2>2. /\ thread[t].arg \in 1 .. sequence \cup Retained \cup {0}
        /\ thread[t].read \in Retained \cup {0} /\ thread[t].snapshot \subseteq Retained
    BY <2>1 DEF Sound, NoRead
  <2> QED BY <1>1, <1>2, <2>2
<1> QED BY <1>1, <1>2, AliveIs

LEMMA CopyKeeps == ReaderInv /\ CopyDone => ReaderInv'
<1> SUFFICES ASSUME ReaderInv, CopyDone PROVE ReaderInv'
  OBVIOUS
<1>1. PICK n \in 0 .. sequence : copied = 1 .. n
  BY DEF ReaderInv, Copies
<1>2. n \in Nat /\ Cardinality(copied) = n
  BY <1>1, FS_Interval, BoundsAssumption DEF ReaderInv, Types
<1>3. n < sequence /\ copied' = 1 .. (n + 1) /\ sequence \in Nat
  BY <1>1, <1>2, BoundsAssumption DEF CopyDone, ReaderInv, Types
<1>4. Copies'
  <2>1. n + 1 \in 0 .. sequence' /\ copied \subseteq copied'
    BY <1>1, <1>2, <1>3 DEF CopyDone
  <2> QED BY <1>3, <2>1 DEF ReaderInv, Copies, CopyDone
<1>5. (\A t \in Threads : Sound(thread[t]))'
  <2>1. copied \subseteq copied'
    BY <1>1, <1>2, <1>3
  <2> QED BY <2>1 DEF ReaderInv, Sound, CopyDone, Retained
<1>6. (Types /\ Registries /\ DistinctIds /\ Fresh)'
  BY DEF ReaderInv, CopyDone, Types, Registries, DistinctIds, Fresh, Retained, Alive, At
<1> QED BY <1>4, <1>5, <1>6 DEF ReaderInv

LEMMA SubmitKeeps == \A t \in Threads, i \in Ids : ReaderInv /\ Submit(t, i) => ReaderInv'
<1> SUFFICES ASSUME NEW t \in Threads, NEW i \in Ids, ReaderInv, Submit(t, i) PROVE ReaderInv'
  OBVIOUS
<1> DEFINE new == sequence + 1
           s == [Idle EXCEPT !.at = "retain", !.arg = new]
<1>1. /\ sequence' = new /\ new \in Reads /\ sequence \in Nat /\ new \in 1 .. new
      /\ 1 .. sequence \subseteq Reads /\ 1 .. new = (1 .. sequence) \cup {new}
      /\ new \notin 1 .. sequence /\ new \in Nat /\ new # NoRead
      /\ \A r \in (0 .. sequence) \ {NoRead} : r \in 1 .. sequence
  BY BoundsAssumption DEF Submit, ReaderInv, Types, Reads, NoRead
<1>2. s \in ThreadState
  BY <1>1 DEF Idle, ThreadState, Steps, NoRead, Reads
<1>3. /\ thread' = [thread EXCEPT ![t] = s]
      /\ \A u \in Threads : thread'[u] = IF u = t THEN s ELSE thread[u]
  BY <1>1 DEF Submit, Set, ReaderInv, Types
<1>4. UNCHANGED <<copied, pending, byValue, completed, held, returned>> /\ Retained' = Retained
  BY DEF Submit, Retained
<1>5. /\ id' \in [Reads -> Ids \cup {NoId}]
      /\ \A r \in Reads : id'[r] = IF r = new THEN i ELSE id[r]
  BY <1>1 DEF Submit, ReaderInv, Types
<1>6. Types'
  BY <1>1, <1>2, <1>3, <1>4, <1>5 DEF ReaderInv, Types, Reads
<1>7. Copies'
  BY <1>1, <1>4 DEF ReaderInv, Copies
<1>8. Alive \subseteq 0 .. sequence
  BY AliveSubmitted
<1>9. Registries'
  <2>1. \A r \in pending : r # new /\ r \in Reads
    BY <1>1 DEF ReaderInv, Types, Retained
  <2>2. \A j \in Ids : byValue[j] # NoRead => byValue[j] \in pending
    BY DEF ReaderInv, Registries
  <2> QED BY <1>4, <1>5, <2>1, <2>2 DEF ReaderInv, Registries
<1>10. Alive' \subseteq Alive \cup {new, NoRead}
  <2> SUFFICES ASSUME NEW r, r \in Alive' PROVE r \in Alive \cup {new, NoRead}
    OBVIOUS
  <2>1. CASE r \in held' \cup pending'
    BY <1>4, <2>1, AliveIs
  <2>2. ASSUME NEW u \in Threads,
               r = thread'[u].arg \/ r = thread'[u].read \/ r \in thread'[u].snapshot
        PROVE  r \in Alive \cup {new, NoRead}
    BY <1>3, <2>2, AliveIs DEF Idle
  <2> QED BY <2>1, <2>2, AliveNext
<1>11. DistinctIds'
  <2>1. \A r \in Alive \ {NoRead} : r \in 1 .. sequence /\ r # new /\ r \in Reads
    BY <1>1, <1>8
  <2>2. \A r \in Alive \ {NoRead} : id[r] # i
    BY DEF Submit, FreeIds
  <2>3. \A r \in 1 .. new : id'[r] \in Ids
    BY <1>1, <1>5 DEF ReaderInv, DistinctIds
  <2>4. ASSUME NEW r \in Alive' \ {NoRead}, NEW q \in Alive' \ {NoRead}, id'[r] = id'[q]
        PROVE  r = q
    <3>1. r \in (Alive \ {NoRead}) \cup {new} /\ q \in (Alive \ {NoRead}) \cup {new}
      BY <1>10, <2>4
    <3>2. CASE r = new /\ q # new
      BY <1>1, <1>5, <2>1, <2>2, <2>4, <3>1, <3>2
    <3>3. CASE q = new /\ r # new
      BY <1>1, <1>5, <2>1, <2>2, <2>4, <3>1, <3>3
    <3>4. CASE q # new /\ r # new
      BY <1>5, <2>1, <2>4, <3>1, <3>4 DEF ReaderInv, DistinctIds
    <3> QED BY <3>2, <3>3, <3>4
  <2> QED BY <1>1, <2>3, <2>4 DEF DistinctIds
<1>12. Fresh'
  <2>1. new \notin Retained
    BY <1>1 DEF ReaderInv, Types
  <2>2. \A u \in Threads : At(u, "retain") => thread[u].arg # new
    BY <1>1 DEF ReaderInv, Sound, At
  <2> QED BY <1>3, <1>4, <2>1, <2>2 DEF ReaderInv, Fresh, At, Idle
<1>13. ASSUME NEW u \in Threads PROVE Sound(thread[u])'
  <2>1. CASE u = t
    <3>1. thread'[u] = s /\ s.at = "retain" /\ s.arg = new /\ s.read = NoRead /\ s.snapshot = {} /\ s.todo = {}
      BY <1>3, <2>1 DEF Idle
    <3> HIDE DEF s
    <3> QED BY <1>1, <3>1 DEF Sound
  <2>2. CASE u # t
    <3>1. thread'[u] = thread[u] /\ Sound(thread[u])
      BY <1>3, <2>2 DEF ReaderInv
    <3> QED BY <1>1, <1>4, <3>1 DEF Sound
  <2> QED BY <2>1, <2>2
<1> QED BY <1>6, <1>7, <1>9, <1>11, <1>12, <1>13 DEF ReaderInv

LEMMA RetainKeeps == \A t \in Threads : ReaderInv /\ Retain(t) => ReaderInv'
<1> SUFFICES ASSUME NEW t \in Threads, ReaderInv, Retain(t) PROVE ReaderInv'
  OBVIOUS
<1> DEFINE r == thread[t].arg
<1>1. /\ r \in 1 .. sequence /\ r \notin Retained /\ r \in Alive
      /\ \A u \in Threads \ {t} : At(u, "retain") => thread[u].arg # r
  BY AliveIs DEF Retain, ReaderInv, Sound, Fresh, At
<1>2. /\ pending' = pending \cup {r} /\ held' = held \cup {r}
      /\ byValue' = [byValue EXCEPT ![id[r]] = r]
      /\ thread' = [thread EXCEPT ![t] = Idle]
      /\ UNCHANGED <<sequence, copied, id, completed, returned>>
  BY DEF Retain, Set
<1>3. sequence \in Nat /\ r \in Nat /\ r # NoRead /\ id[r] \in Ids /\ 1 .. sequence \subseteq Reads
  BY <1>1, BoundsAssumption DEF ReaderInv, Types, DistinctIds, Reads, NoRead
<1>4. Idle \in ThreadState /\ Sound(Idle)'
  BY DEF Idle, ThreadState, Steps, NoRead, Sound
<1>5. pending \cup held \subseteq Alive /\ pending \subseteq Retained /\ completed \subseteq Retained
  BY AliveIs DEF Retained
<1>6. Retained' = Retained \cup {r} /\ Retained \subseteq 1 .. sequence
  BY <1>2 DEF Retained, ReaderInv, Types
<1>7. byValue' \in [Ids -> Nat]
  BY <1>2, <1>3 DEF ReaderInv, Types
<1>8. Types' /\ DistinctIds' /\ Fresh' /\ (\A u \in Threads : Sound(thread[u]))'
  <2>1. held' \cup pending' \subseteq Alive
    BY <1>1, <1>2, <1>5
  <2>2. {Idle.arg, Idle.read} \cup Idle.snapshot \subseteq Alive \cup {NoRead} /\ Idle.at # "retain"
    BY DEF Idle
  <2>3. \A u \in Threads : At(u, "retain") /\ u # t => thread[u].arg \notin Retained'
    BY <1>1, <1>6 DEF ReaderInv, Fresh
  <2> HIDE DEF r
  <2> QED BY <1>1, <1>2, <1>4, <1>6, <1>7, <2>1, <2>2, <2>3, ThreadStep
<1>9. Registries'
  <2>1. \A q \in pending : id[q] # id[r] /\ id[q] \in Ids
    <3> SUFFICES ASSUME NEW q \in pending PROVE id[q] # id[r] /\ id[q] \in Ids
      OBVIOUS
    <3>1. q \in Alive /\ q # r /\ q \in 1 .. sequence /\ q # NoRead
      BY <1>1, <1>5, <1>6 DEF NoRead
    <3> QED BY <1>1, <1>3, <3>1 DEF ReaderInv, DistinctIds
  <2>2. \A i \in Ids : byValue'[i] = IF i = id[r] THEN r ELSE byValue[i]
    BY <1>2 DEF ReaderInv, Types
  <2> HIDE DEF r
  <2>3. (pending \cap completed = {} /\ held \subseteq Retained)'
    BY <1>1, <1>2, <1>6, <1>5 DEF ReaderInv, Registries
  <2>4. \A q \in pending' : byValue'[id'[q]] = q
    BY <1>2, <1>3, <2>1, <2>2 DEF ReaderInv, Registries
  <2>5. \A i \in Ids : byValue'[i] # NoRead => byValue'[i] \in pending' /\ id'[byValue'[i]] = i
    BY <1>2, <2>2 DEF ReaderInv, Registries
  <2> QED BY <2>3, <2>4, <2>5 DEF Registries
<1>10. Copies'
  BY <1>2 DEF ReaderInv, Copies
<1> QED BY <1>8, <1>9, <1>10 DEF ReaderInv

-----------------------------------------------------------------------------
(* The steps of a call that leave the registries alone. *)

Refined == [Promise!Next]_(Promise!vars)

\* s may replace what the thread carries: it refers to nothing new.
Carries(s) ==
    /\ s \in ThreadState
    /\ Sound(s) /\ s.at # "retain"
    /\ {s.arg, s.read} \cup s.snapshot \subseteq Alive \cup {NoRead}

\* What a call may report as complete.
Reports == returned' = returned \/ \E r \in copied : returned' = returned \cup {r}

LEMMA CallStep ==
    ASSUME ReaderInv, UNCHANGED <<sequence, copied, id, pending, byValue, completed, held>>,
           NEW t \in Threads, NEW s, Carries(s), thread' = [thread EXCEPT ![t] = s], Reports
    PROVE  ReaderInv' /\ Refined
<1>1. /\ Retained' = Retained /\ Retained \subseteq 1 .. sequence
      /\ byValue' \in [Ids -> Nat] /\ held' \cup pending' \subseteq Alive
  BY AliveIs DEF Retained, ReaderInv, Types
<1>2. Sound(s)'
  BY <1>1 DEF Carries, Sound
<1>3. \A u \in Threads : At(u, "retain") /\ u # t => thread[u].arg \notin Retained'
  BY <1>1 DEF ReaderInv, Fresh
<1>4. Types' /\ DistinctIds' /\ Fresh' /\ (\A u \in Threads : Sound(thread[u]))'
  BY <1>1, <1>2, <1>3, ThreadStep DEF Carries
<1>5. Registries'
  BY <1>1 DEF ReaderInv, Registries
<1>6. Copies'
  BY DEF ReaderInv, Copies, Reports
<1>7. copied \subseteq Reads
  BY BoundsAssumption DEF ReaderInv, Copies, Types, Reads
<1>8. Refined
  BY <1>7 DEF Reports, Refined, Promise!Next, Promise!Return, Promise!vars
<1> QED BY <1>4, <1>5, <1>6, <1>8 DEF ReaderInv

\* A call ends with a value that is complete, and a drain goes on.
LEMMA EndCompleteCarries ==
    ASSUME ReaderInv, NEW t \in Threads, EndComplete(t), thread[t].at # "retain",
           thread[t].snapshot = {} => thread[t].arg \in copied
    PROVE  Reports /\ \E s : Carries(s) /\ thread' = [thread EXCEPT ![t] = s]
<1>1. thread[t] \in ThreadState /\ Sound(thread[t])
  BY DEF ReaderInv, Types
<1>2. CASE thread[t].snapshot = {}
  <2>1. Carries(Idle)
    BY DEF Carries, Sound, Idle, ThreadState, Steps, NoRead
  <2> QED BY <1>2, <2>1 DEF EndComplete, Set, Reports
<1>3. CASE thread[t].snapshot # {}
  <2> DEFINE s == [thread[t] EXCEPT !.at = "next"]
  <2>1. s \in ThreadState
    BY <1>1 DEF ThreadState, Steps
  <2>2. Sound(s) /\ s.at # "retain"
    BY <1>1, <1>3 DEF Sound, ThreadState
  <2>3. {s.arg, s.read} \cup s.snapshot \subseteq Alive
    BY <1>1, AliveIs DEF ThreadState
  <2>4. thread' = [thread EXCEPT ![t] = s] /\ returned' = returned
    BY <1>3 DEF EndComplete, Go
  <2> QED BY <2>1, <2>2, <2>3, <2>4 DEF Carries, Reports
<1> QED BY <1>2, <1>3

\* What a thread carries at a place other than its present one.
LEMMA GoCarries ==
    ASSUME ReaderInv, NEW t \in Threads, NEW step \in {"wait", "retire", "get", "next"},
           Sound([thread[t] EXCEPT !.at = step])
    PROVE  Carries([thread[t] EXCEPT !.at = step])
<1>1. thread[t] \in ThreadState
  BY DEF ReaderInv, Types
<1> QED BY <1>1, AliveIs DEF Carries, ThreadState, Steps

LEMMA CompleteKeeps ==
    \A t \in Threads, r \in Reads, exact \in BOOLEAN :
      ReaderInv /\ Complete(t, r, exact) => ReaderInv' /\ Refined
<1> SUFFICES ASSUME NEW t \in Threads, NEW r \in Reads, NEW exact \in BOOLEAN,
                    ReaderInv, Complete(t, r, exact)
             PROVE  ReaderInv' /\ Refined
  OBVIOUS
<1> DEFINE s == [Idle EXCEPT !.at = IF exact THEN "get" ELSE "lookup", !.exact = exact, !.arg = r,
                             !.read = IF exact THEN r ELSE NoRead]
<1>1. r \in Retained /\ r \in Alive /\ r \in Nat /\ r # NoRead
  BY AliveIs DEF Complete, ReaderInv, Registries, Reads, NoRead
<1>2. s \in ThreadState
  BY <1>1 DEF Idle, ThreadState, Steps, NoRead
<1>3. Sound(s) /\ s.at # "retain" /\ {s.arg, s.read} \cup s.snapshot \subseteq Alive \cup {NoRead}
  BY <1>1 DEF Idle, Sound
<1>4. thread' = [thread EXCEPT ![t] = s] /\ Reports
  BY DEF Complete, Set, Reports
<1> HIDE DEF s
<1> QED BY <1>2, <1>3, <1>4, CallStep DEF Complete, Carries

\* The entry found is that of the value asked for: its id is its own.
LEMMA LookupKeeps == \A t \in Threads : ReaderInv /\ Lookup(t) => ReaderInv' /\ Refined
<1> SUFFICES ASSUME NEW t \in Threads, ReaderInv, Lookup(t) PROVE ReaderInv' /\ Refined
  OBVIOUS
<1> DEFINE r == thread[t].arg
           found == byValue[id[r]]
<1>1. /\ thread[t] \in ThreadState /\ Sound(thread[t]) /\ thread[t].at = "lookup"
      /\ r \in Retained /\ r \in Alive /\ r # NoRead /\ thread[t].snapshot = {}
  BY AliveIs DEF ReaderInv, Types, Lookup, At, Sound, NoRead
<1>2. id[r] \in Ids
  BY <1>1 DEF ReaderInv, DistinctIds, Types
<1>3. CASE found = NoRead
  <2>1. r \notin pending
    BY <1>1, <1>3 DEF ReaderInv, Registries
  <2>2. r \in copied /\ EndComplete(t)
    BY <1>1, <1>3, <2>1 DEF Retained, ReaderInv, Copies, Lookup
  <2>3. Reports /\ \E s : Carries(s) /\ thread' = [thread EXCEPT ![t] = s]
    BY <1>1, <2>2, EndCompleteCarries
  <2> QED BY <2>3, CallStep DEF Lookup
<1>4. CASE found # NoRead
  <2> DEFINE s == [thread[t] EXCEPT !.at = "get", !.read = found]
  <2>1. found \in pending /\ id[found] = id[r] /\ found \in Alive
    BY <1>2, <1>4, AliveIs DEF ReaderInv, Registries
  <2>2. found = r
    BY <1>1, <1>4, <2>1 DEF ReaderInv, DistinctIds
  <2>3. r \in Nat
    BY <1>1 DEF ThreadState
  <2> HIDE DEF found
  <2>4. s \in ThreadState
    BY <1>1, <2>2, <2>3 DEF ThreadState, Steps
  <2>5. Sound(s) /\ s.at # "retain" /\ {s.arg, s.read} \cup s.snapshot \subseteq Alive \cup {NoRead}
    BY <1>1, <2>2 DEF Sound, ThreadState
  <2>6. thread' = [thread EXCEPT ![t] = s] /\ Reports
    BY <1>4 DEF Lookup, found, Reports
  <2> HIDE DEF s
  <2> QED BY <2>4, <2>5, <2>6, CallStep DEF Lookup, Carries
<1> QED BY <1>3, <1>4

\* A read without an entry was completed by another thread: it is never refused.
LEMMA GetKeeps == \A t \in Threads : ReaderInv /\ Get(t) => ReaderInv' /\ Refined
<1> SUFFICES ASSUME NEW t \in Threads, ReaderInv, Get(t) PROVE ReaderInv' /\ Refined
  OBVIOUS
<1>1. /\ thread[t] \in ThreadState /\ Sound(thread[t]) /\ thread[t].at = "get"
      /\ thread[t].read \in Retained
      /\ thread[t].snapshot = {} => thread[t].arg = thread[t].read
  BY DEF ReaderInv, Types, Get, At, Sound, NoRead
<1>2. CASE thread[t].read \notin pending
  <2>1. thread[t].read \in completed /\ thread[t].read \in copied
    BY <1>1, <1>2 DEF Retained, ReaderInv, Copies
  <2>2. EndComplete(t)
    BY <1>2, <2>1 DEF Get
  <2>3. Reports /\ \E s : Carries(s) /\ thread' = [thread EXCEPT ![t] = s]
    BY <1>1, <2>1, <2>2, EndCompleteCarries
  <2> QED BY <2>3, CallStep DEF Get
<1>3. CASE thread[t].read \in pending
  <2>1. thread' = [thread EXCEPT ![t] = [thread[t] EXCEPT !.at = "wait"]] /\ Reports
    BY <1>3 DEF Get, Go, Reports
  <2>2. Sound([thread[t] EXCEPT !.at = "wait"])
    BY <1>1 DEF Sound, ThreadState
  <2> QED BY <2>1, <2>2, GoCarries, CallStep DEF Get
<1> QED BY <1>2, <1>3

\* A wait that ends finds the copy done; one that raises ends the call, or the drain goes on.
LEMMA WaitKeeps == \A t \in Threads : ReaderInv /\ (Wait(t) \/ WaitFails(t)) => ReaderInv' /\ Refined
<1> SUFFICES ASSUME NEW t \in Threads, ReaderInv, Wait(t) \/ WaitFails(t)
             PROVE  ReaderInv' /\ Refined
  OBVIOUS
<1>1. /\ thread[t] \in ThreadState /\ Sound(thread[t]) /\ thread[t].at = "wait"
      /\ UNCHANGED <<sequence, copied, id, pending, byValue, completed, held, returned>>
  BY DEF ReaderInv, Types, Wait, WaitFails, At
<1>2. CASE Wait(t)
  <2>1. thread' = [thread EXCEPT ![t] = [thread[t] EXCEPT !.at = "retire"]]
    BY <1>2 DEF Wait, Go
  <2>2. Sound([thread[t] EXCEPT !.at = "retire"])
    BY <1>1, <1>2 DEF Wait, Sound, ThreadState
  <2> QED BY <1>1, <2>1, <2>2, GoCarries, CallStep DEF Reports
<1>3. CASE WaitFails(t) /\ thread[t].snapshot = {}
  <2>1. Carries(Idle)
    BY DEF Carries, Sound, Idle, ThreadState, Steps, NoRead
  <2>2. thread' = [thread EXCEPT ![t] = Idle]
    BY <1>3 DEF WaitFails, Set
  <2> QED BY <1>1, <2>1, <2>2, CallStep DEF Reports
<1>4. CASE WaitFails(t) /\ thread[t].snapshot # {}
  <2> DEFINE s == [thread[t] EXCEPT !.at = "next", !.failed = TRUE]
  <2>1. thread' = [thread EXCEPT ![t] = s]
    BY <1>4 DEF WaitFails
  <2>2. s \in ThreadState
    BY <1>1 DEF ThreadState, Steps
  <2>3. Sound(s) /\ s.at # "retain" /\ {s.arg, s.read} \cup s.snapshot \subseteq Alive \cup {NoRead}
    BY <1>1, <1>4, AliveIs DEF Sound, ThreadState
  <2> HIDE DEF s
  <2> QED BY <1>1, <2>1, <2>2, <2>3, CallStep DEF Carries, Reports
<1> QED BY <1>2, <1>3, <1>4

LEMMA DrainKeeps ==
    \A t \in Threads : ReaderInv /\ (Drain(t) \/ DrainNext(t) \/ DrainEnds(t)) => ReaderInv' /\ Refined
<1> SUFFICES ASSUME NEW t \in Threads, ReaderInv, Drain(t) \/ DrainNext(t) \/ DrainEnds(t)
             PROVE  ReaderInv' /\ Refined
  OBVIOUS
<1>1. /\ thread[t] \in ThreadState /\ Sound(thread[t]) /\ pending \subseteq Reads
      /\ UNCHANGED <<sequence, copied, id, pending, byValue, completed, held, returned>>
  <2>1. thread[t] \in ThreadState /\ Sound(thread[t])
    BY DEF ReaderInv, Types
  <2>2. pending \subseteq 1 .. sequence /\ 1 .. sequence \subseteq Reads
    BY BoundsAssumption DEF ReaderInv, Types, Retained, Reads
  <2> QED BY <2>1, <2>2 DEF Drain, DrainNext, DrainEnds
<1>2. CASE Drain(t)
  <2> DEFINE s == [Idle EXCEPT !.at = "next", !.snapshot = pending, !.todo = pending]
  <2>1. thread' = [thread EXCEPT ![t] = s]
    BY <1>2 DEF Drain, Set
  <2>2. s \in ThreadState
    BY <1>1 DEF Idle, ThreadState, Steps, NoRead
  <2>3. Sound(s) /\ s.at # "retain" /\ {s.arg, s.read} \cup s.snapshot \subseteq Alive \cup {NoRead}
    BY <1>2, AliveIs DEF Idle, Sound, Retained, Drain
  <2> HIDE DEF s
  <2> QED BY <1>1, <2>1, <2>2, <2>3, CallStep DEF Carries, Reports
<1>3. CASE DrainNext(t)
  <2>1. PICK r \in thread[t].todo :
          thread' = [thread EXCEPT ![t] = [thread[t] EXCEPT !.at = "get", !.exact = TRUE, !.read = r,
                                                            !.todo = thread[t].todo \ {r}]]
    BY <1>3 DEF DrainNext
  <2> DEFINE s == [thread[t] EXCEPT !.at = "get", !.exact = TRUE, !.read = r,
                                    !.todo = thread[t].todo \ {r}]
  <2>2. /\ thread[t].at = "next" /\ r \in thread[t].snapshot /\ r \in Retained /\ r \in Alive
        /\ r \in Nat /\ r # NoRead
    <3>1. thread[t].at = "next" /\ r \in thread[t].snapshot /\ r \in Retained /\ r \in Reads
      BY <1>1, <1>3, <2>1 DEF DrainNext, At, Sound, ThreadState
    <3> QED BY <3>1, AliveIs, BoundsAssumption DEF Reads, NoRead
  <2>3. s \in ThreadState
    BY <1>1, <2>2 DEF ThreadState, Steps
  <2>4. Sound(s) /\ s.at # "retain" /\ {s.arg, s.read} \cup s.snapshot \subseteq Alive \cup {NoRead}
    BY <1>1, <2>2, AliveIs DEF Sound, ThreadState
  <2>5. thread' = [thread EXCEPT ![t] = s]
    BY <2>1
  <2> HIDE DEF s
  <2> QED BY <1>1, <2>3, <2>4, <2>5, CallStep DEF Carries, Reports
<1>4. CASE DrainEnds(t)
  <2>1. Carries(Idle)
    BY DEF Carries, Sound, Idle, ThreadState, Steps, NoRead
  <2>2. thread' = [thread EXCEPT ![t] = Idle]
    BY <1>4 DEF DrainEnds, Set
  <2> QED BY <1>1, <2>1, <2>2, CallStep DEF Reports
<1> QED BY <1>2, <1>3, <1>4

-----------------------------------------------------------------------------
(* Retiring, and dropping a value. *)

LEMMA RetireKeeps == \A t \in Threads : ReaderInv /\ Retire(t) => ReaderInv' /\ Refined
<1> SUFFICES ASSUME NEW t \in Threads, ReaderInv, Retire(t) PROVE ReaderInv' /\ Refined
  OBVIOUS
<1> DEFINE r == thread[t].read
<1>1. /\ thread[t] \in ThreadState /\ Sound(thread[t]) /\ thread[t].at = "retire"
      /\ r \in Retained /\ r \in copied /\ r \in Nat /\ r \in 1 .. sequence
      /\ thread[t].snapshot = {} => thread[t].arg = r
  BY DEF ReaderInv, Types, Retire, At, Sound, NoRead, ThreadState
<1>2. EndComplete(t) /\ UNCHANGED <<sequence, copied, id, held>>
  BY DEF Retire
<1>3. PICK s : Carries(s) /\ thread' = [thread EXCEPT ![t] = s]
  BY <1>1, <1>2, EndCompleteCarries
<1>4. returned' = returned \/ returned' = returned \cup {r}
  BY <1>1, <1>2 DEF EndComplete
<1>5. CASE r \notin pending
  <2>1. UNCHANGED <<pending, byValue, completed>>
    BY <1>5 DEF Retire
  <2>2. Reports
    BY <1>1, <1>4 DEF Reports
  <2> HIDE DEF r
  <2> QED BY <1>2, <1>3, <2>1, <2>2, CallStep
<1>6. CASE r \in pending
  <2>1. /\ pending' = pending \ {r} /\ completed' = completed \cup {r}
        /\ byValue' = [byValue EXCEPT ![id[r]] = NoRead]
    BY <1>6 DEF Retire
  <2>2. /\ id[r] \in Ids /\ r # NoRead /\ pending \cup held \subseteq Alive
        /\ 1 .. sequence \subseteq Reads
    BY <1>1, AliveIs, BoundsAssumption DEF ReaderInv, DistinctIds, NoRead, Types, Reads
  <2> HIDE DEF r
  <2>3. /\ Retained' = Retained /\ Retained \subseteq 1 .. sequence
        /\ byValue' \in [Ids -> Nat] /\ held' \cup pending' \subseteq Alive
    BY <1>2, <1>6, <2>1, <2>2 DEF Retained, ReaderInv, Types, NoRead
  <2>4. Sound(s)'
    BY <1>2, <1>3, <2>3 DEF Carries, Sound
  <2>5. \A u \in Threads : At(u, "retain") /\ u # t => thread[u].arg \notin Retained'
    BY <2>3 DEF ReaderInv, Fresh
  <2>6. Types' /\ DistinctIds' /\ Fresh' /\ (\A u \in Threads : Sound(thread[u]))'
    BY <1>2, <1>3, <2>3, <2>4, <2>5, ThreadStep DEF Carries
  <2>7. Registries'
    <3>1. \A q \in pending' : q # r /\ id[q] # id[r] /\ id[q] \in Ids
      <4> SUFFICES ASSUME NEW q \in pending, q # r PROVE id[q] # id[r] /\ id[q] \in Ids
        BY <2>1
      <4>1. q \in Alive /\ r \in Alive /\ q \in 1 .. sequence /\ q # NoRead
        BY <1>6, <2>2, <2>3 DEF Retained, NoRead
      <4> QED BY <2>2, <4>1 DEF ReaderInv, DistinctIds
    <3>2. \A i \in Ids : byValue'[i] = IF i = id[r] THEN NoRead ELSE byValue[i]
      BY <2>1 DEF ReaderInv, Types
    <3>3. (pending \cap completed = {} /\ held \subseteq Retained)'
      BY <1>2, <2>1, <2>3 DEF ReaderInv, Registries
    <3>4. \A q \in pending' : byValue'[id'[q]] = q
      BY <1>2, <2>1, <3>1, <3>2 DEF ReaderInv, Registries
    <3>5. \A i \in Ids : byValue'[i] # NoRead => byValue'[i] \in pending' /\ id'[byValue'[i]] = i
      BY <1>2, <2>1, <3>2 DEF ReaderInv, Registries
    <3> QED BY <3>3, <3>4, <3>5 DEF Registries
  <2>8. Copies'
    BY <1>1, <1>2, <1>4, <2>1 DEF ReaderInv, Copies
  <2>9. Refined
    BY <1>1, <1>2, <1>4, <1>6, <2>1, <2>2 DEF Refined, Promise!Next, Promise!Retire
  <2> QED BY <2>6, <2>7, <2>8, <2>9 DEF ReaderInv
<1> QED BY <1>5, <1>6

LEMMA DropKeeps == \A r \in Reads : ReaderInv /\ Drop(r) => ReaderInv'
<1> SUFFICES ASSUME NEW r \in Reads, ReaderInv, Drop(r) PROVE ReaderInv'
  OBVIOUS
<1>1. /\ held' \subseteq held
      /\ UNCHANGED <<sequence, copied, id, pending, byValue, completed, returned, thread>>
  BY DEF Drop
<1>2. Alive' \subseteq Alive
  BY <1>1, AliveIs, AliveNext
<1> QED BY <1>1, <1>2
        DEF ReaderInv, Types, Copies, Registries, DistinctIds, Fresh, Sound, Retained, At

-----------------------------------------------------------------------------
(* The reader implements its promise. *)

LEMMA ReaderStep == ReaderInv /\ [ReaderNext]_readerVars => ReaderInv' /\ Refined
<1> SUFFICES ASSUME ReaderInv, [ReaderNext]_readerVars PROVE ReaderInv' /\ Refined
  OBVIOUS
<1>1. CASE UNCHANGED readerVars
  <2>1. ReaderInv'
    <3>1. Alive' = Alive /\ Retained' = Retained
      BY <1>1 DEF readerVars, Alive, Retained
    <3>2. (Types /\ Copies /\ Registries /\ DistinctIds)'
      BY <1>1, <3>1 DEF readerVars, ReaderInv, Types, Copies, Registries, DistinctIds
    <3>3. (Fresh /\ \A t \in Threads : Sound(thread[t]))'
      BY <1>1, <3>1 DEF readerVars, ReaderInv, Fresh, Sound, At
    <3> QED BY <3>2, <3>3 DEF ReaderInv
  <2> QED BY <1>1, <2>1 DEF readerVars, Refined, Promise!vars
<1>2. CASE CopyDone
  <2>1. \E n \in 0 .. sequence : copied = 1 .. n
    BY DEF ReaderInv, Copies
  <2>2. copied' = copied \cup {Cardinality(copied) + 1} /\ Cardinality(copied) + 1 \in Reads
    <3>1. PICK n \in 0 .. sequence : copied = 1 .. n
      BY <2>1
    <3>2. Cardinality(copied) = n
      BY <3>1, FS_Interval, BoundsAssumption DEF ReaderInv, Types
    <3> QED BY <1>2, <3>2, BoundsAssumption DEF CopyDone, ReaderInv, Types, Reads
  <2> QED BY <1>2, <2>2, CopyKeeps DEF CopyDone, Refined, Promise!Next, Promise!Copy
<1>3. ASSUME NEW t \in Threads, NEW i \in Ids, Submit(t, i) PROVE ReaderInv' /\ Refined
  BY <1>3, SubmitKeeps DEF Submit, Refined, Promise!vars
<1>4. ASSUME NEW t \in Threads, Retain(t) PROVE ReaderInv' /\ Refined
  <2> DEFINE r == thread[t].arg
  <2>1. r \in Reads /\ r \notin pending \cup completed
    BY <1>4, BoundsAssumption DEF Retain, ReaderInv, Types, Sound, Fresh, At, Retained, Reads
  <2>2. pending' = pending \cup {r} /\ UNCHANGED <<copied, completed, returned>>
    BY <1>4 DEF Retain
  <2>3. Refined
    BY <2>1, <2>2 DEF Refined, Promise!Next, Promise!Own
  <2> QED BY <1>4, <2>3, RetainKeeps
<1>5. ASSUME NEW t \in Threads, Continue(t) PROVE ReaderInv' /\ Refined
  BY <1>4, <1>5, LookupKeeps, GetKeeps, WaitKeeps, RetireKeeps, DrainKeeps DEF Continue
<1>6. ASSUME NEW r \in Reads, Drop(r) PROVE ReaderInv' /\ Refined
  BY <1>6, DropKeeps DEF Drop, Refined, Promise!vars
<1> QED BY <1>1, <1>2, <1>3, <1>5, <1>6, CompleteKeeps, DrainKeeps DEF ReaderNext

\* Whatever threads submit, complete, drain and drop, and however often ids are reused: the
\* reader owns each host destination from its submission until the device has written it,
\* gives it up once, and reports no value as complete before.
THEOREM KeepsItsPromise == ReaderSpec => HostReadSpec
<1>1. ReaderInit => Promise!Init
  BY DEF ReaderInit, Promise!Init
<1>2. ReaderInv /\ [ReaderNext]_readerVars => [Promise!Next]_(Promise!vars)
  BY ReaderStep DEF Refined
<1>3. ReaderInv /\ [ReaderNext]_readerVars => ReaderInv'
  BY ReaderStep
<1> QED BY ReaderInitial, <1>1, <1>2, <1>3, PTL DEF ReaderSpec, HostReadSpec, Promise!Spec

\* A thread that completes or drains a read this reader gave out is never refused: "Completion
\* is idempotent", also when another thread has retired the read meanwhile.
THEOREM NeverRefused == ReaderSpec => [](\A t \in Threads : ~At(t, "refused"))
<1>1. ReaderInv /\ [ReaderNext]_readerVars => ReaderInv'
  BY ReaderStep
<1>2. ReaderInv => \A t \in Threads : ~At(t, "refused")
  BY DEF ReaderInv, Sound, At
<1> QED BY ReaderInitial, <1>1, <1>2, PTL DEF ReaderSpec

-----------------------------------------------------------------------------
(* A drain retires what it took.                                           *)

\* The read a thread is at.
UnderWay(s) == IF s.at \in {"get", "wait", "retire"} THEN {s.read} ELSE {}

\* Of the reads a drain took, none it is done with is still among the pending reads p, unless
\* a synchronization failed.
Drained(s, p) ==
    s.snapshot # {} /\ ~s.failed => (s.snapshot \ s.todo) \cap p \subseteq UnderWay(s)

DrainInv == ReaderInv /\ \A t \in Threads : Drained(thread[t], pending)

LEMMA DrainInitial == ReaderInit => DrainInv
BY ReaderInitial DEF DrainInv, ReaderInit, Drained

\* No step makes a read pending again, so a step that gives one thread a state that keeps to
\* Drained leaves the others at theirs.
LEMMA DrainedBy ==
    ASSUME DrainInv, pending' \cap Retained \subseteq pending, NEW t \in Threads, NEW s,
           thread' = [thread EXCEPT ![t] = s], Drained(s, pending')
    PROVE  \A u \in Threads : Drained(thread'[u], pending')
<1> SUFFICES ASSUME NEW u \in Threads PROVE Drained(thread'[u], pending')
  OBVIOUS
<1>1. thread \in [Threads -> ThreadState] /\ Sound(thread[u]) /\ Drained(thread[u], pending)
  BY DEF DrainInv, ReaderInv, Types
<1>2. CASE u = t
  BY <1>1, <1>2
<1>3. CASE u # t
  <2>1. thread'[u] = thread[u]
    BY <1>1, <1>3
  <2>2. thread[u].snapshot \cap pending' \subseteq pending
    BY <1>1 DEF Sound
  <2> QED BY <1>1, <2>1, <2>2 DEF Drained, UnderWay
<1> QED BY <1>2, <1>3

\* A thread whose read is no longer pending may go on to the next.
LEMMA DrainGoesOn ==
    ASSUME DrainInv, pending' \cap Retained \subseteq pending, NEW t \in Threads, EndComplete(t),
           thread[t].read \notin pending' \/ thread[t].at = "lookup"
    PROVE  \A u \in Threads : Drained(thread'[u], pending')
<1>1. /\ thread[t] \in ThreadState /\ Sound(thread[t]) /\ Drained(thread[t], pending)
  BY DEF DrainInv, ReaderInv, Types
<1>2. CASE thread[t].snapshot = {}
  <2>1. thread' = [thread EXCEPT ![t] = Idle]
    BY <1>2 DEF EndComplete, Set
  <2>2. Drained(Idle, pending')
    BY DEF Drained, Idle
  <2> QED BY <2>1, <2>2, DrainedBy
<1>3. CASE thread[t].snapshot # {}
  <2> DEFINE s == [thread[t] EXCEPT !.at = "next"]
  <2>1. thread' = [thread EXCEPT ![t] = s]
    BY <1>3 DEF EndComplete, Go
  <2>2. thread[t].read \notin pending'
    BY <1>1, <1>3 DEF Sound
  <2>3. thread[t].snapshot \cap pending' \subseteq pending
    BY <1>1 DEF Sound
  <2>4. /\ s.snapshot = thread[t].snapshot /\ s.todo = thread[t].todo
        /\ s.failed = thread[t].failed /\ s.at = "next"
    BY <1>1 DEF ThreadState
  <2>5. Drained(s, pending')
    BY <1>1, <2>2, <2>3, <2>4 DEF Drained, UnderWay
  <2> QED BY <2>1, <2>5, DrainedBy
<1> QED BY <1>2, <1>3

LEMMA DrainStep ==
    DrainInv /\ [ReaderNext]_readerVars => \A u \in Threads : Drained(thread'[u], pending')
<1> SUFFICES ASSUME DrainInv, [ReaderNext]_readerVars
             PROVE  \A u \in Threads : Drained(thread'[u], pending')
  OBVIOUS
<1>1. Drained(Idle, pending')
  BY DEF Drained, Idle
<1>2. CASE UNCHANGED <<pending, thread>>
  BY <1>2 DEF DrainInv
<1>3. ASSUME NEW t \in Threads, NEW i \in Ids, Submit(t, i)
      PROVE  \A u \in Threads : Drained(thread'[u], pending')
  <2> DEFINE s == [Idle EXCEPT !.at = "retain", !.arg = sequence']
  <2>1. thread' = [thread EXCEPT ![t] = s] /\ pending' = pending
    BY <1>3 DEF Submit, Set
  <2>2. Drained(s, pending')
    BY DEF Drained, Idle
  <2> QED BY <2>1, <2>2, DrainedBy
<1>4. ASSUME NEW t \in Threads, NEW r \in Reads, NEW exact \in BOOLEAN, Complete(t, r, exact)
      PROVE  \A u \in Threads : Drained(thread'[u], pending')
  <2> DEFINE s == [Idle EXCEPT !.at = IF exact THEN "get" ELSE "lookup", !.exact = exact, !.arg = r,
                               !.read = IF exact THEN r ELSE NoRead]
  <2>1. thread' = [thread EXCEPT ![t] = s] /\ pending' = pending
    BY <1>4 DEF Complete, Set
  <2>2. Drained(s, pending')
    BY DEF Drained, Idle
  <2> QED BY <2>1, <2>2, DrainedBy
<1>5. ASSUME NEW t \in Threads, Drain(t) PROVE \A u \in Threads : Drained(thread'[u], pending')
  <2> DEFINE s == [Idle EXCEPT !.at = "next", !.snapshot = pending, !.todo = pending]
  <2>1. thread' = [thread EXCEPT ![t] = s] /\ pending' = pending
    BY <1>5 DEF Drain, Set
  <2>2. Drained(s, pending')
    BY DEF Drained, Idle
  <2> QED BY <2>1, <2>2, DrainedBy
<1>6. ASSUME NEW t \in Threads, Continue(t) PROVE \A u \in Threads : Drained(thread'[u], pending')
  <2>1. /\ thread[t] \in ThreadState /\ Sound(thread[t]) /\ Drained(thread[t], pending)
        /\ thread \in [Threads -> ThreadState]
    BY DEF DrainInv, ReaderInv, Types
  <2>2. CASE Retain(t)
    <3> DEFINE r == thread[t].arg
    <3>1. r \notin Retained
      BY <2>2 DEF Retain, DrainInv, ReaderInv, Fresh
    <3>2. pending' = pending \cup {r} /\ thread' = [thread EXCEPT ![t] = Idle]
      BY <2>2 DEF Retain, Set
    <3> HIDE DEF r
    <3>3. pending' \cap Retained \subseteq pending
      BY <3>1, <3>2
    <3> QED BY <1>1, <3>2, <3>3, DrainedBy
  <2>3. CASE Lookup(t)
    <3>1. thread[t].at = "lookup" /\ thread[t].snapshot = {} /\ pending' = pending
      BY <2>1, <2>3 DEF Lookup, At, Sound
    <3>2. CASE byValue[id[thread[t].arg]] = NoRead
      <4>1. EndComplete(t)
        BY <2>3, <3>2 DEF Lookup
      <4> QED BY <3>1, <4>1, DrainGoesOn
    <3>3. CASE byValue[id[thread[t].arg]] # NoRead
      <4>1. PICK f : f = byValue[id[thread[t].arg]]
        OBVIOUS
      <4> DEFINE s == [thread[t] EXCEPT !.at = "get", !.read = f]
      <4>2. thread' = [thread EXCEPT ![t] = s]
        BY <2>1, <2>3, <3>3, <4>1 DEF Lookup
      <4>3. s.snapshot = {}
        BY <2>1, <3>1 DEF ThreadState
      <4>4. Drained(s, pending')
        BY <4>3 DEF Drained
      <4> QED BY <3>1, <4>2, <4>4, DrainedBy
    <3> QED BY <3>2, <3>3
  <2>4. CASE Get(t)
    <3>1. thread[t].at = "get" /\ pending' = pending
      BY <2>4 DEF Get, At
    <3>2. thread[t].read \notin pending => EndComplete(t) \/ Go(t, "refused")
      BY <2>4 DEF Get
    <3>3. thread[t].read \in pending => Go(t, "wait")
      BY <2>4 DEF Get
    <3>4. CASE EndComplete(t) /\ thread[t].read \notin pending
      BY <3>1, <3>4, DrainGoesOn
    <3>5. CASE \E step \in {"wait", "refused"} :
                 Go(t, step) /\ (step = "refused" => thread[t].read \notin pending)
      <4>1. PICK step \in {"wait", "refused"} :
              Go(t, step) /\ (step = "refused" => thread[t].read \notin pending)
        BY <3>5
      <4> DEFINE s == [thread[t] EXCEPT !.at = step]
      <4>2. thread' = [thread EXCEPT ![t] = s]
        BY <4>1 DEF Go
      <4>3. /\ s.snapshot = thread[t].snapshot /\ s.todo = thread[t].todo
            /\ s.failed = thread[t].failed /\ s.at = step /\ s.read = thread[t].read
        BY <2>1 DEF ThreadState
      <4>4. Drained(s, pending')
        BY <2>1, <3>1, <4>1, <4>3 DEF Drained, UnderWay
      <4> QED BY <3>1, <4>2, <4>4, DrainedBy
    <3> QED BY <3>2, <3>3, <3>4, <3>5
  <2>5. CASE Wait(t)
    <3> DEFINE s == [thread[t] EXCEPT !.at = "retire"]
    <3>1. thread[t].at = "wait" /\ pending' = pending /\ thread' = [thread EXCEPT ![t] = s]
      BY <2>5 DEF Wait, At, Go
    <3>2. /\ s.snapshot = thread[t].snapshot /\ s.todo = thread[t].todo
          /\ s.failed = thread[t].failed /\ s.at = "retire" /\ s.read = thread[t].read
      BY <2>1 DEF ThreadState
    <3>3. Drained(s, pending')
      BY <2>1, <3>1, <3>2 DEF Drained, UnderWay
    <3> QED BY <3>1, <3>3, DrainedBy
  <2>6. CASE WaitFails(t)
    <3>1. pending' = pending
      BY <2>6 DEF WaitFails
    <3>2. CASE thread[t].snapshot = {}
      BY <1>1, <2>6, <3>1, <3>2, DrainedBy DEF WaitFails, Set
    <3>3. CASE thread[t].snapshot # {}
      <4> DEFINE s == [thread[t] EXCEPT !.at = "next", !.failed = TRUE]
      <4>1. thread' = [thread EXCEPT ![t] = s]
        BY <2>1, <2>6, <3>3 DEF WaitFails
      <4>2. s.failed
        BY <2>1 DEF ThreadState
      <4>3. Drained(s, pending')
        BY <4>2 DEF Drained
      <4> QED BY <3>1, <4>1, <4>3, DrainedBy
    <3> QED BY <3>2, <3>3
  <2>7. CASE Retire(t)
    <3>1. /\ EndComplete(t)
          /\ pending' \subseteq pending /\ thread[t].read \notin pending'
      BY <2>7 DEF Retire
    <3> QED BY <3>1, DrainGoesOn
  <2>8. CASE DrainNext(t)
    <3>1. PICK r \in thread[t].todo :
            thread' = [thread EXCEPT ![t].at = "get", ![t].exact = TRUE, ![t].read = r,
                                     ![t].todo = @ \ {r}]
      BY <2>8 DEF DrainNext
    <3> DEFINE s == [thread[t] EXCEPT !.at = "get", !.exact = TRUE, !.read = r, !.todo = @ \ {r}]
    <3>2. thread' = [thread EXCEPT ![t] = s]
      BY <2>1, <3>1
    <3>3. /\ s.snapshot = thread[t].snapshot /\ s.todo = thread[t].todo \ {r}
          /\ s.failed = thread[t].failed /\ s.at = "get" /\ s.read = r
      BY <2>1 DEF ThreadState
    <3>4. pending' = pending /\ thread[t].at = "next"
      BY <2>8 DEF DrainNext, At
    <3>5. Drained(s, pending')
      BY <2>1, <3>3, <3>4 DEF Drained, UnderWay
    <3> QED BY <3>2, <3>4, <3>5, DrainedBy
  <2>9. CASE DrainEnds(t)
    BY <1>1, <2>9, DrainedBy DEF DrainEnds, Set
  <2> QED BY <1>6, <2>2, <2>3, <2>4, <2>5, <2>6, <2>7, <2>8, <2>9 DEF Continue
<1>7. (CopyDone \/ UNCHANGED readerVars \/ \E r \in Reads : Drop(r)) => UNCHANGED <<pending, thread>>
  BY DEF CopyDone, Drop, readerVars
<1> QED BY <1>2, <1>3, <1>4, <1>5, <1>6, <1>7 DEF ReaderNext

\* A step of one thread's call moves no other thread.
LEMMA OneThread ==
    ASSUME thread \in [Threads -> ThreadState], NEW u \in Threads,
           \/ \E i \in Ids : Submit(u, i)
           \/ \E r \in Reads, exact \in BOOLEAN : Complete(u, r, exact)
           \/ Drain(u)
           \/ Continue(u)
    PROVE  \A t \in Threads \ {u} : thread'[t] = thread[t]
<1>1. ASSUME NEW s, thread' = [thread EXCEPT ![u] = s]
      PROVE  \A t \in Threads \ {u} : thread'[t] = thread[t]
  BY <1>1
<1>2. ASSUME EndComplete(u) PROVE \E s : thread' = [thread EXCEPT ![u] = s]
  BY <1>2 DEF EndComplete, Set, Go
<1>3. CASE Continue(u)
  <2>1. CASE Retain(u) \/ Wait(u) \/ DrainEnds(u)
    BY <1>1, <2>1 DEF Retain, Wait, DrainEnds, Set, Go
  <2>2. CASE Lookup(u)
    BY <1>1, <1>2, <2>2 DEF Lookup
  <2>3. CASE Get(u)
    BY <1>1, <1>2, <2>3 DEF Get, Go
  <2>4. CASE WaitFails(u)
    BY <1>1, <2>4 DEF WaitFails, Set
  <2>5. CASE Retire(u)
    BY <1>1, <1>2, <2>5 DEF Retire
  <2>6. CASE DrainNext(u)
    BY <1>1, <2>6 DEF DrainNext
  <2> QED BY <1>3, <2>1, <2>2, <2>3, <2>4, <2>5, <2>6 DEF Continue
<1> QED BY <1>1, <1>3 DEF Submit, Complete, Drain, Set

\* A drain that returns without raising has retired every read that was pending when it
\* started, whatever other threads submitted, completed or drained meanwhile.
THEOREM DrainsRetire == ReaderSpec => DrainRetires
<1>1. DrainInv /\ [ReaderNext]_readerVars => DrainInv'
  BY ReaderStep, DrainStep DEF DrainInv
<1>2. DrainInv /\ [ReaderNext]_readerVars =>
        [\A t \in Threads : At(t, "next") /\ thread'[t].at = "idle" /\ ~thread[t].failed =>
           thread[t].snapshot \cap pending = {}]_readerVars
  <2> SUFFICES ASSUME DrainInv, ReaderNext, NEW t \in Threads, thread[t].at = "next",
                      thread'[t].at = "idle", ~thread[t].failed
               PROVE  thread[t].snapshot \cap pending = {}
    BY DEF At
  <2>1. /\ thread \in [Threads -> ThreadState] /\ Sound(thread[t]) /\ Drained(thread[t], pending)
    BY DEF DrainInv, ReaderInv, Types
  <2>2. ~CopyDone /\ ~(\E r \in Reads : Drop(r))
    BY DEF CopyDone, Drop
  <2>3. PICK u \in Threads :
          \/ \E i \in Ids : Submit(u, i)
          \/ \E r \in Reads, exact \in BOOLEAN : Complete(u, r, exact)
          \/ Drain(u)
          \/ Continue(u)
    BY <2>2 DEF ReaderNext
  <2>4. u = t
    BY <2>1, <2>3, OneThread
  <2>5. DrainNext(t) \/ DrainEnds(t)
    BY <2>3, <2>4 DEF Submit, Complete, Drain, Continue, Retain, Lookup, Get, Wait, WaitFails, Retire, At
  <2>6. ~DrainNext(t)
    <3> SUFFICES ASSUME DrainNext(t) PROVE FALSE
      OBVIOUS
    <3>1. PICK r \in thread[t].todo :
            thread' = [thread EXCEPT ![t].at = "get", ![t].exact = TRUE, ![t].read = r,
                                     ![t].todo = @ \ {r}]
      BY DEF DrainNext
    <3>2. thread'[t] = [thread[t] EXCEPT !.at = "get", !.exact = TRUE, !.read = r, !.todo = @ \ {r}]
      BY <2>1, <3>1
    <3> QED BY <2>1, <3>2 DEF ThreadState
  <2>7. thread[t].todo = {}
    BY <2>5, <2>6 DEF DrainEnds
  <2> QED BY <2>1, <2>7 DEF Drained, UnderWay
<1> QED BY DrainInitial, <1>1, <1>2, PTL DEF ReaderSpec, DrainRetires

=============================================================================

------------------------- MODULE DecodeRuntimeProofs -------------------------
(***************************************************************************)
(* Proofs about DecodeRuntime: about the outputs of its steps, which are   *)
(* read later (DecodeOutputs), and about what a step runs on (DecodeStep). *)
(*                                                                         *)
(* DecodeOutputs, for any traces and any number of steps, reads and        *)
(* failures: what a caller reads is the step it asked for, and nothing an  *)
(* eager step allocated is lost.  The output of a trace is overwritten by  *)
(* the next step, so everything rests on the entry of _external_by_raw_id: *)
(* only the last step has one (OnlyLast), every lease that may be read has *)
(* one (Readable), and while it is there the device, once it has executed  *)
(* all that is queued, holds the result of that step in the step's output  *)
(* (LastShows).  A copy is queued behind the run whose result it is meant  *)
(* to read (CopiesShow).                                                   *)
(*                                                                         *)
(* DecodeStep, through any traced and eager steps, under either contract:  *)
(* every token is written at its own position of its own request's blocks, *)
(* and every request is sampled with its own parameters.  Nothing of this  *)
(* can be seen in one step: a step may rely on inputs that an earlier one  *)
(* left on the device.  StepInv says what they are then.                   *)
(***************************************************************************)
EXTENDS DecodeOutputs, DecodeStep, FiniteSetTheorems, TLAPS

-----------------------------------------------------------------------------
(* The invariant of the leases. *)

Leases == [leased : BOOLEAN, buffer : Buffers \cup {Nothing}, read : 0 .. MaxReads, released : BOOLEAN]

LeaseTypes ==
    /\ step \in 0 .. MaxSteps /\ read \in 0 .. MaxReads
    /\ alive \subseteq Steps /\ orphans \subseteq Steps
    /\ call \in Buffers \cup {Nothing}
    /\ meant \in [Reads -> 0 .. MaxSteps]
    /\ lease \in [Steps -> Leases]
    /\ byRaw \in [Buffers -> 0 .. MaxSteps]
    /\ byHost \in [Reads -> 0 .. MaxSteps]

\* Steps and reads to come have left nothing behind.
FreshSteps == \A s \in Steps : s > step => /\ lease[s] = NoLease /\ s \notin alive
                                           /\ \A r \in Reads : meant[r] # s
FreshReads == \A r \in Reads : r > read => /\ meant[r] = Nothing /\ byHost[r] = Nothing
                                           /\ \A s \in Steps : lease[s].read # r

\* A lease is of the output of a trace, or of its own eager step.
OwnBuffer == \A s \in Steps : lease[s].leased => lease[s].buffer \in Traces \cup {s}

\* Only the last step has an entry for its output, and an unreleased lease of it.
OnlyLast ==
    \A b \in Buffers : byRaw[b] # Nothing =>
        /\ byRaw[b] = step
        /\ lease[step].leased /\ ~lease[step].released /\ lease[step].buffer = b

\* A lease nobody has read yet, or of an eager step, has its entry.
Readable ==
    \A s \in Steps : lease[s].leased /\ ~lease[s].released =>
        \/ byRaw[lease[s].buffer] = s
        \/ lease[s].buffer \in Traces /\ \E r \in Reads : meant[r] = s

\* A read that is outstanding is the one its lease completes, or that of a lease read again.
HostEntries ==
    \A r \in Reads : byHost[r] # Nothing =>
        /\ meant[r] = byHost[r] /\ lease[byHost[r]].leased
        /\ \/ lease[byHost[r]].read = r /\ ~lease[byHost[r]].released
           \/ \E q \in Reads \ {r} : meant[q] = meant[r]

\* An allocated output is the running step's, an orphan or has an entry.
AliveHasEntry == \A b \in alive : b = call \/ b \in orphans \/ byRaw[b] # Nothing

LeaseInv ==
    /\ LeaseTypes
    /\ FreshSteps
    /\ FreshReads
    /\ OwnBuffer
    /\ OnlyLast
    /\ Readable
    /\ HostEntries
    /\ AliveHasEntry

-----------------------------------------------------------------------------
(* The invariant of the device. *)

Work == [op : {"run", "copy"}, buffer : Buffers, of : Nat]

DeviceTypes ==
    /\ queue \in Seq(Work)
    /\ content \in [Buffers -> Nat]
    /\ host \in [Reads -> Nat]

NoRun(b, from, to) == \A j \in from .. to : ~(queue[j].op = "run" /\ queue[j].buffer = b)

\* When the first n entries of the queue are executed, b holds the result of step s.
Shows(b, n, s) ==
    \/ content[b] = s /\ NoRun(b, 1, n)
    \/ \E i \in 1 .. n : queue[i] = Run(b, s) /\ NoRun(b, i + 1, n)

CopiesShow ==
    \A i \in 1 .. Len(queue) : queue[i].op = "copy" =>
        /\ queue[i].of \in 1 .. read
        /\ Shows(queue[i].buffer, i - 1, meant[queue[i].of])

LastShows == \A b \in Buffers : byRaw[b] # Nothing => Shows(b, Len(queue), step)

HostIsFresh == \A r \in Reads : r > read => host[r] = Nothing

DeviceInv ==
    /\ DeviceTypes
    /\ CopiesShow
    /\ LastShows
    /\ HostIsFresh
    /\ HostValueOfItsStep

OutputsInv == LeaseInv /\ DeviceInv
-----------------------------------------------------------------------------
(* Facts about leases. *)

LEMMA Spaces == /\ 0 \notin Traces /\ Steps \cap Traces = {}
                /\ MaxSteps \in Nat /\ MaxReads \in Nat
                /\ NoLease \in Leases /\ ~NoLease.leased /\ NoLease.read = 0
BY StepsAssumption, ReadBounds DEF Steps, NoLease, Leases, Nothing

\* A lease that may be read has its entry: it is of the last step.
LEMMA ReadsLast ==
    ASSUME LeaseInv, NEW s \in Steps, MayRead(s)
    PROVE  /\ lease[s].buffer \in Buffers /\ byRaw[lease[s].buffer] = s /\ s = step
           /\ lease[s].leased /\ ~lease[s].released
<1>1. lease[s].leased /\ ~lease[s].released
  BY DEF MayRead
<1>2. lease[s].buffer \in Traces \cup {s}
  BY <1>1 DEF LeaseInv, OwnBuffer
<1>3. ~(lease[s].buffer \in Traces /\ lease[s].buffer \in alive)
  BY Spaces DEF LeaseInv, LeaseTypes
<1>4. byRaw[lease[s].buffer] = s
  BY <1>1, <1>3, Spaces DEF LeaseInv, LeaseTypes, Readable, MayRead
<1>5. lease[s].buffer \in Buffers
  BY <1>2 DEF Buffers
<1>6. s # Nothing
  BY DEF Steps, Nothing
<1> QED BY <1>1, <1>4, <1>5, <1>6 DEF LeaseInv, OnlyLast

\* Steps that submit find no entry and no orphan.
LEMMA SubmitsSafely ==
    ASSUME LeaseInv, NEW b \in Buffers, CanSubmit(b)
    PROVE  /\ call = Nothing /\ orphans = {} /\ alive = {} /\ \A c \in Buffers : byRaw[c] = Nothing
           /\ step + 1 \in Steps /\ b \in Traces \cup {step + 1}
           /\ lease[step + 1] = NoLease /\ \A r \in Reads : meant[r] # step + 1
<1>1. call = Nothing /\ orphans = {} /\ \A c \in Buffers : byRaw[c] = Nothing
  BY DEF CanSubmit, TraceSafe
<1>2. step + 1 \in Steps /\ step + 1 > step
  BY Spaces DEF LeaseInv, LeaseTypes, CanSubmit, Steps
<1>3. alive = {}
  BY <1>1, Spaces DEF LeaseInv, LeaseTypes, AliveHasEntry, Steps, Buffers, Nothing
<1> QED BY <1>1, <1>2, <1>3 DEF LeaseInv, FreshSteps, CanSubmit

-----------------------------------------------------------------------------
(* Every step keeps the invariant of the leases. *)

LEMMA LeasesInit == OutputsInit => LeaseInv
<1> SUFFICES ASSUME OutputsInit PROVE LeaseInv
  OBVIOUS
<1>1. LeaseTypes
  BY Spaces DEF OutputsInit, LeaseTypes, Nothing, Leases
<1>2. FreshSteps /\ FreshReads /\ OwnBuffer /\ Readable
  BY Spaces DEF OutputsInit, FreshSteps, FreshReads, OwnBuffer, Readable, Nothing, Steps
<1>3. OnlyLast /\ HostEntries /\ AliveHasEntry
  BY DEF OutputsInit, OnlyLast, HostEntries, AliveHasEntry
<1> QED BY <1>1, <1>2, <1>3 DEF LeaseInv

\* Steps that touch no lease and no read.
LEMMA LeasesQuiet ==
    ASSUME LeaseInv, UNCHANGED <<step, read, meant, lease, byRaw, byHost>>,
           alive' \subseteq alive, orphans' \subseteq orphans \cup alive, call' \in {call, Nothing},
           \A b \in alive' : b = call' \/ b \in orphans' \/ byRaw[b] # Nothing
    PROVE  LeaseInv'
<1>1. LeaseTypes'
  BY DEF LeaseInv, LeaseTypes
<1>2. FreshSteps' /\ FreshReads' /\ OwnBuffer' /\ Readable'
  BY DEF LeaseInv, FreshSteps, FreshReads, OwnBuffer, Readable
<1>3. OnlyLast' /\ HostEntries' /\ AliveHasEntry'
  BY DEF LeaseInv, OnlyLast, HostEntries, AliveHasEntry
<1> QED BY <1>1, <1>2, <1>3 DEF LeaseInv

LEMMA LeasesForwardLeased ==
    ASSUME LeaseInv, NEW b \in Buffers, ForwardLeased(b)
    PROVE  LeaseInv'
<1> DEFINE s == step + 1
           new == [NoLease EXCEPT !.leased = TRUE, !.buffer = b]
<1>1. /\ call = Nothing /\ orphans = {} /\ alive = {} /\ \A c \in Buffers : byRaw[c] = Nothing
      /\ s \in Steps /\ b \in Traces \cup {s}
      /\ lease[s] = NoLease /\ \A r \in Reads : meant[r] # s
  BY SubmitsSafely DEF ForwardLeased, Submit
<1>2. /\ step' = s /\ UNCHANGED <<read, meant, byHost, orphans, call>>
      /\ lease' = [lease EXCEPT ![s] = new] /\ byRaw' = [byRaw EXCEPT ![b] = s]
      /\ alive' = IF b \in Steps THEN {b} ELSE {}
  BY <1>1 DEF ForwardLeased, Submit, Eager, reading
<1>3. /\ new \in Leases /\ new.leased /\ ~new.released /\ new.buffer = b /\ new.read = 0
  BY Spaces DEF NoLease, Leases
<1>4. /\ lease'[s] = new /\ \A t \in Steps \ {s} : lease'[t] = lease[t]
      /\ byRaw'[b] = s /\ \A c \in Buffers \ {b} : byRaw'[c] = Nothing
  BY <1>1, <1>2 DEF LeaseInv, LeaseTypes
<1> HIDE DEF new
<1>5. LeaseTypes'
  BY <1>1, <1>2, <1>3 DEF LeaseInv, LeaseTypes, Steps
<1>6. FreshSteps' /\ FreshReads'
  BY <1>1, <1>2, <1>3, <1>4, Spaces DEF LeaseInv, LeaseTypes, FreshSteps, FreshReads, Steps, Reads
<1>7. OwnBuffer' /\ OnlyLast'
  BY <1>1, <1>2, <1>3, <1>4 DEF LeaseInv, OwnBuffer, OnlyLast
<1>10. Readable'
  <2>1. \A t \in Steps : lease[t].leased => lease[t].buffer \in Buffers
    BY DEF LeaseInv, OwnBuffer, Buffers
  <2> QED BY <2>1, <1>1, <1>2, <1>3, <1>4 DEF LeaseInv, Readable, Steps, Nothing
<1>8. HostEntries'
  <2>1. \A r \in Reads : byHost[r] # Nothing => byHost[r] \in Steps \ {s}
    BY <1>1 DEF LeaseInv, LeaseTypes, HostEntries, Nothing, Steps
  <2> QED BY <2>1, <1>2, <1>4 DEF LeaseInv, HostEntries
<1>9. AliveHasEntry'
  BY <1>1, <1>2, <1>4 DEF AliveHasEntry, Nothing, Steps
<1> QED BY <1>5, <1>6, <1>7, <1>8, <1>9, <1>10 DEF LeaseInv

LEMMA LeasesForwardOther ==
    ASSUME LeaseInv, NEW b \in Buffers, ForwardBlocking(b) \/ ForwardRaises(b)
    PROVE  LeaseInv'
<1> DEFINE s == step + 1
<1>1. /\ call = Nothing /\ orphans = {} /\ alive = {} /\ \A c \in Buffers : byRaw[c] = Nothing
      /\ s \in Steps /\ b \in Traces \cup {s}
      /\ lease[s] = NoLease /\ \A r \in Reads : meant[r] # s
  BY SubmitsSafely DEF ForwardBlocking, ForwardRaises, Submit
<1>2. /\ step' = s /\ UNCHANGED <<read, meant, byHost, lease, byRaw>>
      /\ alive' \subseteq {b} \cap Steps /\ call' \in {call, b} /\ orphans' \subseteq {b} \cap Steps
      /\ \A c \in alive' : c = call' \/ c \in orphans'
  BY <1>1 DEF ForwardBlocking, ForwardRaises, Submit, Eager, reading, leases
<1>3. LeaseTypes'
  BY <1>1, <1>2 DEF LeaseInv, LeaseTypes, Steps
<1>4. FreshSteps' /\ FreshReads' /\ OwnBuffer'
  BY <1>1, <1>2, Spaces DEF LeaseInv, LeaseTypes, FreshSteps, FreshReads, OwnBuffer, Steps
<1>5. OnlyLast' /\ Readable' /\ HostEntries' /\ AliveHasEntry'
  BY <1>1, <1>2 DEF LeaseInv, OnlyLast, Readable, HostEntries, AliveHasEntry
<1> QED BY <1>3, <1>4, <1>5 DEF LeaseInv

LEMMA LeasesReadAsync ==
    ASSUME LeaseInv, NEW s \in Steps, ReadAsync(s)
    PROVE  LeaseInv'
<1> DEFINE b == lease[s].buffer
           r == read + 1
<1>1. /\ b \in Buffers /\ byRaw[b] = s /\ s = step /\ lease[s].leased /\ ~lease[s].released
  BY ReadsLast DEF ReadAsync, NewRead
<1>2. b \in Traces \cup {s} /\ s # Nothing
  BY <1>1 DEF LeaseInv, OwnBuffer, Steps, Nothing
<1>3. /\ r \in Reads /\ r > read /\ r # 0 /\ read' = r
      /\ meant' = [meant EXCEPT ![r] = s]
      /\ lease' = [lease EXCEPT ![s].read = r]
      /\ byHost' = [byHost EXCEPT ![r] = s]
      /\ byRaw' = IF b \in Steps THEN byRaw ELSE [byRaw EXCEPT ![b] = Nothing]
      /\ UNCHANGED <<step, alive, orphans, call>>
  BY <1>1, <1>2, Spaces DEF ReadAsync, NewRead, LeaseInv, LeaseTypes, Reads, Eager
<1>4. /\ lease'[s] = [lease[s] EXCEPT !.read = r] /\ \A t \in Steps \ {s} : lease'[t] = lease[t]
      /\ meant'[r] = s /\ \A q \in Reads \ {r} : meant'[q] = meant[q]
      /\ byHost'[r] = s /\ \A q \in Reads \ {r} : byHost'[q] = byHost[q]
      /\ \A c \in Buffers : byRaw'[c] = byRaw[c] \/ (c = b /\ c \in Traces /\ byRaw'[c] = Nothing)
  BY <1>1, <1>2, <1>3, Spaces DEF LeaseInv, LeaseTypes
<1>5. /\ lease'[s] \in Leases /\ lease'[s].leased /\ ~lease'[s].released /\ lease'[s].buffer = b
      /\ lease'[s].read = r
  <2>1. lease[s] \in Leases /\ r \in 0 .. MaxReads
    BY <1>3, Spaces DEF LeaseInv, LeaseTypes, Reads
  <2> QED BY <2>1, <1>1, <1>4 DEF Leases
<1> HIDE DEF b, r
<1>6. LeaseTypes'
  <2>1. lease' \in [Steps -> Leases]
    BY <1>3, <1>4, <1>5 DEF LeaseInv, LeaseTypes
  <2>2. byRaw' \in [Buffers -> 0 .. MaxSteps] /\ byHost' \in [Reads -> 0 .. MaxSteps]
    <3>1. s \in 0 .. MaxSteps /\ Nothing \in 0 .. MaxSteps
      BY Spaces DEF Steps, Nothing
    <3> QED BY <1>3, <3>1 DEF LeaseInv, LeaseTypes
  <2> QED BY <1>3, <2>1, <2>2, Spaces DEF LeaseInv, LeaseTypes, Steps, Reads
<1>7. FreshSteps' /\ FreshReads'
  BY <1>1, <1>3, <1>4, <1>5, Spaces DEF LeaseInv, LeaseTypes, FreshSteps, FreshReads, Steps, Reads
<1>8. OwnBuffer' /\ OnlyLast'
  BY <1>1, <1>2, <1>3, <1>4, <1>5 DEF LeaseInv, OwnBuffer, OnlyLast
<1>9. Readable'
  <2> SUFFICES ASSUME NEW t \in Steps, lease'[t].leased, ~lease'[t].released
               PROVE  \/ byRaw'[lease'[t].buffer] = t
                      \/ lease'[t].buffer \in Traces /\ \E q \in Reads : meant'[q] = t
    BY DEF Readable
  <2>1. CASE t = s
    BY <1>1, <1>2, <1>3, <1>4, <1>5, <2>1
  <2>2. CASE t # s
    <3>1. lease[t].leased /\ ~lease[t].released /\ lease'[t].buffer = lease[t].buffer
      BY <1>4, <2>2
    <3>2. lease[t].buffer \in Buffers
      BY <3>1 DEF LeaseInv, OwnBuffer, Buffers
    <3>3. byRaw[lease[t].buffer] # t
      BY <1>1, <2>2, <3>2 DEF LeaseInv, OnlyLast, Steps, Nothing
    <3>4. PICK q \in Reads : meant[q] = t /\ lease[t].buffer \in Traces
      BY <3>1, <3>3 DEF LeaseInv, Readable
    <3>5. q # r
      BY <1>3, <3>4 DEF LeaseInv, FreshReads, Steps, Nothing
    <3> QED BY <1>4, <3>1, <3>4, <3>5
  <2> QED BY <2>1, <2>2
<1>10. HostEntries'
  <2> SUFFICES ASSUME NEW q \in Reads, byHost'[q] # Nothing
               PROVE  /\ meant'[q] = byHost'[q] /\ lease'[byHost'[q]].leased
                      /\ \/ lease'[byHost'[q]].read = q /\ ~lease'[byHost'[q]].released
                         \/ \E p \in Reads \ {q} : meant'[p] = meant'[q]
    BY DEF HostEntries
  <2>1. CASE q = r
    BY <1>4, <1>5, <2>1
  <2>2. CASE q # r
    <3>1. byHost'[q] = byHost[q] /\ meant'[q] = meant[q] /\ byHost[q] \in Steps
      BY <1>4, <2>2 DEF LeaseInv, LeaseTypes, Steps, Nothing
    <3>2. /\ meant[q] = byHost[q] /\ lease[byHost[q]].leased
          /\ \/ lease[byHost[q]].read = q /\ ~lease[byHost[q]].released
             \/ \E p \in Reads \ {q} : meant[p] = meant[q]
      BY <3>1 DEF LeaseInv, HostEntries
    <3>3. CASE byHost[q] = s
      BY <1>3, <1>4, <1>5, <2>2, <3>1, <3>2, <3>3
    <3>4. CASE byHost[q] # s
      <4>1. \A p \in Reads : meant[p] = meant[q] => p # r
        BY <1>3, <3>1, <3>2 DEF LeaseInv, FreshReads, Steps, Nothing
      <4> QED BY <1>4, <3>1, <3>2, <3>4, <4>1
    <3> QED BY <3>3, <3>4
  <2> QED BY <2>1, <2>2
<1>11. AliveHasEntry'
  BY <1>3, <1>4, Spaces DEF LeaseInv, LeaseTypes, AliveHasEntry, Buffers
<1> QED BY <1>6, <1>7, <1>8, <1>9, <1>10, <1>11 DEF LeaseInv
\* What a release of the leases of the steps in gone does.
Releases(gone) ==
    /\ alive' = alive \ {lease[s].buffer : s \in gone}
    /\ lease' \in [Steps -> Leases]
    /\ \A s \in Steps :
          /\ lease'[s].leased = lease[s].leased
          /\ lease'[s].buffer = lease[s].buffer
          /\ lease'[s].read = lease[s].read
          /\ lease'[s].released <=> lease[s].released \/ s \in gone
          /\ s \notin gone => lease'[s] = lease[s]
    /\ byRaw' = [b \in Buffers |-> IF byRaw[b] \in gone THEN Nothing ELSE byRaw[b]]
    /\ byHost' = [r \in Reads |-> IF \E s \in gone : lease[s].read = r THEN Nothing ELSE byHost[r]]

\* The reads go on, at most, with one of a step that was submitted.
Reading ==
    /\ read' \in read .. MaxReads
    /\ meant' \in [Reads -> 0 .. step]
    /\ \A r \in Reads : r <= read => meant'[r] = meant[r]
    /\ \A r \in Reads : r > read' => meant'[r] = Nothing

LEMMA ReleaseOfOne ==
    ASSUME LeaseInv, NEW s \in 0 .. MaxSteps, NEW stuck \in BOOLEAN, Released(s, stuck),
           s # Nothing => lease[s].leased
    PROVE  \E gone \in SUBSET Steps : Releases(gone) /\ \A t \in gone : lease[t].leased
<1>1. CASE s = Nothing \/ lease[s].released \/ stuck
  <2>1. UNCHANGED <<lease, byRaw, byHost, alive>>
    BY <1>1 DEF Released, leases
  <2>2. Releases({})
    BY <2>1 DEF Releases, LeaseInv, LeaseTypes
  <2> QED BY <2>2
<1>2. CASE ~(s = Nothing \/ lease[s].released \/ stuck)
  <2>1. /\ alive' = alive \ {lease[s].buffer}
        /\ lease' = [lease EXCEPT ![s].released = TRUE]
        /\ byRaw' = [byRaw EXCEPT ![lease[s].buffer] = IF @ = s THEN Nothing ELSE @]
        /\ byHost' = [r \in Reads |-> IF r = lease[s].read THEN Nothing ELSE byHost[r]]
    BY <1>2 DEF Released
  <2>2. s \in Steps /\ lease[s].leased /\ lease[s] \in Leases
    BY <1>2, Spaces DEF Steps, Nothing, LeaseInv, LeaseTypes
  <2>3. lease[s].buffer \in Buffers
    BY <2>2 DEF LeaseInv, OwnBuffer, Buffers
  <2>4. \A b \in Buffers : byRaw[b] = s => b = lease[s].buffer
    BY <1>2 DEF LeaseInv, OnlyLast
  <2>5. byRaw' = [b \in Buffers |-> IF byRaw[b] \in {s} THEN Nothing ELSE byRaw[b]]
    BY <2>1, <2>3, <2>4 DEF LeaseInv, LeaseTypes
  <2>6. /\ lease'[s] = [lease[s] EXCEPT !.released = TRUE]
        /\ \A t \in Steps \ {s} : lease'[t] = lease[t]
    BY <2>1, <2>2 DEF LeaseInv, LeaseTypes
  <2>7. /\ lease'[s] \in Leases /\ lease'[s].leased = lease[s].leased
        /\ lease'[s].buffer = lease[s].buffer /\ lease'[s].read = lease[s].read /\ lease'[s].released
    BY <2>2, <2>6 DEF Leases
  <2>8. lease' \in [Steps -> Leases]
    BY <2>1, <2>6, <2>7 DEF LeaseInv, LeaseTypes
  <2>9. {lease[t].buffer : t \in {s}} = {lease[s].buffer}
    OBVIOUS
  <2>10. byHost' = [r \in Reads |-> IF \E t \in {s} : lease[t].read = r THEN Nothing ELSE byHost[r]]
    BY <2>1
  <2>11. Releases({s})
    BY <2>1, <2>5, <2>6, <2>7, <2>8, <2>9, <2>10 DEF Releases
  <2> QED BY <2>2, <2>11
<1> QED BY <1>1, <1>2

LEMMA LeasesReleases ==
    ASSUME LeaseInv, NEW gone \in SUBSET Steps, Releases(gone), Reading,
           \A s \in gone : lease[s].leased, UNCHANGED <<step, orphans, call>>
    PROVE  LeaseInv'
<1>1. /\ alive' \subseteq alive /\ lease' \in [Steps -> Leases]
      /\ \A b \in Buffers : byRaw'[b] = IF byRaw[b] \in gone THEN Nothing ELSE byRaw[b]
      /\ \A r \in Reads : byHost'[r] \in {Nothing, byHost[r]}
      /\ \A s \in gone, r \in Reads : lease[s].read = r => byHost'[r] = Nothing
  BY DEF Releases
<1>2. \A s \in Steps :
          /\ lease'[s].leased = lease[s].leased /\ lease'[s].buffer = lease[s].buffer
          /\ lease'[s].read = lease[s].read
          /\ lease'[s].released <=> lease[s].released \/ s \in gone
          /\ s \notin gone => lease'[s] = lease[s]
  BY DEF Releases
<1>3. /\ read' \in read .. MaxReads
      /\ meant' \in [Reads -> 0 .. step]
      /\ \A r \in Reads : r <= read => meant'[r] = meant[r]
      /\ \A r \in Reads : r > read' => meant'[r] = Nothing
  BY DEF Reading
<1>4. LeaseTypes'
  <2>1. byRaw' \in [Buffers -> 0 .. MaxSteps] /\ byHost' \in [Reads -> 0 .. MaxSteps]
    BY Spaces DEF Releases, LeaseInv, LeaseTypes, Nothing
  <2> QED BY <1>1, <1>3, <2>1, Spaces DEF LeaseInv, LeaseTypes
<1>5. FreshSteps'
  <2> SUFFICES ASSUME NEW s \in Steps, s > step
               PROVE  lease'[s] = NoLease /\ s \notin alive' /\ \A r \in Reads : meant'[r] # s
    BY DEF FreshSteps
  <2>1. lease[s] = NoLease /\ s \notin alive /\ s \notin gone
    BY Spaces DEF LeaseInv, FreshSteps
  <2> QED BY <1>1, <1>2, <1>3, <2>1 DEF LeaseInv, LeaseTypes, Steps
<1>6. FreshReads'
  BY <1>1, <1>2, <1>3 DEF LeaseInv, LeaseTypes, FreshReads, Reads
<1>7. OwnBuffer'
  BY <1>2 DEF LeaseInv, OwnBuffer
<1>8. OnlyLast'
  <2> SUFFICES ASSUME NEW b \in Buffers, byRaw'[b] # Nothing
               PROVE  /\ byRaw'[b] = step
                      /\ lease'[step].leased /\ ~lease'[step].released /\ lease'[step].buffer = b
    BY DEF OnlyLast
  <2>1. byRaw'[b] = byRaw[b] /\ byRaw[b] \notin gone /\ byRaw[b] \in Steps
    BY <1>1 DEF LeaseInv, LeaseTypes, Steps, Nothing
  <2> QED BY <1>2, <2>1 DEF LeaseInv, OnlyLast
<1>9. Readable'
  <2> SUFFICES ASSUME NEW s \in Steps, lease'[s].leased, ~lease'[s].released
               PROVE  \/ byRaw'[lease'[s].buffer] = s
                      \/ lease'[s].buffer \in Traces /\ \E r \in Reads : meant'[r] = s
    BY DEF Readable
  <2>1. lease[s].leased /\ ~lease[s].released /\ s \notin gone /\ lease'[s].buffer = lease[s].buffer
    BY <1>2
  <2>2. CASE byRaw[lease[s].buffer] = s
    <3>1. lease[s].buffer \in Buffers
      BY <2>1 DEF LeaseInv, OwnBuffer, Buffers
    <3> QED BY <1>1, <2>1, <2>2, <3>1
  <2>3. CASE byRaw[lease[s].buffer] # s
    <3>1. PICK r \in Reads : meant[r] = s /\ lease[s].buffer \in Traces
      BY <2>1, <2>3 DEF LeaseInv, Readable
    <3>2. r <= read
      BY <3>1 DEF LeaseInv, LeaseTypes, FreshReads, Reads, Steps, Nothing
    <3> QED BY <1>3, <2>1, <3>1, <3>2
  <2> QED BY <2>2, <2>3
<1>10. HostEntries'
  <2> SUFFICES ASSUME NEW r \in Reads, byHost'[r] # Nothing
               PROVE  /\ meant'[r] = byHost'[r] /\ lease'[byHost'[r]].leased
                      /\ \/ lease'[byHost'[r]].read = r /\ ~lease'[byHost'[r]].released
                         \/ \E q \in Reads \ {r} : meant'[q] = meant'[r]
    BY DEF HostEntries
  <2>1. byHost'[r] = byHost[r] /\ byHost[r] \in Steps /\ ~(byHost[r] \in gone /\ lease[byHost[r]].read = r)
    BY <1>1 DEF LeaseInv, LeaseTypes, Steps, Nothing
  <2>2. /\ meant[r] = byHost[r] /\ lease[byHost[r]].leased
        /\ \/ lease[byHost[r]].read = r /\ ~lease[byHost[r]].released
           \/ \E q \in Reads \ {r} : meant[q] = meant[r]
    BY <2>1 DEF LeaseInv, HostEntries
  <2>3. \A q \in Reads : meant[q] = meant[r] => meant'[q] = meant[q]
    BY <1>3, <2>1, <2>2 DEF LeaseInv, LeaseTypes, FreshReads, Reads, Steps, Nothing
  <2>4. CASE lease[byHost[r]].read = r /\ ~lease[byHost[r]].released
    BY <1>2, <2>1, <2>2, <2>3, <2>4
  <2>5. CASE \E q \in Reads \ {r} : meant[q] = meant[r]
    BY <1>2, <2>1, <2>2, <2>3, <2>5
  <2> QED BY <2>2, <2>4, <2>5
<1>11. AliveHasEntry'
  <2> SUFFICES ASSUME NEW b \in alive', b # call, b \notin orphans
               PROVE  byRaw'[b] # Nothing
    BY DEF AliveHasEntry
  <2>1. b \in alive /\ b \in Buffers /\ byRaw[b] # Nothing
    BY <1>1 DEF LeaseInv, LeaseTypes, AliveHasEntry, Buffers
  <2>2. byRaw[b] = step /\ lease[step].buffer = b
    BY <2>1 DEF LeaseInv, OnlyLast
  <2>3. step \notin gone
    BY <2>2 DEF Releases
  <2> QED BY <1>1, <2>1, <2>2, <2>3
<1> QED BY <1>4, <1>5, <1>6, <1>7, <1>8, <1>9, <1>10, <1>11 DEF LeaseInv

LEMMA NothingRead ==
    ASSUME LeaseInv, UNCHANGED <<read, meant>>
    PROVE  Reading
<1>1. \A r \in Reads : meant[r] \in 0 .. step
  BY DEF LeaseInv, LeaseTypes, FreshSteps, Steps
<1> QED BY <1>1, Spaces DEF LeaseInv, LeaseTypes, FreshReads, Reading

LEMMA LeasesReadBlocking ==
    ASSUME LeaseInv, NEW s \in Steps, NEW stuck \in BOOLEAN, ReadBlocking(s, stuck)
    PROVE  LeaseInv'
<1>1. lease[s].buffer \in Buffers /\ byRaw[lease[s].buffer] = s /\ lease[s].leased
  BY ReadsLast DEF ReadBlocking, NewRead
<1>2. Released(s, stuck) /\ UNCHANGED <<step, orphans, call>>
  BY <1>1 DEF ReadBlocking
<1>3. Reading
  <2>1. /\ read' = read + 1 /\ read < MaxReads /\ meant' = [meant EXCEPT ![read + 1] = s]
        /\ s \in 0 .. step /\ \A r \in Reads : meant[r] \in 0 .. step
    BY DEF ReadBlocking, NewRead, MayRead, LeaseInv, LeaseTypes, FreshSteps, Steps
  <2>2. meant' \in [Reads -> 0 .. step]
    BY <2>1 DEF LeaseInv, LeaseTypes
  <2> QED BY <2>1, <2>2, Spaces DEF LeaseInv, LeaseTypes, FreshReads, Reading, Reads
<1>4. s \in 0 .. MaxSteps
  BY DEF Steps
<1> QED BY <1>1, <1>2, <1>3, <1>4, ReleaseOfOne, LeasesReleases

LEMMA LeasesProcess ==
    ASSUME LeaseInv, NEW r \in Reads, NEW stuck \in BOOLEAN, Process(r, stuck)
    PROVE  LeaseInv'
<1>1. Released(byHost[r], stuck) /\ UNCHANGED <<step, orphans, call, read, meant>>
  BY DEF Process
<1>2. byHost[r] \in 0 .. MaxSteps /\ (byHost[r] # Nothing => lease[byHost[r]].leased)
  BY DEF LeaseInv, LeaseTypes, HostEntries
<1> QED BY <1>1, <1>2, ReleaseOfOne, LeasesReleases, NothingRead

\* The steps whose leases a drain releases.
Drained(stuck) == {s \in Outstanding : ~lease[s].released} \ stuck

LEMMA DrainReleases ==
    ASSUME LeaseInv, NEW stuck, Drain(stuck)
    PROVE  /\ Drained(stuck) \in SUBSET Steps /\ Releases(Drained(stuck))
           /\ \A s \in Drained(stuck) : lease[s].leased
           /\ call = Nothing /\ UNCHANGED <<step, read, meant, orphans, call>>
<1> DEFINE gone == Drained(stuck)
<1>1. Outstanding \subseteq Steps /\ \A s \in Outstanding : lease[s].leased
  BY DEF Outstanding, LeaseInv, LeaseTypes, Steps, Nothing, OnlyLast, HostEntries
<1>2. /\ alive' = alive \ {lease[s].buffer : s \in gone}
      /\ lease' = [s \in Steps |-> [lease[s] EXCEPT !.released = @ \/ s \in gone]]
      /\ byRaw' = [b \in Buffers |-> IF byRaw[b] \in gone THEN Nothing ELSE byRaw[b]]
      /\ byHost' = [r \in Reads |-> IF \E s \in gone : lease[s].read = r THEN Nothing ELSE byHost[r]]
      /\ call = Nothing /\ UNCHANGED <<step, read, meant, orphans, call>>
  BY DEF Drain, Drained
<1>3. ASSUME NEW s \in Steps
      PROVE  /\ lease'[s] \in Leases
             /\ lease'[s].leased = lease[s].leased
             /\ lease'[s].buffer = lease[s].buffer
             /\ lease'[s].read = lease[s].read
             /\ lease'[s].released <=> lease[s].released \/ s \in gone
             /\ s \notin gone => lease'[s] = lease[s]
  <2>1. lease[s] \in Leases
    BY DEF LeaseInv, LeaseTypes
  <2>2. CASE s \in gone
    <3>1. lease'[s] = [lease[s] EXCEPT !.released = TRUE]
      BY <1>2, <2>2
    <3> QED BY <2>1, <2>2, <3>1 DEF Leases
  <2>3. CASE s \notin gone
    <3>1. lease'[s] = lease[s]
      BY <1>2, <2>1, <2>3 DEF Leases
    <3> QED BY <2>1, <2>3, <3>1
  <2> QED BY <2>2, <2>3
<1>4. Releases(gone)
  <2>1. lease' \in [Steps -> Leases]
    BY <1>2, <1>3
  <2> HIDE DEF gone
  <2> QED BY <1>2, <1>3, <2>1 DEF Releases
<1> QED BY <1>1, <1>2, <1>4 DEF Drained

LEMMA LeasesNext == LeaseInv /\ [OutputsNext]_outputVars => LeaseInv'
<1> SUFFICES ASSUME LeaseInv, [OutputsNext]_outputVars PROVE LeaseInv'
  OBVIOUS
<1>1. CASE Execute \/ UNCHANGED outputVars
  <2>1. UNCHANGED <<step, alive, read, meant, lease, byRaw, byHost, orphans, call>>
    BY <1>1 DEF Execute, leases, outputVars, device, reading
  <2> QED BY <2>1, LeasesQuiet DEF LeaseInv, AliveHasEntry
<1>2. ASSUME NEW b \in Buffers, ForwardLeased(b) \/ ForwardBlocking(b) \/ ForwardRaises(b)
      PROVE  LeaseInv'
  BY <1>2, LeasesForwardLeased, LeasesForwardOther
<1>3. CASE BlockingReturns \/ BlockingRaises \/ CleanupTransients
  <2>1. /\ UNCHANGED <<step, read, meant, lease, byRaw, byHost>>
        /\ alive' \subseteq alive /\ orphans' \subseteq orphans \cup alive /\ call' \in {call, Nothing}
        /\ \A b \in alive' : b = call' \/ b \in orphans' \/ byRaw[b] # Nothing
    BY <1>3 DEF BlockingReturns, BlockingRaises, CleanupTransients, reading, leases, LeaseInv,
                AliveHasEntry
  <2> QED BY <2>1, LeasesQuiet
<1>4. ASSUME NEW s \in Steps, ReadAsync(s) \/ \E stuck \in BOOLEAN : ReadBlocking(s, stuck)
      PROVE  LeaseInv'
  BY <1>4, LeasesReadAsync, LeasesReadBlocking
<1>5. ASSUME NEW r \in Reads, NEW stuck \in BOOLEAN, Process(r, stuck)
      PROVE  LeaseInv'
  BY <1>5, LeasesProcess
<1>6. ASSUME NEW stuck \in SUBSET Steps, Drain(stuck)
      PROVE  LeaseInv'
  BY <1>6, DrainReleases, LeasesReleases, NothingRead
<1> QED BY <1>1, <1>2, <1>3, <1>4, <1>5, <1>6 DEF OutputsNext

\* The registries, the leases and what is allocated agree, at every step of the lane.
THEOREM LeasesInvariance == OutputsSpec => []LeaseInv
BY LeasesInit, LeasesNext, PTL DEF OutputsSpec
-----------------------------------------------------------------------------
(* The device. *)

LEMMA DeviceInit == OutputsInit => DeviceInv
<1> SUFFICES ASSUME OutputsInit PROVE DeviceInv
  OBVIOUS
<1>1. DeviceTypes /\ CopiesShow
  BY DEF OutputsInit, DeviceTypes, CopiesShow, Nothing
<1>2. LastShows /\ HostIsFresh /\ HostValueOfItsStep
  BY DEF OutputsInit, LastShows, HostIsFresh, HostValueOfItsStep
<1> QED BY <1>1, <1>2 DEF DeviceInv

\* What follows in the queue changes nothing before it.
LEMMA ShowsBefore ==
    ASSUME queue \in Seq(Work), NEW work \in Work, queue' = Append(queue, work), UNCHANGED content,
           NEW b, NEW n \in 0 .. Len(queue), NEW s, Shows(b, n, s)
    PROVE  Shows(b, n, s)'
<1>1. Len(queue) \in Nat /\ \A i \in 1 .. Len(queue) : queue'[i] = queue[i]
  OBVIOUS
<1>2. \A k \in Nat \ {0} : NoRun(b, k, n) => NoRun(b, k, n)'
  BY <1>1 DEF NoRun
<1>3. CASE content[b] = s /\ NoRun(b, 1, n)
  BY <1>2, <1>3 DEF Shows
<1>4. ASSUME NEW i \in 1 .. n, queue[i] = Run(b, s), NoRun(b, i + 1, n)
      PROVE  Shows(b, n, s)'
  <2>1. queue'[i] = Run(b, s)
    BY <1>1, <1>4
  <2>2. NoRun(b, i + 1, n)'
    <3>1. i + 1 \in Nat \ {0}
      BY <1>1
    <3> QED BY <1>2, <1>4, <3>1
  <2> QED BY <2>1, <2>2 DEF Shows, Run
<1> QED BY <1>3, <1>4 DEF Shows

\* A copy changes no buffer.
LEMMA ShowsAfterCopy ==
    ASSUME queue \in Seq(Work), NEW work \in Work, queue' = Append(queue, work), UNCHANGED content,
           work.op = "copy", NEW b, NEW s, Shows(b, Len(queue), s)
    PROVE  Shows(b, Len(queue), s)'
<1> DEFINE n == Len(queue)
<1>1. n \in Nat /\ Len(queue') = n + 1 /\ queue'[n + 1] = work
  OBVIOUS
<1>2. Shows(b, n, s) /\ \A i \in 1 .. n : queue'[i] = queue[i]
  OBVIOUS
<1> HIDE DEF n
<1>3. \A k \in Nat \ {0} : NoRun(b, k, n) => \A j \in k .. n + 1 : ~(queue'[j].op = "run" /\ queue'[j].buffer = b)
  BY <1>1, <1>2 DEF NoRun
<1>4. CASE content[b] = s /\ NoRun(b, 1, n)
  BY <1>1, <1>3, <1>4 DEF Shows, NoRun
<1>5. ASSUME NEW i \in 1 .. n, queue[i] = Run(b, s), NoRun(b, i + 1, n)
      PROVE  Shows(b, Len(queue), s)'
  BY <1>1, <1>2, <1>3, <1>5 DEF Shows, NoRun, Run
<1> QED BY <1>2, <1>4, <1>5 DEF Shows

\* Executing the head of the queue.
LEMMA ShowsExecuted ==
    ASSUME DeviceTypes, Execute, NEW b \in Buffers, NEW n \in 1 .. Len(queue), NEW s, Shows(b, n, s)
    PROVE  Shows(b, n - 1, s)'
<1> DEFINE work == Head(queue)
<1>1. /\ queue \in Seq(Work) /\ queue # <<>> /\ Len(queue) \in Nat
      /\ work = queue[1] /\ work \in Work
      /\ \A i \in 1 .. Len(queue) - 1 : queue'[i] = queue[i + 1]
  BY DEF DeviceTypes, Execute
<1>2. \A k \in Nat \ {0} : NoRun(b, k + 1, n) => NoRun(b, k, n - 1)'
  BY <1>1 DEF NoRun
<1>3. CASE content[b] = s /\ NoRun(b, 1, n)
  <2>1. ~(work.op = "run" /\ work.buffer = b)
    BY <1>1, <1>3 DEF NoRun
  <2>2. content'[b] = s
    BY <1>1, <1>3, <2>1 DEF Execute, DeviceTypes, Work
  <2>3. NoRun(b, 2, n)
    BY <1>3 DEF NoRun
  <2> QED BY <1>2, <2>2, <2>3 DEF Shows
<1>4. ASSUME NEW i \in 1 .. n, queue[i] = Run(b, s), NoRun(b, i + 1, n)
      PROVE  Shows(b, n - 1, s)'
  <2>1. CASE i = 1
    <3>1. work.op = "run" /\ work.buffer = b /\ work.of = s
      BY <1>1, <1>4, <2>1 DEF Run
    <3>2. content'[b] = s
      BY <1>1, <3>1 DEF Execute, DeviceTypes, Work
    <3> QED BY <1>2, <1>4, <2>1, <3>2 DEF Shows
  <2>2. CASE i # 1
    <3>1. i - 1 \in 1 .. n - 1 /\ queue'[i - 1] = Run(b, s) /\ i - 1 + 1 = i
      BY <1>1, <1>4, <2>2
    <3>2. NoRun(b, i - 1 + 1, n - 1)'
      BY <1>2, <1>4, <3>1
    <3> QED BY <3>1, <3>2 DEF Shows, Run
  <2> QED BY <2>1, <2>2
<1> QED BY <1>3, <1>4 DEF Shows

LEMMA DeviceExecute ==
    ASSUME LeaseInv, DeviceInv, Execute
    PROVE  DeviceInv'
<1> DEFINE work == Head(queue)
<1>1. /\ queue \in Seq(Work) /\ queue # <<>> /\ Len(queue) \in Nat \ {0}
      /\ work = queue[1] /\ work \in Work /\ queue' = Tail(queue) /\ queue' \in Seq(Work)
      /\ Len(queue') = Len(queue) - 1
      /\ \A i \in 1 .. Len(queue) - 1 : queue'[i] = queue[i + 1]
  BY DEF DeviceInv, DeviceTypes, Execute
<1>2. UNCHANGED <<step, read, meant, byRaw>>
  BY DEF Execute, leases
<1>3. work.op = "copy" =>
        /\ work.of \in Reads /\ work.of <= read /\ content[work.buffer] = meant[work.of]
        /\ host' = [host EXCEPT ![work.of] = content[work.buffer]]
  <2>1. work.op = "copy" => work.of \in 1 .. read /\ Shows(work.buffer, 0, meant[work.of])
    BY <1>1 DEF DeviceInv, CopiesShow
  <2> QED BY <2>1, Spaces DEF Shows, Execute, LeaseInv, LeaseTypes, Reads
<1>4. DeviceTypes'
  BY <1>1, <1>3 DEF DeviceInv, DeviceTypes, Execute, Work
<1>5. CopiesShow'
  <2> SUFFICES ASSUME NEW i \in 1 .. Len(queue'), queue'[i].op = "copy"
               PROVE  (queue[i].of \in 1 .. read /\ Shows(queue[i].buffer, i - 1, meant[queue[i].of]))'
    BY DEF CopiesShow
  <2>1. i + 1 \in 1 .. Len(queue) /\ queue'[i] = queue[i + 1] /\ i \in 1 .. Len(queue) /\ queue[i + 1] \in Work
    BY <1>1
  <2>2. PICK copy \in Work : copy = queue[i + 1]
    BY <2>1
  <2>3. PICK s : s = meant[copy.of]
    OBVIOUS
  <2>4. copy.of \in 1 .. read /\ Shows(copy.buffer, i + 1 - 1, s)
    BY <2>1, <2>2, <2>3 DEF DeviceInv, CopiesShow
  <2>5. Shows(copy.buffer, i - 1, s)'
    BY <2>1, <2>2, <2>4, ShowsExecuted DEF DeviceInv, Work
  <2>6. queue'[i] = copy /\ meant'[copy.of] = s /\ read' = read
    BY <1>2, <2>1, <2>2, <2>3
  <2> QED BY <2>4, <2>5, <2>6
<1>6. LastShows'
  BY <1>1, <1>2, ShowsExecuted DEF DeviceInv, LastShows
<1>7. HostIsFresh' /\ HostValueOfItsStep'
  <2>1. \A r \in Reads : host'[r] = host[r] \/ (r <= read /\ host'[r] = meant[r])
    BY <1>1, <1>3 DEF Execute, DeviceInv, DeviceTypes, Work
  <2>2. HostValueOfItsStep'
    BY <1>2, <2>1 DEF DeviceInv, HostValueOfItsStep
  <2>3. read \in Nat /\ \A r \in Reads : r \in Nat
    BY Spaces DEF LeaseInv, LeaseTypes, Reads
  <2>4. HostIsFresh'
    BY <1>2, <2>1, <2>3 DEF DeviceInv, HostIsFresh
  <2> QED BY <2>2, <2>4
<1> QED BY <1>4, <1>5, <1>6, <1>7 DEF DeviceInv
\* Steps that queue nothing and read nothing keep the device, if no entry is new.
LEMMA DeviceQuiet ==
    ASSUME LeaseInv, DeviceInv, UNCHANGED <<queue, content, host, read, meant>>,
           \A b \in Buffers : byRaw'[b] \in {Nothing, byRaw[b]}, step' = step
    PROVE  DeviceInv'
<1>1. DeviceTypes' /\ CopiesShow'
  BY DEF DeviceInv, DeviceTypes, CopiesShow, Shows, NoRun
<1>2. LastShows' /\ HostIsFresh' /\ HostValueOfItsStep'
  BY DEF DeviceInv, LastShows, Shows, NoRun, HostIsFresh, HostValueOfItsStep
<1> QED BY <1>1, <1>2 DEF DeviceInv

\* The copies that are queued stay behind their runs.
LEMMA CopiesKept ==
    ASSUME LeaseInv, DeviceInv, NEW work \in Work, queue' = Append(queue, work), UNCHANGED content,
           read' \in Nat, read <= read', \A r \in Reads : r <= read => meant'[r] = meant[r],
           work.op = "copy" => /\ work.of \in 1 .. read'
                               /\ Shows(work.buffer, Len(queue), meant'[work.of])
    PROVE  CopiesShow'
<1>1. /\ queue \in Seq(Work) /\ Len(queue) \in Nat /\ Len(queue') = Len(queue) + 1
      /\ queue'[Len(queue) + 1] = work /\ \A i \in 1 .. Len(queue) : queue'[i] = queue[i]
  BY DEF DeviceInv, DeviceTypes
<1> SUFFICES ASSUME NEW i \in 1 .. Len(queue'), queue'[i].op = "copy"
             PROVE  (queue[i].of \in 1 .. read /\ Shows(queue[i].buffer, i - 1, meant[queue[i].of]))'
  BY DEF CopiesShow
<1>2. PICK copy, s : copy = queue'[i] /\ s = meant'[copy.of]
  OBVIOUS
<1>3. i - 1 \in 0 .. Len(queue) /\ copy.of \in 1 .. read' /\ Shows(copy.buffer, i - 1, s)
  <2>1. CASE i = Len(queue) + 1
    BY <1>1, <1>2, <2>1
  <2>2. CASE i # Len(queue) + 1
    <3>1. i \in 1 .. Len(queue) /\ copy = queue[i]
      BY <1>1, <1>2, <2>2
    <3>2. copy.of \in 1 .. read /\ Shows(copy.buffer, i - 1, meant[copy.of])
      BY <1>2, <3>1 DEF DeviceInv, CopiesShow
    <3>3. copy.of \in Reads /\ copy.of <= read /\ copy.of \in 1 .. read'
      BY <3>2, Spaces DEF LeaseInv, LeaseTypes, Reads
    <3> QED BY <1>1, <1>2, <3>1, <3>2, <3>3
  <2> QED BY <2>1, <2>2
<1>4. Shows(copy.buffer, i - 1, s)'
  BY <1>1, <1>3, ShowsBefore
<1> QED BY <1>2, <1>3, <1>4

LEMMA DeviceForward ==
    ASSUME LeaseInv, DeviceInv, NEW b \in Buffers,
           ForwardLeased(b) \/ ForwardBlocking(b) \/ ForwardRaises(b)
    PROVE  DeviceInv'
<1> DEFINE s == step + 1
           work == Run(b, s)
<1>1. (\A c \in Buffers : byRaw[c] = Nothing) /\ s \in Steps
  BY SubmitsSafely DEF ForwardLeased, ForwardBlocking, ForwardRaises, Submit
<1>2. /\ step' = s /\ UNCHANGED <<content, host, read, meant>>
      /\ queue' \in {queue, Append(queue, work)}
  BY DEF ForwardLeased, ForwardBlocking, ForwardRaises, Submit, reading
<1>3. work \in Work /\ work.op = "run" /\ work = Run(b, s) /\ read \in Nat
  BY <1>1, Spaces DEF Run, Work, Steps, LeaseInv, LeaseTypes
<1> HIDE DEF work
<1>4. DeviceTypes'
  BY <1>2, <1>3 DEF DeviceInv, DeviceTypes
<1>5. CopiesShow'
  <2>1. CASE UNCHANGED queue
    BY <1>2, <2>1 DEF DeviceInv, CopiesShow, Shows, NoRun
  <2>2. CASE queue' = Append(queue, work)
    BY <1>2, <1>3, <2>2, CopiesKept
  <2> QED BY <1>2, <2>1, <2>2
<1>6. HostIsFresh' /\ HostValueOfItsStep'
  BY <1>2 DEF DeviceInv, HostIsFresh, HostValueOfItsStep
<1>7. LastShows'
  <2>1. CASE ForwardLeased(b)
    <3>1. queue' = Append(queue, work) /\ byRaw' = [byRaw EXCEPT ![b] = s]
      BY <1>2, <2>1 DEF ForwardLeased, Submit, work
    <3>2. Len(queue) \in Nat /\ Len(queue') = Len(queue) + 1 /\ queue'[Len(queue) + 1] = Run(b, s)
      BY <1>3, <3>1 DEF DeviceInv, DeviceTypes
    <3>3. Shows(b, Len(queue), step)'
      BY <1>2, <3>2 DEF Shows, NoRun, Run
    <3>4. \A c \in Buffers : byRaw'[c] # Nothing => c = b
      BY <1>1, <3>1 DEF LeaseInv, LeaseTypes
    <3> QED BY <1>2, <3>3, <3>4 DEF LastShows
  <2>2. CASE UNCHANGED byRaw
    BY <1>1, <2>2 DEF LastShows
  <2> QED BY <2>1, <2>2 DEF ForwardBlocking, ForwardRaises, leases
<1> QED BY <1>4, <1>5, <1>6, <1>7 DEF DeviceInv

LEMMA DeviceReadAsync ==
    ASSUME LeaseInv, DeviceInv, NEW s \in Steps, ReadAsync(s)
    PROVE  DeviceInv'
<1> DEFINE b == lease[s].buffer
           r == read + 1
           work == Copy(b, r)
<1>1. b \in Buffers /\ byRaw[b] = s /\ s = step /\ s # Nothing
  BY ReadsLast DEF ReadAsync, NewRead, Steps, Nothing
<1>2. /\ r \in Reads /\ read \in Nat /\ read' = r /\ meant' = [meant EXCEPT ![r] = s]
      /\ queue' = Append(queue, work) /\ UNCHANGED <<step, content, host>>
      /\ \A c \in Buffers : byRaw'[c] \in {Nothing, byRaw[c]}
  BY Spaces DEF ReadAsync, NewRead, LeaseInv, LeaseTypes, Reads
<1>3. /\ work \in Work /\ work.op = "copy" /\ work.of = r /\ work.buffer = b
  BY <1>1, <1>2 DEF Copy, Work, Reads
<1>4. meant'[r] = s /\ \A q \in Reads \ {r} : meant'[q] = meant[q]
  BY <1>2 DEF LeaseInv, LeaseTypes
<1>5. Shows(b, Len(queue), s)
  BY <1>1 DEF DeviceInv, LastShows
<1> HIDE DEF work, b
<1>6. DeviceTypes'
  BY <1>2, <1>3 DEF DeviceInv, DeviceTypes
<1>7. CopiesShow'
  BY <1>2, <1>3, <1>4, <1>5, CopiesKept
<1>8. LastShows'
  BY <1>2, <1>3, ShowsAfterCopy DEF DeviceInv, DeviceTypes, LastShows
<1>9. HostIsFresh' /\ HostValueOfItsStep'
  BY <1>2, <1>4 DEF DeviceInv, HostIsFresh, HostValueOfItsStep, Reads
<1> QED BY <1>6, <1>7, <1>8, <1>9 DEF DeviceInv

\* A release only takes entries away.
LEMMA ReleasedEntries ==
    ASSUME LeaseInv, NEW s, NEW stuck, Released(s, stuck)
    PROVE  \A b \in Buffers : byRaw'[b] \in {Nothing, byRaw[b]}
BY DEF Released, leases, LeaseInv, LeaseTypes

LEMMA DeviceReadBlocking ==
    ASSUME LeaseInv, DeviceInv, NEW s \in Steps, NEW stuck \in BOOLEAN, ReadBlocking(s, stuck)
    PROVE  DeviceInv'
<1> DEFINE b == lease[s].buffer
           r == read + 1
<1>1. b \in Buffers /\ byRaw[b] = s /\ s = step /\ s # Nothing
  BY ReadsLast DEF ReadBlocking, NewRead, Steps, Nothing
<1>2. /\ r \in Reads /\ read \in Nat /\ read' = r /\ meant' = [meant EXCEPT ![r] = s]
      /\ host' = [host EXCEPT ![r] = content[b]]
      /\ queue = <<>> /\ UNCHANGED <<step, queue, content>>
      /\ Released(byRaw[b], stuck)
  BY Spaces DEF ReadBlocking, NewRead, LeaseInv, LeaseTypes, Reads
<1>3. \A c \in Buffers : byRaw'[c] \in {Nothing, byRaw[c]}
  BY <1>2, ReleasedEntries
<1>4. content[b] = s
  BY <1>1, <1>2 DEF DeviceInv, LastShows, Shows
<1>5. DeviceTypes' /\ CopiesShow'
  BY <1>1, <1>2 DEF DeviceInv, DeviceTypes, CopiesShow
<1>6. LastShows'
  BY <1>2, <1>3 DEF DeviceInv, LastShows, Shows, NoRun
<1>7. /\ meant'[r] = s /\ host'[r] = s
      /\ \A q \in Reads \ {r} : meant'[q] = meant[q] /\ host'[q] = host[q]
  BY <1>2, <1>4 DEF DeviceInv, DeviceTypes, LeaseInv, LeaseTypes
<1>8. HostIsFresh' /\ HostValueOfItsStep'
  BY <1>2, <1>7 DEF DeviceInv, HostIsFresh, HostValueOfItsStep, Reads
<1> QED BY <1>5, <1>6, <1>8 DEF DeviceInv

LEMMA DeviceNext == LeaseInv /\ DeviceInv /\ [OutputsNext]_outputVars => DeviceInv'
<1> SUFFICES ASSUME LeaseInv, DeviceInv, [OutputsNext]_outputVars PROVE DeviceInv'
  OBVIOUS
<1>1. CASE Execute
  BY <1>1, DeviceExecute
<1>2. ASSUME NEW b \in Buffers, ForwardLeased(b) \/ ForwardBlocking(b) \/ ForwardRaises(b)
      PROVE  DeviceInv'
  BY <1>2, DeviceForward
<1>3. CASE BlockingReturns \/ BlockingRaises \/ CleanupTransients \/ UNCHANGED outputVars
  BY <1>3, DeviceQuiet
     DEF BlockingReturns, BlockingRaises, CleanupTransients, outputVars, device, reading, leases
<1>4. ASSUME NEW s \in Steps, ReadAsync(s) \/ \E stuck \in BOOLEAN : ReadBlocking(s, stuck)
      PROVE  DeviceInv'
  BY <1>4, DeviceReadAsync, DeviceReadBlocking
<1>5. ASSUME NEW r \in Reads, NEW stuck \in BOOLEAN, Process(r, stuck)
      PROVE  DeviceInv'
  BY <1>5, ReleasedEntries, DeviceQuiet DEF Process
<1>6. ASSUME NEW stuck \in SUBSET Steps, Drain(stuck)
      PROVE  DeviceInv'
  BY <1>6, DeviceQuiet DEF Drain
<1> QED BY <1>1, <1>2, <1>3, <1>4, <1>5, <1>6 DEF OutputsNext

\* The leases, the queue and the buffers agree, at every step of the lane and of the device.
THEOREM OutputsInvariance == OutputsSpec => []OutputsInv
BY LeasesInit, DeviceInit, LeasesNext, DeviceNext, PTL DEF OutputsSpec, OutputsInv

\* A value that reached the host is that of the step it was read for, however many steps and copies
\* have used the output in between.
THEOREM HostValuesAreOfTheirSteps == OutputsSpec => []HostValueOfItsStep
BY OutputsInvariance, PTL DEF OutputsInv, DeviceInv

-----------------------------------------------------------------------------
(* Nothing leaks. *)

LEMMA EntriesReach == LeaseInv => AllocatedIsReachable
<1> SUFFICES ASSUME LeaseInv, NEW b \in alive, b # call, b \notin orphans
             PROVE  \E s \in Outstanding : ~lease[s].released /\ b = lease[s].buffer
  BY DEF AllocatedIsReachable
<1>1. b \in Buffers /\ byRaw[b] # Nothing
  BY DEF LeaseInv, LeaseTypes, AliveHasEntry, Buffers
<1> QED BY <1>1 DEF LeaseInv, OnlyLast, Outstanding

\* An allocated output of an eager step is always that of the running step, an orphan the next
\* cleanup releases, or that of a lease the registries hold.
THEOREM NothingLeaks == OutputsSpec => []AllocatedIsReachable
BY LeasesInvariance, EntriesReach, PTL

\* The step of DrainIsComplete.
CompleteDrain ==
    Drain({}) =>
      /\ alive' \subseteq orphans
      /\ \A b \in Buffers : byRaw'[b] = Nothing
      /\ ReadOnce => \A r \in Reads : byHost'[r] = Nothing

LEMMA DrainCompletes == LeaseInv => CompleteDrain
<1> SUFFICES ASSUME LeaseInv, Drain({})
             PROVE  /\ alive' \subseteq orphans
                    /\ \A b \in Buffers : byRaw'[b] = Nothing
                    /\ ReadOnce => \A r \in Reads : byHost'[r] = Nothing
  BY DEF CompleteDrain
<1> DEFINE gone == Drained({})
<1>1. Releases(gone) /\ call = Nothing
  BY DrainReleases
<1>2. \A b \in Buffers : byRaw[b] # Nothing => byRaw[b] \in gone /\ lease[byRaw[b]].buffer = b
  BY DEF LeaseInv, OnlyLast, Outstanding, Drained
<1>3. alive' \subseteq orphans
  <2> SUFFICES ASSUME NEW b \in alive, b \notin orphans PROVE b \notin alive'
    BY <1>1 DEF Releases
  <2>1. b \in Buffers /\ byRaw[b] # Nothing
    BY <1>1, Spaces DEF LeaseInv, LeaseTypes, AliveHasEntry, Buffers, Steps, Nothing
  <2> QED BY <1>1, <1>2, <2>1 DEF Releases
<1>4. \A b \in Buffers : byRaw'[b] = Nothing
  BY <1>1, <1>2 DEF Releases
<1>5. ASSUME ReadOnce, NEW r \in Reads PROVE byHost'[r] = Nothing
  <2>1. CASE byHost[r] = Nothing
    BY <1>1, <2>1 DEF Releases
  <2>2. CASE byHost[r] # Nothing
    <3>1. lease[byHost[r]].read = r /\ ~lease[byHost[r]].released
      BY <1>5, <2>2 DEF LeaseInv, HostEntries, ReadOnce
    <3>2. byHost[r] \in gone
      BY <2>2, <3>1 DEF Outstanding, Drained
    <3> QED BY <1>1, <3>1, <3>2 DEF Releases
  <2> QED BY <2>1, <2>2
<1> QED BY <1>3, <1>4, <1>5

\* A drain that raises nothing leaves no eager output allocated but the orphans, and nothing that
\* refuses the next step; nor any read, if every output was read once.
THEOREM DrainsAreComplete == OutputsSpec => DrainIsComplete
BY LeasesInvariance, DrainCompletes, PTL DEF DrainIsComplete, CompleteDrain

DecodePaths == {"logits", "argmax", "topk"}
SampledPaths == {"argmax", "topk"}

StepTypes ==
    /\ request \in [Slots -> Requests \cup {None}]
    /\ fed \in [Slots -> 0 .. MaxLength]
    /\ mapping \in [Slots -> [Pages -> Blocks \cup {0}]]
    /\ remap \in [Slots -> Slots]
    /\ lastStep \in DecodePaths \cup {"none", "eager"}
    /\ submissionFailed \in BOOLEAN
    /\ DOMAIN inputs = {"tokens", "positions", "table"}
    /\ DOMAIN kv = Blocks \X (0 .. BlockSize - 1)

-----------------------------------------------------------------------------
(* The blocks of the requests. *)

\* A block is at one page of one slot.
BlocksApart ==
    \A s, t \in Slots : \A p, q \in Pages :
        mapping[s][p] = mapping[t][q] /\ mapping[s][p] # 0 => s = t /\ p = q

\* The pages of a slot are mapped in order.
PagesInOrder == \A s \in Slots : \E k \in Nat : Mapped(s) = 0 .. k - 1

\* Every token in the cache is in a block of its request.
TokensMapped ==
    \A s \in Active : /\ fed[s] > 0
                      /\ \A i \in 0 .. fed[s] - 1 : mapping[s][i \div BlockSize] # 0

-----------------------------------------------------------------------------
(* What a step may rely on. *)

\* The last trace replayed is that of the last step, or of a prefill after it.
TracesFollow ==
    /\ lastStep # "eager" => replayed \in {lastStep, "prefill"}
    /\ lastStep # "eager" /\ since = "nothing" => replayed = lastStep
    /\ residentFeedback => lastStep \in SampledPaths

\* After a sampled trace, and until the batch changes, the device has the inputs of the next
\* step, except for the blocks mapped since.
InputsFollow ==
    ~submissionFailed /\ since # "batch" /\ lastStep \in SampledPaths =>
        /\ inputs.positions = [s \in Slots |-> IF s \in Active THEN fed[s] ELSE -1]
        /\ \A s \in Active : inputs.tokens[s] = [of |-> request[s], at |-> fed[s]]
        /\ inputs.table = previousPageTable

\* The page table of the last step is that of the scheduler, unless the next one is told.
TableFollows ==
    Commands /\ "table" \notin untold => \A s \in Active : previousPageTable[s] = mapping[s]

\* So are the sampling parameters of the last sampled step, in the rows they were in.
SamplingFollows ==
    Commands /\ residentSampling # None =>
        /\ DOMAIN residentSampling = {"path", "values", "mask"}
        /\ residentSampling.path \in SampledPaths
        /\ "params" \notin untold =>
             /\ \A s \in Active : residentSampling.values[remap[s]] = Asks[request[s]]
             /\ residentSampling.path = "argmax" => \A s \in Active : Asks[request[s]] = Greedy

StepInv ==
    /\ StepTypes
    /\ BlocksApart
    /\ PagesInOrder
    /\ TokensMapped
    /\ TracesFollow
    /\ InputsFollow
    /\ TableFollows
    /\ SamplingFollows
    /\ CacheHoldsRequests
    /\ SampledAsAsked

-----------------------------------------------------------------------------
(* Positions and pages. *)

LEMMA DivMod ==
    ASSUME NEW i \in Int
    PROVE  /\ i \div BlockSize \in Int /\ i % BlockSize \in 0 .. BlockSize - 1
           /\ i = BlockSize * (i \div BlockSize) + (i % BlockSize)
BY SizesAssumption

\* Two positions of one page are at different places of it.
LEMMA PositionsApart ==
    ASSUME NEW i \in Int, NEW j \in Int, i \div BlockSize = j \div BlockSize,
           i % BlockSize = j % BlockSize
    PROVE  i = j
<1>1. i = BlockSize * (i \div BlockSize) + (i % BlockSize)
  BY DivMod
<1>2. j = BlockSize * (j \div BlockSize) + (j % BlockSize)
  BY DivMod
<1> QED BY <1>1, <1>2

\* A position below the bound has its page in the row of the page table.
LEMMA PositionHasPage ==
    ASSUME NEW i \in 0 .. MaxLength - 1
    PROVE  i \div BlockSize \in Pages
<1>1. i \in Nat /\ i < Width * BlockSize /\ BlockSize \in Nat \ {0} /\ Width \in Nat
  BY SizesAssumption
<1>2. i \div BlockSize \in 0 .. Width - 1
  BY <1>1
<1> QED BY <1>2 DEF Pages

\* The pages copied for the host's position reach the device's, though it may be one ahead.
LEMMA CopiedPagesReach ==
    ASSUME NEW c, NEW i \in Nat
    PROVE  /\ i \div BlockSize < CopiedPages(c, i)
           /\ c.sampled => (i + 1) \div BlockSize < CopiedPages(c, i)
<1>1. BlockSize \in Nat \ {0}
  BY SizesAssumption
<1>2. (i + BlockSize) \div BlockSize = i \div BlockSize + 1 /\ i \div BlockSize \in Int
  BY <1>1
<1>3. (i + 1) \div BlockSize =
        IF (i + 1) % BlockSize = 0 THEN i \div BlockSize + 1 ELSE i \div BlockSize
  BY <1>1
<1> QED BY <1>2, <1>3 DEF CopiedPages

\* A block that is free is at no page.
LEMMA FreeBlock ==
    ASSUME Free # {}
    PROVE  NextBlock \in Blocks /\ \A s \in Slots : \A p \in Pages : mapping[s][p] # NextBlock
BY DEF Free, NextBlock

LEMMA BlocksArePositive == 0 \notin Blocks
BY BlocksAssumption

LEMMA TokenIsMapped ==
    ASSUME StepInv, NEW s \in Active, NEW i \in 0 .. fed[s] - 1
    PROVE  mapping[s][i \div BlockSize] # 0 /\ i \in 0 .. MaxLength - 1
<1>1. fed[s] \in 0 .. MaxLength /\ MaxLength \in Nat
  BY SizesAssumption DEF Active, StepInv, StepTypes
<1>2. i \in 0 .. MaxLength - 1
  BY <1>1
<1>3. mapping[s][i \div BlockSize] # 0
  BY DEF StepInv, TokensMapped
<1> QED BY <1>2, <1>3

\* The cell of a token is one of the cache's.
LEMMA TokenCell ==
    ASSUME StepInv, NEW s \in Active, NEW i \in 0 .. MaxLength - 1,
           mapping[s][i \div BlockSize] # 0
    PROVE  /\ i \div BlockSize \in Pages /\ s \in Slots
           /\ mapping[s][i \div BlockSize] \in Blocks
           /\ <<mapping[s][i \div BlockSize], i % BlockSize>> \in DOMAIN kv
           /\ mapping[s][i \div BlockSize] \notin Free
<1>1. i \div BlockSize \in Pages /\ s \in Slots /\ i % BlockSize \in 0 .. BlockSize - 1
  BY PositionHasPage, DivMod DEF Active
<1>2. mapping[s][i \div BlockSize] \in Blocks
  BY <1>1 DEF StepInv, StepTypes
<1> QED BY <1>1, <1>2 DEF StepInv, StepTypes, Free

-----------------------------------------------------------------------------
(* The parameters of a step. *)

LEMMA CallTypes ==
    ASSUME NEW c \in Calls
    PROVE  /\ c.traced \in BOOLEAN /\ c.sampled \in BOOLEAN /\ c.lag \in BOOLEAN
           /\ c.resetBatch \in BOOLEAN /\ c.reloadInputs \in BOOLEAN
           /\ c.reloadPageTable \in BOOLEAN /\ c.reloadSamplingParams \in BOOLEAN
           /\ c.resetSamplingState \in BOOLEAN
           /\ Commands => ~c.lag
BY DEF Calls, CommandCalls, ResetCalls, CallsWith

\* What a sampled step prepares is what the requests of the batch ask for.
LEMMA PreparedAsAsked ==
    ASSUME StepInv, NEW c \in Calls, Called(c), Accepted(c), c.sampled,
           NEW sampling, sampling = PreparedSampling(c)
    PROVE  /\ DOMAIN sampling = {"path", "values", "mask"}
           /\ sampling.path \in SampledPaths
           /\ \A s \in Active : sampling.values[s] = Asks[request[s]]
           /\ sampling.path = "argmax" => \A s \in Active : Asks[request[s]] = Greedy
<1>1. CASE TakesParams(c)
  <2>1. sampling = [path |-> AskedPath(c), mask |-> Active,
                    values |-> [s \in Slots |-> IF s \in Active THEN Asks[request[s]] ELSE None]]
    BY <1>1 DEF PreparedSampling
  <2>2. /\ AskedPath(c) \in SampledPaths
        /\ AskedPath(c) = "argmax" => \A s \in Active : Asks[request[s]] = Greedy
    BY DEF AskedPath, SampledPaths
  <2> QED BY <2>1, <2>2 DEF Active
<1>2. CASE ~TakesParams(c)
  <2>1. Commands /\ ~c.reloadSamplingParams /\ residentSampling # None
    BY <1>2, CallTypes DEF TakesParams
  <2>2. "params" \notin untold
    BY <2>1, CallTypes DEF Called, CommandContract
  <2>3. /\ DOMAIN residentSampling = {"path", "values", "mask"}
        /\ residentSampling.path \in SampledPaths
        /\ \A s \in Active : residentSampling.values[remap[s]] = Asks[request[s]]
        /\ residentSampling.path = "argmax" => \A s \in Active : Asks[request[s]] = Greedy
    BY <2>1, <2>2 DEF StepInv, SamplingFollows
  <2>4. RemappedResident # None
    BY <1>2, <2>1 DEF Accepted, SamplingConsistent
  <2>5. /\ DOMAIN RemappedResident = {"path", "values", "mask"}
        /\ RemappedResident.path = residentSampling.path
        /\ \A s \in Active : RemappedResident.values[s] = residentSampling.values[remap[s]]
    <3>1. CASE remap = Identity
      BY <2>3, <3>1 DEF RemappedResident, Identity, Active
    <3>2. CASE remap # Identity
      BY <2>1, <2>4, <3>2 DEF RemappedResident, Active
    <3> QED BY <3>1, <3>2
  <2>6. sampling = IF c.reloadInputs THEN [RemappedResident EXCEPT !.mask = Active]
                   ELSE RemappedResident
    BY <1>2 DEF PreparedSampling
  <2>7. /\ DOMAIN sampling = {"path", "values", "mask"}
        /\ sampling.path = RemappedResident.path /\ sampling.values = RemappedResident.values
    BY <2>5, <2>6
  <2> QED BY <2>3, <2>5, <2>7
<1> QED BY <1>1, <1>2

LEMMA NoneMissampled ==
    ASSUME StepInv, NEW c \in Calls, Called(c), Accepted(c)
    PROVE  Missampled(c) = {}
<1>1. CASE ~c.sampled
  BY <1>1 DEF Missampled, StepInv, SampledAsAsked
<1>2. CASE c.sampled
  <2>1. /\ PreparedSampling(c).path \in SampledPaths /\ Path(c) = PreparedSampling(c).path
        /\ \A s \in Active : PreparedSampling(c).values[s] = Asks[request[s]]
        /\ PreparedSampling(c).path = "argmax" => \A s \in Active : Asks[request[s]] = Greedy
    BY <1>2, PreparedAsAsked DEF Path
  <2>2. \A s \in Active : SampledWith(c, s) = Asks[request[s]]
    BY <2>1 DEF SampledWith, StagedSampling, SampledPaths
  <2> QED BY <1>2, <2>2 DEF Missampled, StepInv, SampledAsAsked
<1> QED BY <1>1, <1>2

-----------------------------------------------------------------------------
(* The inputs of a step. *)

\* The page table of a step has the block of each request's next token.
LEMMA PageTableReaches ==
    ASSUME StepInv, NEW c \in Calls, Called(c), NEW s \in Active
    PROVE  PageTable(c)[s][fed[s] \div BlockSize] = mapping[s][fed[s] \div BlockSize]
<1>1. /\ s \in Slots /\ fed[s] \in Nat /\ fed[s] > 0 /\ fed[s] \in 0 .. MaxLength - 1
      /\ fed[s] \div BlockSize \in Pages
  <2>1. s \in Slots /\ fed[s] \in 0 .. MaxLength /\ MaxLength \in Nat /\ fed[s] > 0
    BY SizesAssumption DEF Active, StepInv, StepTypes, TokensMapped
  <2>2. fed[s] < MaxLength
    BY DEF Called
  <2> QED BY <2>1, <2>2, PositionHasPage
<1>2. CASE Commands
  <2>1. CASE c.reloadInputs \/ c.reloadPageTable
    BY <1>2, <2>1 DEF PageTable
  <2>2. CASE ~(c.reloadInputs \/ c.reloadPageTable)
    <3>1. "table" \notin untold
      BY <1>2, <2>2, CallTypes DEF Called, CommandContract
    <3>2. PageTable(c) = previousPageTable
      BY <1>2, <2>2 DEF PageTable
    <3> QED BY <1>2, <3>1, <3>2 DEF StepInv, TableFollows
  <2> QED BY <2>1, <2>2
<1>3. CASE ~Commands
  <2>1. Positions(c)[s] = IF c.lag THEN fed[s] - 1 ELSE fed[s]
    BY <1>1 DEF Positions
  <2>2. c.lag => c.sampled
    BY <1>3 DEF Called, ResetContract
  <2>3. fed[s] \div BlockSize < CopiedPages(c, Positions(c)[s])
    <3>1. CASE c.lag
      <4>1. fed[s] - 1 \in Nat /\ fed[s] - 1 + 1 = fed[s]
        BY <1>1
      <4>2. (fed[s] - 1 + 1) \div BlockSize < CopiedPages(c, fed[s] - 1)
        BY <2>2, <3>1, <4>1, CopiedPagesReach
      <4> QED BY <2>1, <3>1, <4>1, <4>2
    <3>2. CASE ~c.lag
      BY <1>1, <2>1, <3>2, CopiedPagesReach
    <3> QED BY <3>1, <3>2
  <2> QED BY <1>1, <1>3, <2>3 DEF PageTable
<1> QED BY <1>2, <1>3

\* What a step stages: the next token of each request at its next position.
Follows(in, table) ==
    /\ DOMAIN in = {"tokens", "positions", "table"}
    /\ in.positions = [s \in Slots |-> IF s \in Active THEN fed[s] ELSE -1]
    /\ \A s \in Active : in.tokens[s] = [of |-> request[s], at |-> fed[s]]
    /\ in.table = table

\* Inputs of the host are used only when the host is not behind; those on the device only when
\* the last step left them there and nothing has changed since.
LEMMA StagedFollows ==
    ASSUME StepInv, NEW c \in Calls, Called(c), Accepted(c)
    PROVE  Follows(StagedInputs(c), PageTable(c))
<1>1. ~Switched(c) => replayed = Path(c)
  BY DEF Switched
<1>2. CASE Full(c) \/ ~c.traced
  <2>1. ~c.lag
    <3> SUFFICES ASSUME c.lag PROVE FALSE
      OBVIOUS
    <3>1. ~Commands
      BY CallTypes
    <3>2. ~c.resetBatch /\ c.sampled /\ c.traced /\ lastStep = AskedPath(c) /\ since = "nothing"
      BY <3>1 DEF Called, ResetContract
    <3>3. Path(c) = AskedPath(c) /\ AskedPath(c) # "eager"
      BY <3>1, <3>2 DEF Path, PreparedSampling, TakesParams, AskedPath
    <3>4. replayed = Path(c)
      BY <3>2, <3>3 DEF StepInv, TracesFollow
    <3> QED BY <1>2, <3>1, <3>2, <3>4 DEF Full, Switched
  <2>2. Positions(c) = [s \in Slots |-> IF s \in Active THEN fed[s] ELSE -1]
    BY <2>1 DEF Positions
  <2>3. StagedInputs(c) = HostInputs(c)
    BY <1>2 DEF StagedInputs
  <2> QED BY <2>2, <2>3 DEF Follows, HostInputs, Active
<1>3. CASE ~Full(c) /\ c.traced
  <2>1. since # "batch" /\ lastStep \in SampledPaths /\ ~submissionFailed
    <3>1. CASE Commands
      BY <1>3, <3>1 DEF Full, Accepted, ResidentAllowed, Called, CommandContract, StepInv, TracesFollow
    <3>2. CASE ~Commands
      <4>1. ~c.resetBatch /\ c.sampled /\ replayed = Path(c)
        BY <1>1, <1>3, <3>2 DEF Full
      <4>2. since # "batch" /\ lastStep # "eager"
        BY <3>2, <4>1 DEF Called, ResetContract
      <4>3. Path(c) \in SampledPaths
        BY <3>2, <4>1 DEF Path, PreparedSampling, TakesParams, AskedPath, SampledPaths
      <4> QED BY <4>1, <4>2, <4>3 DEF StepInv, TracesFollow, SampledPaths, Accepted
    <3> QED BY <3>1, <3>2
  <2>2. Follows(inputs, previousPageTable)
    BY <2>1 DEF StepInv, InputsFollow, StepTypes, Follows
  <2>3. CASE OnlyPageTable(c)
    <3>1. StagedInputs(c) = [inputs EXCEPT !.table = PageTable(c)]
      BY <1>3, <2>3 DEF StagedInputs
    <3> QED BY <2>2, <3>1 DEF Follows
  <2>4. CASE ~OnlyPageTable(c)
    <3>1. StagedInputs(c) = inputs
      BY <1>3, <2>4 DEF StagedInputs
    <3>2. PageTable(c) = previousPageTable
      BY <1>3, <2>4 DEF OnlyPageTable, PageTable, Full
    <3> QED BY <2>2, <3>1, <3>2
  <2> QED BY <2>3, <2>4
<1> QED BY <1>2, <1>3

-----------------------------------------------------------------------------
(* The cache after a step. *)

\* Each row writes where its request's next token belongs, and nowhere else.
LEMMA CacheAfterStep ==
    ASSUME StepInv, NEW c \in Calls, Called(c), Accepted(c)
    PROVE  \A s \in Active : \A i \in 0 .. fed[s] :
             /\ mapping[s][i \div BlockSize] # 0
             /\ CacheAfter(StagedInputs(c))[<<mapping[s][i \div BlockSize], i % BlockSize>>] =
                  [of |-> request[s], at |-> i]
<1>1. PICK in : in = StagedInputs(c)
  OBVIOUS
<1>2. Follows(in, PageTable(c))
  BY <1>1, StagedFollows
<1>3. \A s \in Active : /\ s \in Slots /\ fed[s] \in 0 .. MaxLength - 1 /\ fed[s] \in Nat
                        /\ mapping[s][fed[s] \div BlockSize] # 0
  <2>1. \A s \in Active : s \in Slots /\ fed[s] \in 0 .. MaxLength /\ MaxLength \in Nat
    BY SizesAssumption DEF Active, StepInv, StepTypes
  <2> QED BY <2>1 DEF Called
<1>4. Running(in) = Active
  BY <1>2, <1>3 DEF Running, Follows, Active
<1>5. \A s \in Active : Cell(in, s) = <<mapping[s][fed[s] \div BlockSize], fed[s] % BlockSize>>
  <2> SUFFICES ASSUME NEW s \in Active
               PROVE  Cell(in, s) = <<mapping[s][fed[s] \div BlockSize], fed[s] % BlockSize>>
    OBVIOUS
  <2>1. in.positions[s] = fed[s]
    BY <1>2, <1>3 DEF Follows
  <2>2. in.table[s][fed[s] \div BlockSize] = mapping[s][fed[s] \div BlockSize]
    BY <1>2, PageTableReaches DEF Follows
  <2>3. fed[s] \div BlockSize \in Pages
    BY <1>3, PositionHasPage
  <2> QED BY <2>1, <2>2, <2>3 DEF Cell
<1>6. SUFFICES ASSUME NEW s \in Active, NEW i \in 0 .. fed[s]
      PROVE  /\ mapping[s][i \div BlockSize] # 0
             /\ CacheAfter(in)[<<mapping[s][i \div BlockSize], i % BlockSize>>] =
                  [of |-> request[s], at |-> i]
  BY <1>1
<1>7. i \in 0 .. MaxLength - 1 /\ i \in Int
  BY <1>3, SizesAssumption
<1>8. mapping[s][i \div BlockSize] # 0
  <2>1. CASE i = fed[s]
    BY <1>3, <2>1
  <2>2. CASE i # fed[s]
    <3>1. i \in 0 .. fed[s] - 1
      BY <1>3, <2>2
    <3> QED BY <3>1 DEF StepInv, TokensMapped
  <2> QED BY <2>1, <2>2
<1>9. PICK cell : cell = <<mapping[s][i \div BlockSize], i % BlockSize>>
  OBVIOUS
<1>10. /\ cell \in DOMAIN kv /\ cell[1] \notin Free
       /\ s \in Slots /\ i \div BlockSize \in Pages /\ cell[1] # 0
  BY <1>7, <1>8, <1>9, TokenCell
<1>11. \A t \in Active : Cell(in, t) = cell => t = s /\ fed[t] = i
  <2> SUFFICES ASSUME NEW t \in Active, Cell(in, t) = cell PROVE t = s /\ fed[t] = i
    OBVIOUS
  <2>1. /\ mapping[t][fed[t] \div BlockSize] = mapping[s][i \div BlockSize]
        /\ fed[t] % BlockSize = i % BlockSize
    BY <1>5, <1>9
  <2>2. t \in Slots /\ fed[t] \div BlockSize \in Pages /\ fed[t] \in Int
    BY <1>3, PositionHasPage
  <2>3. t = s /\ fed[t] \div BlockSize = i \div BlockSize
    BY <1>8, <1>10, <2>1, <2>2 DEF StepInv, BlocksApart
  <2> QED BY <1>7, <2>1, <2>2, <2>3, PositionsApart
<1> DEFINE writers == {t \in Running(in) : Cell(in, t) = cell}
<1>12. CacheAfter(in)[cell] =
         IF writers = {} \/ cell[1] \in Free THEN kv[cell]
         ELSE in.tokens[CHOOSE t \in writers : TRUE]
  BY <1>10 DEF CacheAfter
<1>13. CASE i = fed[s]
  <2>1. writers = {s}
    BY <1>4, <1>5, <1>9, <1>11, <1>13
  <2>2. CacheAfter(in)[cell] = in.tokens[s]
    BY <1>10, <1>12, <2>1
  <2> QED BY <1>2, <1>8, <1>9, <1>13, <2>2 DEF Follows
<1>14. CASE i # fed[s]
  <2>1. writers = {}
    BY <1>4, <1>11, <1>14
  <2>2. CacheAfter(in)[cell] = kv[cell]
    BY <1>12, <2>1
  <2>3. i \in 0 .. fed[s] - 1
    BY <1>3, <1>14
  <2> QED BY <1>8, <1>9, <2>2, <2>3 DEF StepInv, CacheHoldsRequests
<1> QED BY <1>13, <1>14

-----------------------------------------------------------------------------
(* The scheduler's operations. *)

LEMMA StartInv == StepInit => StepInv
<1> SUFFICES ASSUME StepInit PROVE StepInv
  OBVIOUS
<1>1. Active = {}
  BY DEF StepInit, Active
<1>2. StepTypes
  <2>1. 0 \in 0 .. MaxLength
    BY SizesAssumption
  <2>2. request \in [Slots -> Requests \cup {None}] /\ fed \in [Slots -> 0 .. MaxLength]
    BY <2>1 DEF StepInit
  <2>3. mapping \in [Slots -> [Pages -> Blocks \cup {0}]] /\ remap \in [Slots -> Slots]
    BY DEF StepInit, Unmapped, Identity
  <2>4. DOMAIN inputs = {"tokens", "positions", "table"}
    BY DEF StepInit, UnsetInputs
  <2>5. DOMAIN kv = Blocks \X (0 .. BlockSize - 1)
    BY DEF StepInit
  <2> QED BY <2>2, <2>3, <2>4, <2>5 DEF StepInit, StepTypes
<1>3. BlocksApart /\ PagesInOrder
  <2>1. \A s \in Slots : \A p \in Pages : mapping[s][p] = 0
    BY DEF StepInit, Unmapped
  <2>2. \A s \in Slots : Mapped(s) = 0 .. 0 - 1
    BY <2>1 DEF Mapped
  <2> QED BY <2>1, <2>2 DEF BlocksApart, PagesInOrder
<1>4. TokensMapped /\ TableFollows /\ CacheHoldsRequests
  BY <1>1 DEF TokensMapped, TableFollows, CacheHoldsRequests
<1>5. TracesFollow /\ InputsFollow /\ SamplingFollows /\ SampledAsAsked
  BY DEF StepInit, TracesFollow, InputsFollow, SamplingFollows, SampledAsAsked, SampledPaths
<1> QED BY <1>2, <1>3, <1>4, <1>5 DEF StepInv

LEMMA AdmitKeeps ==
    ASSUME StepInv, NEW s \in Slots, NEW q \in Requests, Admit(s, q)
    PROVE  StepInv'
<1> DEFINE block == NextBlock
<1>1. /\ block \in Blocks /\ block # 0
      /\ \A t \in Slots : \A p \in Pages : mapping[t][p] # block
  BY FreeBlock, BlocksArePositive DEF Admit
<1>2. 0 \in Pages /\ Unmapped \in [Pages -> Blocks \cup {0}] /\ \A p \in Pages : Unmapped[p] = 0
  BY SizesAssumption DEF Pages, Unmapped
<1> HIDE DEF block
<1>3. /\ UNCHANGED <<contract, remap, lastStep, runtimeVars, replayed, inputs, missampled>>
      /\ since' = "batch" /\ untold' = {"table", "params", "members"}
      /\ request' = [request EXCEPT ![s] = q] /\ fed' = [fed EXCEPT ![s] = 1]
      /\ mapping' = [mapping EXCEPT ![s] = [Unmapped EXCEPT ![0] = block]]
      /\ kv' = [kv EXCEPT ![<<block, 0>>] = [of |-> q, at |-> 0]]
  BY DEF Admit, block
<1>4. /\ mapping'[s] \in [Pages -> Blocks \cup {0}] /\ mapping'[s][0] = block
      /\ \A p \in Pages \ {0} : mapping'[s][p] = 0
      /\ \A t \in Slots \ {s} : mapping'[t] = mapping[t]
  BY <1>1, <1>2, <1>3 DEF StepInv, StepTypes
<1>5. StepTypes'
  <2>1. 1 \in 0 .. MaxLength
    BY SizesAssumption
  <2> QED BY <1>1, <1>3, <1>4, <2>1 DEF StepInv, StepTypes, runtimeVars
<1>6. BlocksApart'
  BY <1>1, <1>4 DEF StepInv, BlocksApart
<1>7. PagesInOrder'
  <2>1. Mapped(s)' = 0 .. 1 - 1
    BY <1>1, <1>2, <1>4 DEF Mapped
  <2>2. \A t \in Slots \ {s} : Mapped(t)' = Mapped(t)
    BY <1>4 DEF Mapped
  <2> QED BY <2>1, <2>2 DEF StepInv, PagesInOrder
<1>8. \A t \in Active' : t = s \/ (t \in Active /\ t \in Slots \ {s})
  BY <1>3 DEF Active, StepInv, StepTypes
<1>9. \A i \in 0 .. 0 : i \div BlockSize = 0 /\ i % BlockSize = 0
  BY SizesAssumption
<1>10. \A t \in Slots \ {s} : fed'[t] = fed[t] /\ request'[t] = request[t]
  BY <1>3 DEF StepInv, StepTypes
<1>11. fed'[s] = 1 /\ request'[s] = q
  BY <1>3 DEF StepInv, StepTypes
<1>12. TokensMapped'
  BY <1>1, <1>4, <1>8, <1>9, <1>10, <1>11 DEF StepInv, TokensMapped
<1>13. TracesFollow' /\ InputsFollow' /\ TableFollows' /\ SampledAsAsked'
  BY <1>3 DEF StepInv, TracesFollow, InputsFollow, TableFollows, SampledAsAsked, runtimeVars
<1>14. SamplingFollows'
  BY <1>3 DEF StepInv, SamplingFollows, Commands, runtimeVars
<1>15. CacheHoldsRequests'
  <2> SUFFICES ASSUME NEW t \in Active', NEW i \in 0 .. fed'[t] - 1
               PROVE  kv'[<<mapping'[t][i \div BlockSize], i % BlockSize>>] =
                        [of |-> request'[t], at |-> i]
    BY DEF CacheHoldsRequests
  <2>1. CASE t = s
    <3>1. i = 0 /\ i \div BlockSize = 0 /\ i % BlockSize = 0
      BY <1>9, <1>11, <2>1
    <3>2. <<block, 0>> \in DOMAIN kv
      BY <1>1, SizesAssumption DEF StepInv, StepTypes
    <3> QED BY <1>3, <1>4, <1>11, <2>1, <3>1, <3>2
  <2>2. CASE t # s
    <3>1. t \in Active /\ t \in Slots \ {s} /\ i \in 0 .. fed[t] - 1
      BY <1>8, <1>10, <2>2
    <3>2. mapping[t][i \div BlockSize] # 0 /\ i \in 0 .. MaxLength - 1
      BY <3>1, TokenIsMapped
    <3>3. PICK cell : cell = <<mapping[t][i \div BlockSize], i % BlockSize>>
      OBVIOUS
    <3>4. cell \in DOMAIN kv /\ cell # <<block, 0>>
      BY <1>1, <3>1, <3>2, <3>3, TokenCell
    <3>5. kv'[cell] = kv[cell]
      BY <1>3, <3>4
    <3> QED BY <1>4, <1>10, <3>1, <3>3, <3>5 DEF StepInv, CacheHoldsRequests
  <2> QED BY <2>1, <2>2
<1> QED BY <1>5, <1>6, <1>7, <1>12, <1>13, <1>14, <1>15 DEF StepInv

LEMMA FinishKeeps ==
    ASSUME StepInv, NEW s \in Slots, Finish(s)
    PROVE  StepInv'
<1>1. /\ UNCHANGED <<contract, remap, lastStep, runtimeVars, replayed, inputs, missampled>>
      /\ since' = "batch" /\ untold' = untold \cup {"table", "members"}
      /\ request' = [request EXCEPT ![s] = None] /\ fed' = [fed EXCEPT ![s] = 0]
      /\ mapping' = [mapping EXCEPT ![s] = Unmapped]
      /\ kv' = [cell \in DOMAIN kv |->
                  IF \E p \in Pages : mapping[s][p] = cell[1] THEN NoToken ELSE kv[cell]]
  BY DEF Finish
<1>2. /\ Unmapped \in [Pages -> Blocks \cup {0}] /\ \A p \in Pages : mapping'[s][p] = 0
      /\ \A t \in Slots \ {s} : /\ mapping'[t] = mapping[t] /\ fed'[t] = fed[t]
                                /\ request'[t] = request[t]
  BY <1>1 DEF StepInv, StepTypes, Unmapped
<1>3. StepTypes'
  BY <1>1, <1>2, SizesAssumption DEF StepInv, StepTypes, runtimeVars
<1>4. BlocksApart'
  BY <1>2 DEF StepInv, BlocksApart
<1>5. PagesInOrder'
  <2>1. Mapped(s)' = 0 .. 0 - 1
    BY <1>2 DEF Mapped
  <2>2. \A t \in Slots \ {s} : Mapped(t)' = Mapped(t)
    BY <1>2 DEF Mapped
  <2> QED BY <2>1, <2>2 DEF StepInv, PagesInOrder
<1>6. \A t \in Active' : t \in Active /\ t \in Slots \ {s}
  BY <1>1 DEF Active, StepInv, StepTypes
<1>7. TokensMapped'
  BY <1>2, <1>6 DEF StepInv, TokensMapped
<1>8. TracesFollow' /\ InputsFollow' /\ TableFollows' /\ SampledAsAsked'
  BY <1>1 DEF StepInv, TracesFollow, InputsFollow, TableFollows, SampledAsAsked, runtimeVars
<1>9. SamplingFollows'
  BY <1>1, <1>2, <1>6 DEF StepInv, SamplingFollows, Commands, runtimeVars
<1>10. CacheHoldsRequests'
  <2> SUFFICES ASSUME NEW t \in Active', NEW i \in 0 .. fed'[t] - 1
               PROVE  kv'[<<mapping'[t][i \div BlockSize], i % BlockSize>>] =
                        [of |-> request'[t], at |-> i]
    BY DEF CacheHoldsRequests
  <2>1. t \in Active /\ t \in Slots \ {s} /\ i \in 0 .. fed[t] - 1
    BY <1>2, <1>6
  <2>2. mapping[t][i \div BlockSize] # 0 /\ i \in 0 .. MaxLength - 1
    BY <2>1, TokenIsMapped
  <2>3. PICK cell : cell = <<mapping[t][i \div BlockSize], i % BlockSize>>
    OBVIOUS
  <2>4. /\ cell \in DOMAIN kv /\ cell[1] = mapping[t][i \div BlockSize]
        /\ i \div BlockSize \in Pages
    BY <2>1, <2>2, <2>3, TokenCell
  <2>5. \A p \in Pages : mapping[s][p] # cell[1]
    BY <2>1, <2>2, <2>4 DEF StepInv, BlocksApart
  <2>6. kv'[cell] = kv[cell]
    BY <1>1, <2>4, <2>5
  <2> QED BY <1>2, <2>1, <2>3, <2>6 DEF StepInv, CacheHoldsRequests
<1> QED BY <1>3, <1>4, <1>5, <1>7, <1>8, <1>9, <1>10 DEF StepInv

\* Pages are mapped in order, so the new block takes a page that had none.
LEMMA GrowKeeps ==
    ASSUME StepInv, NEW s \in Slots, Grow(s)
    PROVE  StepInv'
<1> DEFINE block == NextBlock
           page == Cardinality(Mapped(s))
<1>1. /\ block \in Blocks /\ block # 0
      /\ \A t \in Slots : \A p \in Pages : mapping[t][p] # block
  BY FreeBlock, BlocksArePositive DEF Grow
<1>2. page \in Pages /\ mapping[s][page] = 0 /\ Mapped(s) = 0 .. page - 1
  <2>1. PICK k \in Nat : Mapped(s) = 0 .. k - 1
    BY DEF StepInv, PagesInOrder
  <2>2. page = k
    <3>1. Cardinality(0 .. k - 1) = k
      BY FS_Interval
    <3> QED BY <2>1, <3>1
  <2>3. page \in Pages
    BY DEF Grow
  <2> QED BY <2>1, <2>2, <2>3 DEF Mapped
<1>3. /\ UNCHANGED <<contract, request, fed, remap, since, lastStep, runtimeVars, deviceVars>>
      /\ mapping' = [mapping EXCEPT ![s][page] = block]
      /\ untold' = untold \cup {"table"}
  BY DEF Grow
<1> HIDE DEF block, page
<1>4. /\ mapping'[s] = [mapping[s] EXCEPT ![page] = block]
      /\ \A t \in Slots \ {s} : mapping'[t] = mapping[t]
      /\ mapping[s] \in [Pages -> Blocks \cup {0}]
  BY <1>3 DEF StepInv, StepTypes
<1>5. mapping'[s][page] = block /\ \A p \in Pages \ {page} : mapping'[s][p] = mapping[s][p]
  BY <1>2, <1>4
<1>6. \A t \in Slots : \A p \in Pages : mapping[t][p] # 0 => mapping'[t][p] = mapping[t][p]
  BY <1>2, <1>4, <1>5
<1>7. StepTypes'
  <2>1. mapping' \in [Slots -> [Pages -> Blocks \cup {0}]]
    BY <1>1, <1>2, <1>3 DEF StepInv, StepTypes
  <2> QED BY <1>3, <2>1 DEF StepInv, StepTypes, runtimeVars, deviceVars
<1>8. BlocksApart'
  BY <1>1, <1>4, <1>5 DEF StepInv, BlocksApart
<1>9. PagesInOrder'
  <2>1. Mapped(s)' = 0 .. (page + 1) - 1 /\ page + 1 \in Nat
    <3>1. Mapped(s)' = Mapped(s) \cup {page}
      BY <1>1, <1>2, <1>5 DEF Mapped
    <3>2. page \in Nat
      BY <1>2, SizesAssumption DEF Pages
    <3> QED BY <1>2, <3>1, <3>2
  <2>2. \A t \in Slots \ {s} : Mapped(t)' = Mapped(t)
    BY <1>4 DEF Mapped
  <2> QED BY <2>1, <2>2 DEF StepInv, PagesInOrder
<1>10. Active' = Active
  BY <1>3 DEF Active
<1>11. ASSUME NEW t \in Active, NEW i \in 0 .. fed[t] - 1
       PROVE  /\ mapping[t][i \div BlockSize] # 0
              /\ mapping'[t][i \div BlockSize] = mapping[t][i \div BlockSize]
  <2>1. mapping[t][i \div BlockSize] # 0 /\ i \in 0 .. MaxLength - 1
    BY TokenIsMapped
  <2> QED BY <1>6, <2>1, TokenCell
<1>12. TokensMapped'
  BY <1>3, <1>10, <1>11 DEF StepInv, TokensMapped
<1>13. CacheHoldsRequests'
  BY <1>3, <1>10, <1>11 DEF StepInv, CacheHoldsRequests, deviceVars
<1>14. TracesFollow' /\ TableFollows' /\ SampledAsAsked'
  BY <1>3 DEF StepInv, TracesFollow, TableFollows, SampledAsAsked, runtimeVars, deviceVars
<1>15. InputsFollow'
  BY <1>3, <1>10 DEF StepInv, InputsFollow, runtimeVars, deviceVars
<1>16. SamplingFollows'
  BY <1>3, <1>10 DEF StepInv, SamplingFollows, Commands, runtimeVars
<1> QED BY <1>7, <1>8, <1>9, <1>12, <1>13, <1>14, <1>15, <1>16 DEF StepInv

LEMMA MoveKeeps ==
    ASSUME StepInv, NEW s \in Slots, NEW t \in Slots, Move(s, t)
    PROVE  StepInv'
<1>1. /\ s # t /\ \A x \in Slots : remap[x] = x
      /\ UNCHANGED <<contract, lastStep, runtimeVars, deviceVars>>
      /\ since' = "batch" /\ untold' = untold \cup {"table"}
      /\ request' = [request EXCEPT ![s] = request[t], ![t] = None]
      /\ fed' = [fed EXCEPT ![s] = fed[t], ![t] = 0]
      /\ mapping' = [mapping EXCEPT ![s] = mapping[t], ![t] = Unmapped]
      /\ remap' = [remap EXCEPT ![s] = t]
  BY DEF Move, Identity
<1>2. /\ Unmapped \in [Pages -> Blocks \cup {0}] /\ \A p \in Pages : mapping'[t][p] = 0
      /\ \A x \in Slots \ {t} : mapping'[x] = mapping[remap'[x]]
  BY <1>1 DEF StepInv, StepTypes, Unmapped
<1>3. \A x \in Slots \ {t} : /\ remap'[x] = IF x = s THEN t ELSE x
                             /\ fed'[x] = fed[remap'[x]] /\ request'[x] = request[remap'[x]]
  BY <1>1 DEF StepInv, StepTypes
<1>4. StepTypes'
  <2>1. request' \in [Slots -> Requests \cup {None}] /\ remap' \in [Slots -> Slots]
    BY <1>1 DEF StepInv, StepTypes
  <2>2. fed' \in [Slots -> 0 .. MaxLength]
    BY <1>1, SizesAssumption DEF StepInv, StepTypes
  <2>3. mapping' \in [Slots -> [Pages -> Blocks \cup {0}]]
    BY <1>1, <1>2 DEF StepInv, StepTypes
  <2> QED BY <1>1, <2>1, <2>2, <2>3 DEF StepInv, StepTypes, runtimeVars, deviceVars
<1>5. BlocksApart'
  <2> SUFFICES ASSUME NEW x \in Slots, NEW y \in Slots, NEW p \in Pages, NEW r \in Pages,
                      mapping'[x][p] = mapping'[y][r], mapping'[x][p] # 0
               PROVE  x = y /\ p = r
    BY DEF BlocksApart
  <2>1. x # t /\ y # t
    BY <1>2
  <2>2. /\ remap'[x] \in Slots /\ mapping'[x] = mapping[remap'[x]]
        /\ remap'[y] \in Slots /\ mapping'[y] = mapping[remap'[y]]
    BY <1>2, <1>3, <2>1
  <2>3. remap'[x] = remap'[y] /\ p = r
    BY <2>2 DEF StepInv, BlocksApart
  <2> QED BY <1>3, <2>1, <2>3
<1>6. PagesInOrder'
  <2>1. Mapped(t)' = 0 .. 0 - 1
    BY <1>2 DEF Mapped
  <2>2. \A x \in Slots \ {t} : Mapped(x)' = Mapped(remap'[x]) /\ remap'[x] \in Slots
    BY <1>2, <1>3 DEF Mapped
  <2> QED BY <2>1, <2>2 DEF StepInv, PagesInOrder
<1>7. \A x \in Active' : x \in Slots \ {t} /\ remap'[x] \in Active
  BY <1>1, <1>3 DEF Active, StepInv, StepTypes
<1>8. \A x \in Active : remap[x] = x
  BY <1>1 DEF Active
<1>9. TokensMapped'
  BY <1>2, <1>3, <1>7 DEF StepInv, TokensMapped
<1>10. CacheHoldsRequests'
  <2> SUFFICES ASSUME NEW x \in Active', NEW i \in 0 .. fed'[x] - 1
               PROVE  kv'[<<mapping'[x][i \div BlockSize], i % BlockSize>>] =
                        [of |-> request'[x], at |-> i]
    BY DEF CacheHoldsRequests
  <2>1. PICK y \in Active : y = remap'[x]
    BY <1>7
  <2>2. /\ mapping'[x] = mapping[y] /\ fed'[x] = fed[y] /\ request'[x] = request[y]
        /\ kv' = kv
    BY <1>1, <1>2, <1>3, <1>7, <2>1 DEF deviceVars
  <2> QED BY <2>2 DEF StepInv, CacheHoldsRequests
<1>11. TracesFollow' /\ InputsFollow' /\ TableFollows' /\ SampledAsAsked'
  BY <1>1 DEF StepInv, TracesFollow, InputsFollow, TableFollows, SampledAsAsked, runtimeVars,
       deviceVars
<1>12. SamplingFollows'
  <2>1. \A x \in Active' : /\ remap'[x] \in Active /\ remap[remap'[x]] = remap'[x]
                           /\ request'[x] = request[remap'[x]]
    BY <1>3, <1>7, <1>8
  <2>2. /\ contract' = contract /\ residentSampling' = residentSampling
        /\ "params" \in untold' <=> "params" \in untold
    BY <1>1 DEF runtimeVars
  <2> QED BY <2>1, <2>2 DEF StepInv, SamplingFollows, Commands
<1> QED BY <1>4, <1>5, <1>6, <1>9, <1>10, <1>11, <1>12 DEF StepInv

LEMMA PrefillKeeps == StepInv /\ Prefill => StepInv'
<1> SUFFICES ASSUME StepInv, Prefill PROVE StepInv'
  OBVIOUS
<1>1. /\ UNCHANGED <<contract, request, fed, mapping, remap, lastStep, untold, runtimeVars, inputs,
                     kv, missampled>>
      /\ replayed' = "prefill" /\ since' = IF since = "nothing" THEN "prefill" ELSE since
  BY DEF Prefill
<1>2. Active' = Active /\ \A s : Mapped(s)' = Mapped(s)
  BY <1>1 DEF Active, Mapped
<1>3. StepTypes' /\ BlocksApart' /\ PagesInOrder' /\ TokensMapped' /\ CacheHoldsRequests'
  BY <1>1, <1>2 DEF StepInv, StepTypes, BlocksApart, PagesInOrder, TokensMapped,
       CacheHoldsRequests, runtimeVars
<1>4. TracesFollow' /\ InputsFollow' /\ TableFollows' /\ SampledAsAsked'
  BY <1>1, <1>2 DEF StepInv, TracesFollow, InputsFollow, TableFollows, SampledAsAsked, Commands,
       runtimeVars
<1>5. SamplingFollows'
  BY <1>1, <1>2 DEF StepInv, SamplingFollows, Commands, runtimeVars
<1> QED BY <1>3, <1>4, <1>5 DEF StepInv

-----------------------------------------------------------------------------
(* The steps. *)

\* What a traced and an eager step have in common.
LEMMA StepDoneKeeps ==
    ASSUME StepInv, NEW c \in Calls, Called(c), Accepted(c), StepDone(c), NoteSubmitted(c),
           kv' = CacheAfter(StagedInputs(c)), missampled' = Missampled(c), UNCHANGED submissionFailed,
           DOMAIN inputs' = {"tokens", "positions", "table"}
    PROVE  /\ StepTypes' /\ BlocksApart' /\ PagesInOrder' /\ TokensMapped'
           /\ TableFollows' /\ SamplingFollows' /\ CacheHoldsRequests' /\ SampledAsAsked'
<1>1. /\ UNCHANGED <<contract, request, mapping>> /\ Active' = Active
      /\ fed' = [s \in Slots |-> IF s \in Active THEN fed[s] + 1 ELSE fed[s]]
      /\ remap' = Identity
      /\ lastStep' = IF c.traced THEN Path(c) ELSE "eager"
      /\ untold' = untold \ (IF c.sampled THEN {"table", "params", "members"} ELSE {"table"})
  BY DEF StepDone, Active
<1>2. \A s \in Active : /\ s \in Slots /\ fed[s] \in 0 .. MaxLength - 1
                        /\ fed'[s] = fed[s] + 1 /\ remap'[s] = s
  <2>1. \A s \in Active : s \in Slots /\ fed[s] \in 0 .. MaxLength /\ MaxLength \in Nat
    BY SizesAssumption DEF Active, StepInv, StepTypes
  <2>2. \A s \in Active : fed[s] < MaxLength
    BY DEF Called
  <2> QED BY <1>1, <2>1, <2>2 DEF Identity
<1>3. Path(c) \in DecodePaths
  <2>1. c.sampled => PreparedSampling(c).path \in SampledPaths
    BY PreparedAsAsked
  <2> QED BY <2>1 DEF Path, SampledPaths, DecodePaths
<1>4. StepTypes'
  <2>1. fed' \in [Slots -> 0 .. MaxLength]
    <3>1. \A s \in Slots : (IF s \in Active THEN fed[s] + 1 ELSE fed[s]) \in 0 .. MaxLength
      BY <1>2, SizesAssumption DEF StepInv, StepTypes
    <3> QED BY <1>1, <3>1
  <2>2. DOMAIN kv' = Blocks \X (0 .. BlockSize - 1)
    BY DEF CacheAfter, StepInv, StepTypes
  <2>3. remap' \in [Slots -> Slots]
    BY <1>1 DEF Identity
  <2> QED BY <1>1, <1>3, <2>1, <2>2, <2>3 DEF StepInv, StepTypes
<1>5. BlocksApart' /\ PagesInOrder'
  <2>1. \A s : Mapped(s)' = Mapped(s)
    BY <1>1 DEF Mapped
  <2> QED BY <1>1, <2>1 DEF StepInv, BlocksApart, PagesInOrder
<1>6. \A s \in Active : \A i \in 0 .. fed'[s] - 1 : i \in 0 .. fed[s]
  BY <1>2
<1>7. TokensMapped' /\ CacheHoldsRequests'
  <2>1. \A s \in Active : \A i \in 0 .. fed'[s] - 1 :
          /\ mapping[s][i \div BlockSize] # 0
          /\ kv'[<<mapping[s][i \div BlockSize], i % BlockSize>>] = [of |-> request[s], at |-> i]
    BY <1>6, CacheAfterStep
  <2>2. \A s \in Active : fed'[s] > 0
    BY <1>2
  <2> QED BY <1>1, <2>1, <2>2 DEF TokensMapped, CacheHoldsRequests
<1>8. TableFollows'
  <2> SUFFICES ASSUME Commands, NEW s \in Active PROVE previousPageTable'[s] = mapping[s]
    BY <1>1 DEF TableFollows, Commands
  <2>1. previousPageTable' = PageTable(c)
    BY DEF NoteSubmitted
  <2>2. CASE c.reloadInputs \/ c.reloadPageTable
    BY <2>1, <2>2 DEF PageTable
  <2>3. CASE ~(c.reloadInputs \/ c.reloadPageTable)
    <3>1. "table" \notin untold
      BY <2>3, CallTypes DEF Called, CommandContract
    <3>2. PageTable(c) = previousPageTable
      BY <2>3 DEF PageTable
    <3> QED BY <2>1, <3>1, <3>2 DEF StepInv, TableFollows
  <2> QED BY <2>2, <2>3
<1>9. SamplingFollows'
  <2> SUFFICES ASSUME Commands, residentSampling' # None
               PROVE  /\ DOMAIN residentSampling' = {"path", "values", "mask"}
                      /\ residentSampling'.path \in SampledPaths
                      /\ "params" \notin untold' =>
                           /\ \A s \in Active : residentSampling'.values[s] = Asks[request[s]]
                           /\ residentSampling'.path = "argmax" =>
                                \A s \in Active : Asks[request[s]] = Greedy
    BY <1>1, <1>2 DEF SamplingFollows, Commands
  <2>1. CASE c.sampled
    <3>1. residentSampling' = PreparedSampling(c)
      BY <2>1 DEF NoteSubmitted
    <3> QED BY <2>1, <3>1, PreparedAsAsked
  <2>2. CASE ~c.sampled
    <3>1. residentSampling' = RemappedResident /\ untold' = untold \ {"table"}
      BY <1>1, <2>2 DEF NoteSubmitted
    <3>2. residentSampling # None
      BY <3>1 DEF RemappedResident
    <3>3. /\ DOMAIN residentSampling' = {"path", "values", "mask"}
          /\ residentSampling'.path = residentSampling.path
          /\ \A s \in Active : residentSampling'.values[s] = residentSampling.values[remap[s]]
      <4>1. DOMAIN residentSampling = {"path", "values", "mask"}
        BY <3>2 DEF StepInv, SamplingFollows
      <4>2. CASE remap = Identity
        BY <1>2, <3>1, <4>1, <4>2 DEF RemappedResident, Identity
      <4>3. CASE remap # Identity
        BY <1>2, <3>1, <3>2, <4>3 DEF RemappedResident
      <4> QED BY <4>2, <4>3
    <3> QED BY <3>1, <3>2, <3>3 DEF StepInv, SamplingFollows
  <2> QED BY <2>1, <2>2, CallTypes
<1>10. SampledAsAsked'
  BY NoneMissampled DEF SampledAsAsked
<1> QED BY <1>4, <1>5, <1>7, <1>8, <1>9, <1>10

LEMMA TracedKeeps ==
    ASSUME StepInv, NEW c \in Calls, TracedStep(c)
    PROVE  StepInv'
<1>1. /\ c.traced /\ Called(c) /\ Accepted(c) /\ StepDone(c) /\ NoteSubmitted(c)
      /\ kv' = CacheAfter(StagedInputs(c)) /\ missampled' = Missampled(c)
      /\ UNCHANGED submissionFailed /\ replayed' = Path(c)
      /\ inputs' = IF c.sampled THEN FedBack(StagedInputs(c)) ELSE StagedInputs(c)
  BY DEF TracedStep
<1>2. PICK in : in = StagedInputs(c)
  OBVIOUS
<1>3. Follows(in, PageTable(c))
  BY <1>1, <1>2, StagedFollows
<1>4. DOMAIN inputs' = {"tokens", "positions", "table"}
  BY <1>1, <1>2, <1>3 DEF Follows, FedBack
<1>5. /\ StepTypes' /\ BlocksApart' /\ PagesInOrder' /\ TokensMapped'
      /\ TableFollows' /\ SamplingFollows' /\ CacheHoldsRequests' /\ SampledAsAsked'
  BY <1>1, <1>4, StepDoneKeeps
<1>6. /\ lastStep' = Path(c) /\ Active' = Active /\ request' = request
      /\ fed' = [s \in Slots |-> IF s \in Active THEN fed[s] + 1 ELSE fed[s]]
      /\ \A s \in Active : s \in Slots /\ fed[s] \in Nat /\ fed'[s] = fed[s] + 1
      /\ previousPageTable' = PageTable(c) /\ residentFeedback' = (c.traced /\ c.sampled)
  BY <1>1 DEF StepDone, NoteSubmitted, Active, StepInv, StepTypes
<1>7. c.sampled <=> Path(c) \in SampledPaths
  <2>1. c.sampled => PreparedSampling(c).path \in SampledPaths
    BY <1>1, PreparedAsAsked
  <2> QED BY <2>1 DEF Path, SampledPaths
<1>8. TracesFollow'
  BY <1>1, <1>6, <1>7, CallTypes DEF TracesFollow
<1>9. InputsFollow'
  <2> SUFFICES ASSUME c.sampled
               PROVE  /\ inputs'.positions = [s \in Slots |-> IF s \in Active THEN fed'[s] ELSE -1]
                      /\ \A s \in Active : inputs'.tokens[s] = [of |-> request[s], at |-> fed'[s]]
                      /\ inputs'.table = PageTable(c)
    BY <1>6, <1>7 DEF InputsFollow
  <2>1. Running(in) = Active
    BY <1>3, <1>6 DEF Running, Follows, Active
  <2> DEFINE tokens == [s \in Slots |-> IF s \in Active
                                        THEN [in.tokens[s] EXCEPT !.at = in.positions[s] + 1]
                                        ELSE in.tokens[s]]
             positions == [s \in Slots |-> IF s \in Active THEN in.positions[s] + 1
                                           ELSE in.positions[s]]
  <2>2. inputs' = [in EXCEPT !.tokens = tokens, !.positions = positions]
    BY <1>1, <1>2, <2>1 DEF FedBack
  <2> HIDE DEF tokens, positions
  <2>3. inputs'.tokens = tokens /\ inputs'.positions = positions /\ inputs'.table = PageTable(c)
    BY <1>3, <2>2 DEF Follows
  <2>4. positions = [s \in Slots |-> IF s \in Active THEN fed'[s] ELSE -1]
    BY <1>3, <1>6 DEF Follows, positions
  <2>5. \A s \in Active : tokens[s] = [of |-> request[s], at |-> fed'[s]]
    <3> SUFFICES ASSUME NEW s \in Active PROVE tokens[s] = [of |-> request[s], at |-> fed'[s]]
      OBVIOUS
    <3>1. in.tokens[s] = [of |-> request[s], at |-> fed[s]] /\ in.positions[s] = fed[s]
      BY <1>3, <1>6 DEF Follows
    <3>2. tokens[s] = [in.tokens[s] EXCEPT !.at = in.positions[s] + 1]
      BY <1>6 DEF tokens
    <3> QED BY <1>6, <3>1, <3>2
  <2> QED BY <2>3, <2>4, <2>5
<1> QED BY <1>5, <1>8, <1>9 DEF StepInv

LEMMA EagerKeeps ==
    ASSUME StepInv, NEW c \in Calls, EagerStep(c)
    PROVE  StepInv'
<1>1. /\ ~c.traced /\ Called(c) /\ Accepted(c) /\ StepDone(c) /\ NoteSubmitted(c)
      /\ kv' = CacheAfter(StagedInputs(c)) /\ missampled' = Missampled(c)
      /\ UNCHANGED <<submissionFailed, inputs>>
  BY DEF EagerStep
<1>2. /\ StepTypes' /\ BlocksApart' /\ PagesInOrder' /\ TokensMapped'
      /\ TableFollows' /\ SamplingFollows' /\ CacheHoldsRequests' /\ SampledAsAsked'
  BY <1>1, StepDoneKeeps DEF StepInv, StepTypes
<1>3. lastStep' = "eager" /\ ~residentFeedback'
  BY <1>1 DEF StepDone, NoteSubmitted
<1>4. TracesFollow' /\ InputsFollow'
  BY <1>3 DEF TracesFollow, InputsFollow, SampledPaths
<1> QED BY <1>2, <1>4 DEF StepInv

LEMMA RaisesKeeps ==
    ASSUME StepInv, NEW c \in Calls, StepRaises(c)
    PROVE  StepInv'
<1>1. /\ submissionFailed' = TRUE /\ inputs' = IF c.traced THEN UnsetInputs ELSE inputs
      /\ UNCHANGED <<schedulerVars, previousPageTable, residentSampling, residentFeedback,
                     seedActive, replayed, kpt, kv, missampled>>
  BY DEF StepRaises
<1>2. Active' = Active /\ \A s : Mapped(s)' = Mapped(s)
  BY <1>1 DEF Active, Mapped, schedulerVars
<1>3. StepTypes'
  BY <1>1 DEF StepInv, StepTypes, UnsetInputs, schedulerVars
<1>4. BlocksApart' /\ PagesInOrder' /\ TokensMapped' /\ CacheHoldsRequests'
  BY <1>1, <1>2 DEF StepInv, BlocksApart, PagesInOrder, TokensMapped, CacheHoldsRequests,
       schedulerVars
<1>5. TracesFollow' /\ InputsFollow' /\ TableFollows' /\ SampledAsAsked'
  BY <1>1, <1>2 DEF StepInv, TracesFollow, InputsFollow, TableFollows, SampledAsAsked, Commands,
       schedulerVars
<1>6. SamplingFollows'
  BY <1>1, <1>2 DEF StepInv, SamplingFollows, Commands, schedulerVars
<1> QED BY <1>3, <1>4, <1>5, <1>6 DEF StepInv

LEMMA NextKeeps == StepInv /\ [StepNext]_stepVars => StepInv'
<1> SUFFICES ASSUME StepInv, [StepNext]_stepVars PROVE StepInv'
  OBVIOUS
<1>1. CASE UNCHANGED stepVars
  <2>1. /\ UNCHANGED <<contract, request, fed, mapping, remap, since, lastStep, untold>>
        /\ UNCHANGED <<previousPageTable, residentSampling, residentFeedback, submissionFailed>>
        /\ UNCHANGED <<replayed, inputs, kv, missampled>>
    BY <1>1 DEF stepVars, schedulerVars, runtimeVars, deviceVars
  <2>2. Active' = Active /\ \A s : Mapped(s)' = Mapped(s)
    BY <2>1 DEF Active, Mapped
  <2>3. StepTypes' /\ BlocksApart' /\ PagesInOrder' /\ TokensMapped' /\ CacheHoldsRequests'
    BY <2>1, <2>2 DEF StepInv, StepTypes, BlocksApart, PagesInOrder, TokensMapped,
         CacheHoldsRequests
  <2>4. TracesFollow' /\ InputsFollow' /\ TableFollows' /\ SampledAsAsked'
    BY <2>1, <2>2 DEF StepInv, TracesFollow, InputsFollow, TableFollows, SampledAsAsked, Commands
  <2>5. SamplingFollows'
    BY <2>1, <2>2 DEF StepInv, SamplingFollows, Commands
  <2> QED BY <2>3, <2>4, <2>5 DEF StepInv
<1>2. ASSUME NEW s \in Slots, NEW q \in Requests, Admit(s, q) PROVE StepInv'
  BY <1>2, AdmitKeeps
<1>3. ASSUME NEW s \in Slots, Finish(s) \/ Grow(s) PROVE StepInv'
  BY <1>3, FinishKeeps, GrowKeeps
<1>4. ASSUME NEW s \in Slots, NEW t \in Slots, Move(s, t) PROVE StepInv'
  BY <1>4, MoveKeeps
<1>5. ASSUME NEW c \in Calls, TracedStep(c) \/ EagerStep(c) \/ StepRaises(c) PROVE StepInv'
  BY <1>5, TracedKeeps, EagerKeeps, RaisesKeeps
<1> QED BY <1>1, <1>2, <1>3, <1>4, <1>5, PrefillKeeps DEF StepNext

\* Whenever a step may run on what an earlier one left on the device, that is what it needs: the
\* tokens, positions and blocks of the requests in the batch, and their sampling parameters.
THEOREM StepInvariance == StepSpec => []StepInv
BY StartInv, NextKeeps, PTL DEF StepSpec

\* Every token of a request is in the cache at its own position of the request's own blocks,
\* whatever was copied to the device for the steps that wrote them (CacheHoldsRequests).
THEOREM CacheIsOwn == StepSpec => []CacheHoldsRequests
<1>1. StepInv => CacheHoldsRequests
  BY DEF StepInv
<1> QED BY <1>1, StepInvariance, PTL

\* No request is sampled with parameters that are not its own, although a call need not carry
\* them and the batch moves between calls (SampledAsAsked).
THEOREM SamplingIsOwn == StepSpec => []SampledAsAsked
<1>1. StepInv => SampledAsAsked
  BY DEF StepInv
<1> QED BY <1>1, StepInvariance, PTL

=============================================================================

--------------------------- MODULE WeightCacheProofs ---------------------------
(***************************************************************************)
(* Proofs about WeightCache, for any processes, hosts, jobs and bounds:    *)
(* what is published under the name of a weight is complete, and no        *)
(* process removes or keeps the temporary file of another.                 *)
(*                                                                         *)
(* Both rest on the name of a temporary file: a host gives no two live     *)
(* processes one id, so that a live process writes to a file of its own.   *)
(***************************************************************************)
EXTENDS WeightCache, TLAPS

Writing(p) == At(p, "write") \/ At(p, "publish")

\* Every process is a record, and so is every temporary file.
Typed ==
    /\ \A p \in Live : DOMAIN proc[p] = {"host", "pid", "job", "resolution", "at", "value"}
    /\ \A t \in DOMAIN temps : DOMAIN temps[t] = {"is", "whole"}

DistinctIds ==
    \A p, q \in Live : proc[p].host = proc[q].host /\ proc[p].pid = proc[q].pid => p = q

\* A process that writes has its file, and has written it before it publishes it.
WritersHaveFiles ==
    \A p \in Live :
        /\ Writing(p) => Temporary(p) \in DOMAIN temps
        /\ At(p, "publish") => temps[Temporary(p)].whole

\* The file that a process saw is there when it loads it.
SeenStays == \A p \in Live : At(p, "load") => File(p) \in DOMAIN files

CacheInv ==
    /\ Typed
    /\ DistinctIds
    /\ WritersHaveFiles
    /\ SeenStays
    /\ PublishedIsWhole
    /\ TemporariesAreOwned

-----------------------------------------------------------------------------
(* Steps that leave the identities of processes alone. *)

\* A process goes on in the call it makes.
LEMMA GoMoves ==
    ASSUME Typed, NEW p \in Live, NEW step, Go(p, step)
    PROVE  /\ Live' = Live
           /\ \A q \in Live : /\ DOMAIN proc'[q] = DOMAIN proc[q]
                              /\ proc'[q].host = proc[q].host
                              /\ proc'[q].pid = proc[q].pid
                              /\ proc'[q].value = proc[q].value
                              /\ proc'[q].job = proc[q].job
                              /\ proc'[q].resolution = proc[q].resolution
                              /\ File(q)' = File(q)
                              /\ Temporary(q)' = Temporary(q)
           /\ \A q \in Live \ {p} : proc'[q] = proc[q]
           /\ proc'[p].at = step
BY DEF Go, Typed, Live, File, Temporary

\* It holds a weight.
LEMMA HoldsMoves ==
    ASSUME Typed, NEW p \in Live, NEW value, Holds(p, value)
    PROVE  /\ Live' = Live
           /\ \A q \in Live : /\ DOMAIN proc'[q] = DOMAIN proc[q]
                              /\ proc'[q].host = proc[q].host
                              /\ proc'[q].pid = proc[q].pid
                              /\ proc'[q].job = proc[q].job
                              /\ proc'[q].resolution = proc[q].resolution
                              /\ File(q)' = File(q)
                              /\ Temporary(q)' = Temporary(q)
           /\ \A q \in Live \ {p} : proc'[q] = proc[q]
           /\ proc'[p].at = "done" /\ proc'[p].value = {value}
BY DEF Holds, Typed, Live, File, Temporary

\* A live process has its temporary file for itself.
LEMMA OwnTemporary ==
    ASSUME DistinctIds, NEW p \in Live, NEW q \in Live, Temporary(p) = Temporary(q)
    PROVE  p = q
BY DEF DistinctIds, Temporary

\* It goes on without writing: to look, to convert, to upload, or to load what it saw.
LEMMA Quiet ==
    ASSUME CacheInv, NEW p \in Live, NEW step, Go(p, step), ~Writing(p),
           step \in {"look", "load", "convert", "upload"},
           step = "load" => File(p) \in DOMAIN files,
           UNCHANGED <<files, temps, stale>>
    PROVE  CacheInv'
<1> USE DEF CacheInv
<1>1. Typed' /\ DistinctIds'
  BY GoMoves DEF Typed, DistinctIds
<1>2. WritersHaveFiles' /\ SeenStays'
  BY GoMoves DEF WritersHaveFiles, SeenStays, Writing, At
<1>3. PublishedIsWhole'
  BY GoMoves DEF PublishedIsWhole
<1>4. TemporariesAreOwned'
  BY GoMoves DEF TemporariesAreOwned, Writing, At
<1> QED BY <1>1, <1>2, <1>3, <1>4

\* It holds a weight that is whole.
LEMMA HoldsWhole ==
    ASSUME CacheInv, NEW p \in Live, NEW value, Holds(p, value), ~Writing(p), value.whole,
           UNCHANGED <<files, temps, stale>>
    PROVE  CacheInv'
<1> USE DEF CacheInv
<1>1. Typed' /\ DistinctIds'
  BY HoldsMoves DEF Typed, DistinctIds
<1>2. WritersHaveFiles' /\ SeenStays'
  BY HoldsMoves DEF WritersHaveFiles, SeenStays, Writing, At
<1>3. PublishedIsWhole'
  <2>1. \A q \in Live \ {p} : proc'[q] = proc[q]
    BY HoldsMoves
  <2>2. proc'[p].value = {value} /\ Live' = Live
    BY HoldsMoves
  <2> QED BY <2>1, <2>2 DEF PublishedIsWhole
<1>4. TemporariesAreOwned'
  BY HoldsMoves DEF TemporariesAreOwned, Writing, At
<1> QED BY <1>1, <1>2, <1>3, <1>4

\* A process that does not write goes away.
LEMMA Leaves ==
    ASSUME CacheInv, NEW p \in Live, proc' = Restrict(proc, Live \ {p}),
           UNCHANGED <<files, temps>>,
           Writing(p) => stale' = stale \cup {Temporary(p)},
           ~Writing(p) => stale' = stale
    PROVE  CacheInv'
<1> USE DEF CacheInv
<1>1. /\ Live' = Live \ {p}
      /\ \A q \in Live \ {p} : /\ proc'[q] = proc[q]
                               /\ File(q)' = File(q)
                               /\ Temporary(q)' = Temporary(q)
  BY DEF Restrict, Live, File, Temporary
<1>2. Typed' /\ DistinctIds'
  BY <1>1 DEF Typed, DistinctIds
<1>3. WritersHaveFiles' /\ SeenStays'
  BY <1>1 DEF WritersHaveFiles, SeenStays, Writing, At
<1>4. PublishedIsWhole'
  BY <1>1 DEF PublishedIsWhole
<1>5. TemporariesAreOwned'
  BY <1>1 DEF TemporariesAreOwned, Writing, At
<1> QED BY <1>2, <1>3, <1>4, <1>5

-----------------------------------------------------------------------------
(* The inductive invariant. *)

LEMMA InitHolds == CacheInit => CacheInv
<1> SUFFICES ASSUME CacheInit PROVE CacheInv
  OBVIOUS
<1>1. DOMAIN proc = {} /\ DOMAIN files = {} /\ DOMAIN temps = {}
  BY DEF CacheInit
<1> QED BY <1>1 DEF CacheInv, Typed, DistinctIds, WritersHaveFiles, SeenStays, PublishedIsWhole,
                    TemporariesAreOwned, Live

\* A process that starts has an id that no live process of its host has.
LEMMA LaunchKeeps ==
    ASSUME CacheInv, NEW p, NEW host, NEW pid, NEW job, Launch(p, host, pid, job)
    PROVE  CacheInv'
<1> USE DEF CacheInv
<1>1. PICK resolution \in Resolutions(job, host) :
        proc' = Put(proc, p, [host |-> host, pid |-> pid, job |-> job,
                              resolution |-> resolution, at |-> "look", value |-> {}])
  BY DEF Launch
<1>2. /\ Live' = Live \cup {p} /\ p \notin Live
      /\ \A q \in Live : /\ proc'[q] = proc[q]
                         /\ File(q)' = File(q)
                         /\ Temporary(q)' = Temporary(q)
      /\ proc'[p] = [host |-> host, pid |-> pid, job |-> job,
                     resolution |-> resolution, at |-> "look", value |-> {}]
  BY <1>1 DEF Put, Live, File, Temporary, Launch
<1>3. UNCHANGED <<files, temps, stale>>
  BY DEF Launch
<1>4. Typed'
  BY <1>2, <1>3 DEF Typed
<1>5. DistinctIds'
  <2>1. \A q \in Live : proc[q].host # host \/ proc[q].pid # pid
    BY DEF Launch
  <2>2. proc'[p].host = host /\ proc'[p].pid = pid
    BY <1>2
  <2> QED BY <1>2, <2>1, <2>2 DEF DistinctIds
<1>6. WritersHaveFiles' /\ SeenStays'
  BY <1>2, <1>3 DEF WritersHaveFiles, SeenStays, Writing, At
<1>7. PublishedIsWhole'
  BY <1>2, <1>3 DEF PublishedIsWhole
<1>8. TemporariesAreOwned'
  BY <1>2, <1>3 DEF TemporariesAreOwned, Writing, At
<1> QED BY <1>4, <1>5, <1>6, <1>7, <1>8

\* The file that a process opens is no live process's, whoever left it.
LEMMA OpenKeeps ==
    ASSUME CacheInv, NEW p, Open(p)
    PROVE  CacheInv'
<1> USE DEF CacheInv
<1>1. p \in Live /\ Go(p, "write") /\ UNCHANGED files /\ ~Writing(p)
  BY DEF Open, At, Writing
<1>2. /\ DOMAIN temps' = DOMAIN temps \cup {Temporary(p)}
      /\ \A t \in DOMAIN temps \ {Temporary(p)} : temps'[t] = temps[t]
      /\ temps'[Temporary(p)] = [is |-> Content(proc[p].job), whole |-> FALSE]
      /\ stale' = stale \ {Temporary(p)}
  BY DEF Open, Put
<1>3. Typed' /\ DistinctIds'
  BY <1>1, <1>2, GoMoves DEF Typed, DistinctIds
<1>4. WritersHaveFiles'
  <2> SUFFICES ASSUME NEW q \in Live, Writing(q)'
               PROVE  /\ Temporary(q) \in DOMAIN temps'
                      /\ At(q, "publish")' => temps'[Temporary(q)].whole
    BY <1>1, GoMoves DEF WritersHaveFiles, Writing, At
  <2>1. CASE q = p
    BY <2>1, <1>1, <1>2, GoMoves DEF At
  <2>2. CASE q # p
    <3>1. proc'[q] = proc[q] /\ Temporary(q) # Temporary(p)
      BY <2>2, <1>1, GoMoves, OwnTemporary
    <3> QED BY <3>1, <1>2 DEF WritersHaveFiles, Writing, At
  <2> QED BY <2>1, <2>2
<1>5. SeenStays'
  BY <1>1, GoMoves DEF SeenStays, At
<1>6. PublishedIsWhole'
  BY <1>1, GoMoves DEF PublishedIsWhole
<1>7. TemporariesAreOwned'
  BY <1>1, <1>2, GoMoves DEF TemporariesAreOwned, Writing, At
<1> QED BY <1>3, <1>4, <1>5, <1>6, <1>7

\* Nobody else writes the file that a process finishes.
LEMMA WriteKeeps ==
    ASSUME CacheInv, NEW p, Write(p)
    PROVE  CacheInv'
<1> USE DEF CacheInv
<1>1. p \in Live /\ Go(p, "publish") /\ UNCHANGED <<files, stale>> /\ At(p, "write")
  BY DEF Write, At
<1>2. /\ DOMAIN temps' = DOMAIN temps
      /\ \A t \in DOMAIN temps \ {Temporary(p)} : temps'[t] = temps[t]
      /\ DOMAIN temps'[Temporary(p)] = {"is", "whole"}
      /\ temps'[Temporary(p)].whole
  <2>1. Temporary(p) \in DOMAIN temps /\ DOMAIN temps[Temporary(p)] = {"is", "whole"}
    BY <1>1 DEF WritersHaveFiles, Writing, Typed
  <2>2. \A q \in Live \ {p} : At(q, "write") => Temporary(q) # Temporary(p)
    BY <1>1, OwnTemporary
  <2> QED BY <2>1, <2>2 DEF Write
<1>3. Typed' /\ DistinctIds'
  BY <1>1, <1>2, GoMoves DEF Typed, DistinctIds
<1>4. WritersHaveFiles'
  <2> SUFFICES ASSUME NEW q \in Live, Writing(q)'
               PROVE  /\ Temporary(q) \in DOMAIN temps'
                      /\ At(q, "publish")' => temps'[Temporary(q)].whole
    BY <1>1, GoMoves DEF WritersHaveFiles, Writing, At
  <2>1. CASE q = p
    BY <2>1, <1>1, <1>2 DEF WritersHaveFiles, Writing
  <2>2. CASE q # p
    <3>1. proc'[q] = proc[q] /\ Temporary(q) # Temporary(p)
      BY <2>2, <1>1, GoMoves, OwnTemporary
    <3> QED BY <3>1, <1>2 DEF WritersHaveFiles, Writing, At
  <2> QED BY <2>1, <2>2
<1>5. SeenStays'
  BY <1>1, GoMoves DEF SeenStays, At
<1>6. PublishedIsWhole'
  BY <1>1, GoMoves DEF PublishedIsWhole
<1>7. TemporariesAreOwned'
  BY <1>1, <1>2, GoMoves DEF TemporariesAreOwned, Writing, At
<1> QED BY <1>3, <1>4, <1>5, <1>6, <1>7

\* A process that ends to write, with its file gone, leaves those of the others.
LEMMA StopsWriting ==
    ASSUME CacheInv, NEW p \in Live, NEW step \in {"look", "upload"}, Go(p, step), Writing(p),
           temps' = Without(Temporary(p)), stale' = stale,
           DOMAIN files \subseteq DOMAIN files'
    PROVE  /\ Typed' /\ DistinctIds' /\ WritersHaveFiles' /\ SeenStays'
           /\ TemporariesAreOwned'
<1> USE DEF CacheInv
<1>1. /\ DOMAIN temps' = DOMAIN temps \ {Temporary(p)}
      /\ \A t \in DOMAIN temps \ {Temporary(p)} : temps'[t] = temps[t]
  BY DEF Without, Restrict
<1>2. Typed' /\ DistinctIds'
  BY <1>1, GoMoves DEF Typed, DistinctIds
<1>3. WritersHaveFiles'
  <2> SUFFICES ASSUME NEW q \in Live, Writing(q)'
               PROVE  /\ Temporary(q) \in DOMAIN temps'
                      /\ At(q, "publish")' => temps'[Temporary(q)].whole
    BY GoMoves DEF WritersHaveFiles, Writing, At
  <2>1. q # p
    BY GoMoves DEF Writing, At
  <2>2. proc'[q] = proc[q] /\ Temporary(q) # Temporary(p)
    BY <2>1, GoMoves, OwnTemporary
  <2> QED BY <2>2, <1>1 DEF WritersHaveFiles, Writing, At
<1>4. SeenStays'
  BY GoMoves DEF SeenStays, At
<1>5. TemporariesAreOwned'
  BY <1>1, GoMoves DEF TemporariesAreOwned, Writing, At
<1> QED BY <1>2, <1>3, <1>4, <1>5

LEMMA PublishKeeps ==
    ASSUME CacheInv, NEW p, Publish(p)
    PROVE  CacheInv'
<1> USE DEF CacheInv
<1>1. p \in Live /\ Go(p, "upload") /\ At(p, "publish") /\ Writing(p)
  BY DEF Publish, At, Writing
<1>2. /\ DOMAIN files' = DOMAIN files \cup {File(p)}
      /\ \A f \in DOMAIN files : f # File(p) => files'[f] = files[f]
      /\ files'[File(p)] = temps[Temporary(p)]
  BY DEF Publish, Put
<1>3. temps[Temporary(p)].whole
  BY <1>1 DEF WritersHaveFiles
<1>4. PublishedIsWhole'
  BY <1>1, <1>2, <1>3, GoMoves DEF PublishedIsWhole
<1>5. temps' = Without(Temporary(p)) /\ stale' = stale
  BY DEF Publish
<1>6. Typed' /\ DistinctIds' /\ WritersHaveFiles' /\ SeenStays' /\ TemporariesAreOwned'
  BY <1>1, <1>2, <1>5, StopsWriting
<1> QED BY <1>4, <1>6

LEMMA DumpRaisesKeeps ==
    ASSUME CacheInv, NEW p, DumpRaises(p)
    PROVE  CacheInv'
<1>1. p \in Live /\ Go(p, "look") /\ UNCHANGED <<files, stale>>
  BY DEF DumpRaises, At, Raises
<1>2. CASE At(p, "convert") /\ UNCHANGED temps
  BY <1>1, <1>2, Quiet DEF Writing, At
<1>3. CASE Writing(p) /\ temps' = Without(Temporary(p))
  <2>1. PublishedIsWhole'
    BY <1>1, GoMoves DEF PublishedIsWhole, CacheInv
  <2>2. Typed' /\ DistinctIds' /\ WritersHaveFiles' /\ SeenStays' /\ TemporariesAreOwned'
    BY <1>1, <1>3, StopsWriting
  <2> QED BY <2>1, <2>2 DEF CacheInv
<1> QED BY <1>2, <1>3 DEF DumpRaises, Writing

LEMMA LoadKeeps ==
    ASSUME CacheInv, NEW p, Load(p)
    PROVE  CacheInv'
<1>1. p \in Live /\ At(p, "load") /\ ~Writing(p) /\ UNCHANGED <<files, temps, stale>>
  BY DEF Load, At, Writing, fileVars
<1>2. CASE Holds(p, files[File(p)])
  <2>1. files[File(p)].whole
    BY <1>1 DEF CacheInv, SeenStays, PublishedIsWhole
  <2> QED BY <1>1, <1>2, <2>1, HoldsWhole
<1>3. CASE Raises(p)
  BY <1>1, <1>3, Quiet DEF Raises
<1> QED BY <1>2, <1>3 DEF Load

LEMMA UploadKeeps ==
    ASSUME CacheInv, NEW p, Upload(p)
    PROVE  CacheInv'
<1>1. p \in Live /\ ~Writing(p) /\ UNCHANGED <<files, temps, stale>>
  BY DEF Upload, At, Writing, fileVars
<1>2. CASE Holds(p, [is |-> Content(proc[p].job), whole |-> TRUE])
  BY <1>1, <1>2, HoldsWhole
<1>3. CASE Raises(p)
  BY <1>1, <1>3, Quiet DEF Raises
<1> QED BY <1>2, <1>3 DEF Upload

\* A process looks, and the file is there or it converts the weight.
LEMMA LookKeeps ==
    ASSUME CacheInv, NEW p, Look(p)
    PROVE  CacheInv'
<1>1. p \in Live /\ ~Writing(p) /\ UNCHANGED <<files, temps, stale>>
  BY DEF Look, At, Writing, fileVars
<1>2. CASE File(p) \in DOMAIN files
  <2>1. Go(p, "load")
    BY <1>2 DEF Look
  <2> QED BY <1>1, <1>2, <2>1, Quiet
<1>3. CASE File(p) \notin DOMAIN files
  <2>1. Go(p, "convert")
    BY <1>3 DEF Look
  <2> QED BY <1>1, <2>1, Quiet
<1> QED BY <1>2, <1>3

LEMMA NextKeeps == CacheInv /\ [CacheNext]_cacheVars => CacheInv'
<1> SUFFICES ASSUME CacheInv, [CacheNext]_cacheVars PROVE CacheInv'
  OBVIOUS
<1>1. ASSUME NEW p \in Processes, NEW host \in Hosts, NEW pid \in Pids, NEW job \in Jobs,
             Launch(p, host, pid, job)
      PROVE  CacheInv'
  BY <1>1, LaunchKeeps
<1>2. ASSUME NEW p \in Processes, Look(p) \/ Load(p) \/ Upload(p)
      PROVE  CacheInv'
  BY <1>2, LookKeeps, LoadKeeps, UploadKeeps
<1>3. ASSUME NEW p \in Processes, Open(p) \/ Write(p) \/ Publish(p) \/ DumpRaises(p)
      PROVE  CacheInv'
  BY <1>3, OpenKeeps, WriteKeeps, PublishKeeps, DumpRaisesKeeps
<1>4. ASSUME NEW p \in Processes, DumpRefused(p)
      PROVE  CacheInv'
  <2>1. p \in Live /\ Go(p, "look") /\ ~Writing(p) /\ UNCHANGED <<files, temps, stale>>
    BY <1>4 DEF DumpRefused, At, Writing, fileVars
  <2> QED BY <2>1, Quiet
<1>5. ASSUME NEW p \in Processes, Crash(p)
      PROVE  CacheInv'
  <2>1. /\ p \in Live /\ proc' = Restrict(proc, Live \ {p}) /\ UNCHANGED <<files, temps>>
        /\ Writing(p) => stale' = stale \cup {Temporary(p)}
        /\ ~Writing(p) => stale' = stale
    BY <1>5 DEF Crash, Writing
  <2> QED BY <2>1, Leaves
<1>6. ASSUME NEW p \in Processes, Exit(p)
      PROVE  CacheInv'
  <2>1. /\ p \in Live /\ proc' = Restrict(proc, Live \ {p}) /\ UNCHANGED <<files, temps, stale>>
        /\ ~Writing(p)
    BY <1>6 DEF Exit, Writing, At, fileVars
  <2> QED BY <2>1, Leaves
<1>7. CASE UNCHANGED cacheVars
  BY <1>7 DEF cacheVars, fileVars, CacheInv, Typed, DistinctIds, WritersHaveFiles, SeenStays,
              PublishedIsWhole, TemporariesAreOwned, Writing, At, Live, File, Temporary
<1> QED BY <1>1, <1>2, <1>3, <1>4, <1>5, <1>6, <1>7 DEF CacheNext

\* The inductive invariant behind the two results.
THEOREM CacheInvariance == CacheSpec => []CacheInv
BY InitHolds, NextKeeps, PTL DEF CacheSpec

\* Whatever processes raise or crash in the middle of, a file that has the name of a weight is
\* complete, and so is what a process loads.
THEOREM PublishedWhole == CacheSpec => []PublishedIsWhole
BY CacheInvariance, PTL DEF CacheInv

\* A temporary file is being written by a live process, or its writer crashed.
THEOREM TemporariesOwned == CacheSpec => []TemporariesAreOwned
BY CacheInvariance, PTL DEF CacheInv

-----------------------------------------------------------------------------
(***************************************************************************)
(* Names: what the name of a file says about the weight in it.  The        *)
(* directory of a cache that nobody overrides holds the identity of the    *)
(* model and the name of a file its precision, so that two processes meet  *)
(* in one file only if they agree on both.                                 *)
(***************************************************************************)

\* Where a job may keep its weights.
Places(job) == {Resolved(job, Directory(job)), Resolved(job, Fallback(job))}

\* A weight that some job published under the name f.
Published(f, weight) ==
    \E job \in Jobs : \E place \in Places(job) :
        f = <<place.dir, Fingerprint(job)>> /\ weight = [is |-> Content(job), whole |-> TRUE]

JobsArePlaced ==
    \A p \in Live : proc[p].job \in Jobs /\ proc[p].resolution \in Places(proc[p].job)

\* What a process writes is the weight of its own job.
WritersWriteOwn ==
    \A p \in Live :
        /\ At(p, "write") => temps[Temporary(p)] = [is |-> Content(proc[p].job), whole |-> FALSE]
        /\ At(p, "publish") => temps[Temporary(p)] = [is |-> Content(proc[p].job), whole |-> TRUE]

FilesArePublished == \A f \in DOMAIN files : Published(f, files[f])
ValuesArePublished == \A p \in Live : \A value \in proc[p].value : Published(File(p), value)

NameInv ==
    /\ JobsArePlaced
    /\ WritersWriteOwn
    /\ FilesArePublished
    /\ ValuesArePublished

-----------------------------------------------------------------------------
(* Names. *)

\* A directory with an identity is the default directory of a job, with the job's identity.
LEMMA PlaceOfIdentity ==
    ASSUME NEW job, NEW place \in Places(job), place.dir.identity # {}
    PROVE  place.dir.identity = {Identity(job)}
<1>1. CASE place = Resolved(job, Directory(job))
  <2>1. place.dir = Directory(job)
    BY <1>1 DEF Resolved
  <2> QED BY <2>1 DEF Directory
<1>2. CASE place = Resolved(job, Fallback(job))
  <2>1. place.dir = Fallback(job)
    BY <1>2 DEF Resolved
  <2> QED BY <2>1 DEF Fallback
<1> QED BY <1>1, <1>2 DEF Places

\* One that nobody is warned about has one.
LEMMA QuietPlace ==
    ASSUME NEW job, NEW place \in Places(job), ~place.warned
    PROVE  place.dir.identity = {Identity(job)}
<1>1. CASE place = Resolved(job, Directory(job))
  <2>1. place.dir = Directory(job) /\ ~Explicit(job)
    BY <1>1 DEF Resolved
  <2> QED BY <2>1 DEF Directory
<1>2. CASE place = Resolved(job, Fallback(job))
  BY <1>2 DEF Resolved, Fallback
<1> QED BY <1>1, <1>2 DEF Places

\* Jobs that meet in a file of such a directory agree.
LEMMA MeetingJobs ==
    ASSUME NEW j \in Jobs, NEW k \in Jobs, NEW here \in Places(j), NEW there \in Places(k),
           here.dir = there.dir, Fingerprint(j) = Fingerprint(k), here.dir.identity # {}
    PROVE  /\ j.id = k.id /\ j.topology = k.topology /\ j.dtype = k.dtype
           /\ j.pinned => j.revision = k.revision
<1>1. Identity(j) = Identity(k)
  BY PlaceOfIdentity
<1>2. j.dtype = k.dtype
  BY DEF Fingerprint
<1> QED BY <1>1, <1>2, RevisionAssumption DEF Identity

-----------------------------------------------------------------------------
(* The invariant. *)

LEMMA NamesInit == CacheInit => NameInv
<1> SUFFICES ASSUME CacheInit PROVE NameInv
  OBVIOUS
<1>1. DOMAIN proc = {} /\ DOMAIN files = {} /\ DOMAIN temps = {}
  BY DEF CacheInit
<1> QED BY <1>1 DEF NameInv, JobsArePlaced, WritersWriteOwn, FilesArePublished, ValuesArePublished, Live

\* Steps that neither write nor publish keep the names.
LEMMA NamesQuiet ==
    ASSUME CacheInv, NameInv, NEW p \in Live, NEW step, Go(p, step), step \notin {"write", "publish"},
           UNCHANGED files,
           \A q \in Live \ {p} : Writing(q) => temps'[Temporary(q)] = temps[Temporary(q)]
    PROVE  NameInv'
<1> USE DEF NameInv, CacheInv
<1>1. JobsArePlaced'
  BY GoMoves DEF JobsArePlaced
<1>2. WritersWriteOwn'
  BY GoMoves DEF WritersWriteOwn, Writing, At
<1>3. FilesArePublished'
  BY DEF FilesArePublished
<1>4. ValuesArePublished'
  BY GoMoves DEF ValuesArePublished
<1> QED BY <1>1, <1>2, <1>3, <1>4

LEMMA NamesHold ==
    ASSUME CacheInv, NameInv, NEW p \in Live, NEW value, Holds(p, value),
           Published(File(p), value), UNCHANGED <<files, temps>>
    PROVE  NameInv'
<1> USE DEF NameInv, CacheInv
<1>1. JobsArePlaced'
  BY HoldsMoves DEF JobsArePlaced
<1>2. WritersWriteOwn'
  BY HoldsMoves DEF WritersWriteOwn, At
<1>3. FilesArePublished'
  BY DEF FilesArePublished
<1>4. ValuesArePublished'
  <2>1. \A q \in Live \ {p} : proc'[q] = proc[q] /\ File(q)' = File(q)
    BY HoldsMoves
  <2>2. Live' = Live /\ proc'[p].value = {value} /\ File(p)' = File(p)
    BY HoldsMoves
  <2> QED BY <2>1, <2>2 DEF ValuesArePublished
<1> QED BY <1>1, <1>2, <1>3, <1>4

LEMMA NamesLeave ==
    ASSUME NameInv, NEW p \in Live, proc' = Restrict(proc, Live \ {p}), UNCHANGED <<files, temps>>
    PROVE  NameInv'
<1>1. /\ Live' = Live \ {p}
      /\ \A q \in Live \ {p} : /\ proc'[q] = proc[q]
                               /\ File(q)' = File(q)
                               /\ Temporary(q)' = Temporary(q)
  BY DEF Restrict, Live, File, Temporary
<1> QED BY <1>1 DEF NameInv, JobsArePlaced, WritersWriteOwn, FilesArePublished, ValuesArePublished, At

LEMMA NamesLaunch ==
    ASSUME NameInv, NEW p, NEW host, NEW pid, NEW job \in Jobs, Launch(p, host, pid, job)
    PROVE  NameInv'
<1>1. PICK resolution \in Resolutions(job, host) :
        proc' = Put(proc, p, [host |-> host, pid |-> pid, job |-> job,
                              resolution |-> resolution, at |-> "look", value |-> {}])
  BY DEF Launch
<1>2. /\ Live' = Live \cup {p} /\ p \notin Live
      /\ \A q \in Live : /\ proc'[q] = proc[q]
                         /\ File(q)' = File(q)
                         /\ Temporary(q)' = Temporary(q)
      /\ proc'[p] = [host |-> host, pid |-> pid, job |-> job,
                     resolution |-> resolution, at |-> "look", value |-> {}]
  BY <1>1 DEF Put, Live, File, Temporary, Launch
<1>3. resolution \in Places(job)
  BY DEF Resolutions, Places
<1>4. UNCHANGED <<files, temps>>
  BY DEF Launch
<1>5. JobsArePlaced'
  BY <1>2, <1>3 DEF NameInv, JobsArePlaced
<1>6. WritersWriteOwn' /\ FilesArePublished' /\ ValuesArePublished'
  BY <1>2, <1>4 DEF NameInv, WritersWriteOwn, FilesArePublished, ValuesArePublished, At
<1> QED BY <1>5, <1>6 DEF NameInv

LEMMA NamesOpen ==
    ASSUME CacheInv, NameInv, NEW p, Open(p)
    PROVE  NameInv'
<1> USE DEF NameInv, CacheInv
<1>1. p \in Live /\ Go(p, "write") /\ UNCHANGED files
  BY DEF Open, At
<1>2. /\ \A t \in DOMAIN temps \ {Temporary(p)} : temps'[t] = temps[t]
      /\ temps'[Temporary(p)] = [is |-> Content(proc[p].job), whole |-> FALSE]
  BY DEF Open, Put
<1>3. JobsArePlaced' /\ FilesArePublished' /\ ValuesArePublished'
  BY <1>1, GoMoves DEF JobsArePlaced, FilesArePublished, ValuesArePublished
<1>4. WritersWriteOwn'
  <2>1. \A q \in Live \ {p} : Writing(q) => temps'[Temporary(q)] = temps[Temporary(q)]
    <3> SUFFICES ASSUME NEW q \in Live \ {p}, Writing(q)
                 PROVE  temps'[Temporary(q)] = temps[Temporary(q)]
      OBVIOUS
    <3>1. Temporary(q) \in DOMAIN temps
      BY DEF WritersHaveFiles
    <3>2. Temporary(q) # Temporary(p)
      BY <1>1, OwnTemporary
    <3> QED BY <1>2, <3>1, <3>2
  <2>2. /\ Live' = Live /\ Temporary(p)' = Temporary(p) /\ proc'[p].job = proc[p].job
        /\ proc'[p].at = "write"
    BY <1>1, GoMoves
  <2>3. \A q \in Live \ {p} : proc'[q] = proc[q] /\ Temporary(q)' = Temporary(q)
    BY <1>1, GoMoves
  <2> SUFFICES ASSUME NEW q \in Live
               PROVE  /\ At(q, "write")' => temps'[Temporary(q)'] =
                            [is |-> Content(proc'[q].job), whole |-> FALSE]
                      /\ At(q, "publish")' => temps'[Temporary(q)'] =
                            [is |-> Content(proc'[q].job), whole |-> TRUE]
    BY <2>2 DEF WritersWriteOwn, Content
  <2>4. CASE q = p
    BY <1>2, <2>2, <2>4 DEF At
  <2>5. CASE q # p
    BY <2>1, <2>2, <2>3, <2>5 DEF WritersWriteOwn, Writing, At
  <2> QED BY <2>4, <2>5
<1> QED BY <1>3, <1>4

LEMMA Finished ==
    ASSUME NEW content, NEW begun, NEW done,
           begun = [is |-> content, whole |-> FALSE], done = [begun EXCEPT !.whole = TRUE]
    PROVE  done = [is |-> content, whole |-> TRUE]
OBVIOUS

LEMMA NamesWrite ==
    ASSUME CacheInv, NameInv, NEW p, Write(p)
    PROVE  NameInv'
<1> USE DEF NameInv, CacheInv
<1>1. p \in Live /\ Go(p, "publish") /\ UNCHANGED files /\ At(p, "write")
  BY DEF Write, At
<1>2. Temporary(p) \in DOMAIN temps
  BY <1>1 DEF WritersHaveFiles, Writing
<1>3. temps'[Temporary(p)] = [is |-> Content(proc[p].job), whole |-> TRUE]
  <2>1. (\A q \in Live \ {p} : At(q, "write") => Temporary(q) # Temporary(p)) = TRUE
    BY <1>1, OwnTemporary
  <2>2. temps'[Temporary(p)] = [temps[Temporary(p)] EXCEPT !.whole = TRUE]
    BY <1>2, <2>1 DEF Write
  <2>3. temps[Temporary(p)] = [is |-> Content(proc[p].job), whole |-> FALSE]
    BY <1>1 DEF WritersWriteOwn
  <2> QED BY <2>2, <2>3, Finished
<1>4. JobsArePlaced' /\ FilesArePublished' /\ ValuesArePublished'
  BY <1>1, GoMoves DEF JobsArePlaced, FilesArePublished, ValuesArePublished
<1>5. WritersWriteOwn'
  <2>1. \A q \in Live \ {p} : Writing(q) => temps'[Temporary(q)] = temps[Temporary(q)]
    <3> SUFFICES ASSUME NEW q \in Live \ {p}, Writing(q)
                 PROVE  temps'[Temporary(q)] = temps[Temporary(q)]
      OBVIOUS
    <3>1. Temporary(q) \in DOMAIN temps
      BY DEF WritersHaveFiles
    <3>2. Temporary(q) # Temporary(p)
      BY <1>1, OwnTemporary
    <3> QED BY <3>1, <3>2 DEF Write
  <2>2. /\ Live' = Live /\ Temporary(p)' = Temporary(p) /\ proc'[p].job = proc[p].job
        /\ proc'[p].at = "publish"
    BY <1>1, GoMoves
  <2>3. \A q \in Live \ {p} : proc'[q] = proc[q] /\ Temporary(q)' = Temporary(q)
    BY <1>1, GoMoves
  <2> SUFFICES ASSUME NEW q \in Live
               PROVE  /\ At(q, "write")' => temps'[Temporary(q)'] =
                            [is |-> Content(proc'[q].job), whole |-> FALSE]
                      /\ At(q, "publish")' => temps'[Temporary(q)'] =
                            [is |-> Content(proc'[q].job), whole |-> TRUE]
    BY <2>2 DEF WritersWriteOwn, Content
  <2>4. CASE q = p
    BY <1>3, <2>2, <2>4 DEF At
  <2>5. CASE q # p
    BY <2>1, <2>2, <2>3, <2>5 DEF WritersWriteOwn, Writing, At
  <2> QED BY <2>4, <2>5
<1> QED BY <1>4, <1>5

\* What a process publishes has the name of its own job.
LEMMA PublishesOwn ==
    ASSUME NameInv, NEW p, Publish(p)
    PROVE  /\ Published(File(p), temps[Temporary(p)])
           /\ p \in Live /\ Go(p, "upload")
           /\ DOMAIN files' = DOMAIN files \cup {File(p)}
           /\ \A f \in DOMAIN files : f # File(p) => files'[f] = files[f]
           /\ files'[File(p)] = temps[Temporary(p)]
<1>1. p \in Live /\ Go(p, "upload") /\ At(p, "publish")
  BY DEF Publish, At
<1>2. Published(File(p), temps[Temporary(p)])
  BY <1>1 DEF NameInv, JobsArePlaced, WritersWriteOwn, Published, File
<1> QED BY <1>1, <1>2 DEF Publish, Put

LEMMA NamesPublish ==
    ASSUME CacheInv, NameInv, NEW p, Publish(p)
    PROVE  NameInv'
<1> USE DEF NameInv, CacheInv
<1>1. p \in Live /\ Go(p, "upload")
  BY PublishesOwn
<1>2. \A q \in Live \ {p} : Writing(q) => temps'[Temporary(q)] = temps[Temporary(q)]
  BY <1>1, OwnTemporary DEF Publish, Without, Restrict, WritersHaveFiles
<1>3. FilesArePublished'
  BY PublishesOwn DEF FilesArePublished
<1>4. JobsArePlaced' /\ ValuesArePublished'
  BY <1>1, GoMoves DEF JobsArePlaced, ValuesArePublished
<1>5. WritersWriteOwn'
  BY <1>1, <1>2, GoMoves DEF WritersWriteOwn, Writing, At
<1> QED BY <1>3, <1>4, <1>5

LEMMA NamesDumpRaises ==
    ASSUME CacheInv, NameInv, NEW p, DumpRaises(p)
    PROVE  NameInv'
<1>1. p \in Live /\ Go(p, "look") /\ UNCHANGED files
  BY DEF DumpRaises, At, Raises
<1>2. \A q \in Live \ {p} : Writing(q) => temps'[Temporary(q)] = temps[Temporary(q)]
  <2>1. CASE UNCHANGED temps
    BY <2>1
  <2>2. CASE temps' = Without(Temporary(p))
    BY <1>1, <2>2, OwnTemporary DEF Without, Restrict, CacheInv, WritersHaveFiles
  <2> QED BY <2>1, <2>2 DEF DumpRaises
<1> QED BY <1>1, <1>2, NamesQuiet

LEMMA NamesLook ==
    ASSUME CacheInv, NameInv, NEW p, Look(p) \/ DumpRefused(p)
    PROVE  NameInv'
<1>1. p \in Live /\ UNCHANGED <<files, temps>>
  BY DEF Look, DumpRefused, At, fileVars
<1>2. PICK step \in {"load", "convert", "look"} : Go(p, step)
  BY DEF Look, DumpRefused
<1> QED BY <1>1, <1>2, NamesQuiet

LEMMA NamesLoad ==
    ASSUME CacheInv, NameInv, NEW p, Load(p)
    PROVE  NameInv'
<1>1. p \in Live /\ At(p, "load") /\ UNCHANGED <<files, temps>>
  BY DEF Load, At, fileVars
<1>2. CASE Holds(p, files[File(p)])
  <2>1. Published(File(p), files[File(p)])
    BY <1>1 DEF CacheInv, SeenStays, NameInv, FilesArePublished
  <2> QED BY <1>1, <1>2, <2>1, NamesHold
<1>3. CASE Raises(p)
  BY <1>1, <1>3, NamesQuiet DEF Raises
<1> QED BY <1>2, <1>3 DEF Load

LEMMA NamesUpload ==
    ASSUME CacheInv, NameInv, NEW p, Upload(p)
    PROVE  NameInv'
<1>1. p \in Live /\ UNCHANGED <<files, temps>>
  BY DEF Upload, At, fileVars
<1>2. CASE Holds(p, [is |-> Content(proc[p].job), whole |-> TRUE])
  <2>1. Published(File(p), [is |-> Content(proc[p].job), whole |-> TRUE])
    BY <1>1 DEF NameInv, JobsArePlaced, Published, File
  <2> QED BY <1>1, <1>2, <2>1, NamesHold
<1>3. CASE Raises(p)
  BY <1>1, <1>3, NamesQuiet DEF Raises
<1> QED BY <1>2, <1>3 DEF Upload

LEMMA NamesNext == CacheInv /\ NameInv /\ [CacheNext]_cacheVars => NameInv'
<1> SUFFICES ASSUME CacheInv, NameInv, [CacheNext]_cacheVars PROVE NameInv'
  OBVIOUS
<1>1. ASSUME NEW p \in Processes, NEW host \in Hosts, NEW pid \in Pids, NEW job \in Jobs,
             Launch(p, host, pid, job)
      PROVE  NameInv'
  BY <1>1, NamesLaunch
<1>2. ASSUME NEW p \in Processes, Look(p) \/ DumpRefused(p) \/ Load(p) \/ Upload(p)
      PROVE  NameInv'
  BY <1>2, NamesLook, NamesLoad, NamesUpload
<1>3. ASSUME NEW p \in Processes, Open(p) \/ Write(p) \/ Publish(p) \/ DumpRaises(p)
      PROVE  NameInv'
  BY <1>3, NamesOpen, NamesWrite, NamesPublish, NamesDumpRaises
<1>4. ASSUME NEW p \in Processes, Crash(p) \/ Exit(p)
      PROVE  NameInv'
  <2>1. p \in Live /\ proc' = Restrict(proc, Live \ {p}) /\ UNCHANGED <<files, temps>>
    BY <1>4 DEF Crash, Exit, At, fileVars
  <2> QED BY <2>1, NamesLeave
<1>5. CASE UNCHANGED cacheVars
  BY <1>5 DEF cacheVars, fileVars, NameInv, JobsArePlaced, WritersWriteOwn, FilesArePublished,
              ValuesArePublished, At, Live, File, Temporary
<1> QED BY <1>1, <1>2, <1>3, <1>4, <1>5 DEF CacheNext

\* Every file, and every weight in a process, is the one its name stands for.
THEOREM NamesInvariance == CacheSpec => [](CacheInv /\ NameInv)
BY CacheInvariance, NamesInit, NamesNext, PTL DEF CacheSpec

-----------------------------------------------------------------------------
(* What follows. *)

LEMMA NamesWarn == NameInv => ForeignIsWarned
<1> SUFFICES ASSUME NameInv, NEW p \in Live, NEW value \in proc[p].value
             PROVE  LET own == Content(proc[p].job) IN
                    /\ value.is.dtype = own.dtype
                    /\ \/ proc[p].resolution.warned
                       \/ value.is = own
                       \/ ~proc[p].job.pinned /\ [value.is EXCEPT !.revision = own.revision] = own
  BY DEF ForeignIsWarned
<1> DEFINE job == proc[p].job
           place == proc[p].resolution
<1>1. job \in Jobs /\ place \in Places(job)
  BY DEF NameInv, JobsArePlaced
<1>2. PICK other \in Jobs : \E there \in Places(other) :
        /\ File(p) = <<there.dir, Fingerprint(other)>>
        /\ value = [is |-> Content(other), whole |-> TRUE]
  BY DEF NameInv, ValuesArePublished, Published
<1>3. PICK there \in Places(other) :
        /\ File(p) = <<there.dir, Fingerprint(other)>>
        /\ value = [is |-> Content(other), whole |-> TRUE]
  BY <1>2
<1>4. place.dir = there.dir /\ Fingerprint(job) = Fingerprint(other)
  BY <1>3 DEF File
<1>5. value.is = Content(other)
  BY <1>3
<1>6. value.is.dtype = Content(job).dtype
  BY <1>4, <1>5 DEF Fingerprint, Content
<1>7. CASE ~place.warned
  <2>1. place.dir.identity # {}
    BY <1>1, <1>7, QuietPlace
  <2>2. /\ job.id = other.id /\ job.topology = other.topology /\ job.dtype = other.dtype
        /\ job.pinned => job.revision = other.revision
    BY <1>1, <1>4, <2>1, MeetingJobs
  <2>3. CASE job.pinned
    BY <1>5, <2>2, <2>3 DEF Content
  <2>4. CASE ~job.pinned
    BY <1>5, <2>2, <2>4 DEF Content
  <2> QED BY <1>6, <2>3, <2>4
<1> QED BY <1>6, <1>7

\* A process never holds the weight of another model, topology or precision, nor that of another
\* revision it has pinned, unless the resolution of its cache warned.
THEOREM WarnedOfForeign == CacheSpec => []ForeignIsWarned
BY NamesInvariance, NamesWarn, PTL

\* The step of PublishedIsStable.
StableStep ==
    \A f \in DOMAIN files : \A identity \in f[1].identity :
        identity.revision # "unversioned" => files'[f] = files[f]

LEMMA OnlyPublish ==
    ASSUME [CacheNext]_cacheVars
    PROVE  UNCHANGED files \/ \E p \in Processes : Publish(p)
BY DEF CacheNext, cacheVars, fileVars, Launch, Look, Load, Open, Write, DumpRaises, DumpRefused,
       Upload, Crash, Exit

LEMMA NamesStable == NameInv /\ [CacheNext]_cacheVars => [StableStep]_files
<1> SUFFICES ASSUME NameInv, NEW p, Publish(p),
                    NEW f \in DOMAIN files, NEW identity \in f[1].identity,
                    identity.revision # "unversioned"
             PROVE  files'[f] = files[f]
  BY OnlyPublish DEF StableStep
<1>1. CASE f # File(p)
  BY <1>1, PublishesOwn
<1>2. CASE f = File(p)
  <2>1. PICK j \in Jobs : \E here \in Places(j) :
          f = <<here.dir, Fingerprint(j)>> /\ files[f] = [is |-> Content(j), whole |-> TRUE]
    BY DEF NameInv, FilesArePublished, Published
  <2>2. PICK here \in Places(j) :
          f = <<here.dir, Fingerprint(j)>> /\ files[f] = [is |-> Content(j), whole |-> TRUE]
    BY <2>1
  <2>3. PICK k \in Jobs : \E there \in Places(k) :
          f = <<there.dir, Fingerprint(k)>> /\ files'[f] = [is |-> Content(k), whole |-> TRUE]
    BY <1>2, PublishesOwn DEF Published
  <2>4. PICK there \in Places(k) :
          f = <<there.dir, Fingerprint(k)>> /\ files'[f] = [is |-> Content(k), whole |-> TRUE]
    BY <2>3
  <2>5. here.dir = there.dir /\ Fingerprint(j) = Fingerprint(k) /\ f[1] = here.dir
    BY <2>2, <2>4
  <2>6. here.dir.identity # {} /\ identity = Identity(j)
    BY <2>5, PlaceOfIdentity
  <2>7. j.pinned
    BY <2>6 DEF Identity
  <2>8. Content(j) = Content(k)
    BY <2>5, <2>6, <2>7, MeetingJobs DEF Content
  <2> QED BY <2>2, <2>4, <2>8
<1> QED BY <1>1, <1>2

\* In a namespaced directory no file that a pinned process may have loaded changes.
THEOREM StableFiles == CacheSpec => PublishedIsStable
<1>1. NameInv /\ [CacheNext]_cacheVars => [StableStep]_files
  BY NamesStable
<1>2. PublishedIsStable <=> [][StableStep]_files
  BY DEF PublishedIsStable, StableStep
<1> QED BY <1>1, <1>2, NamesInvariance, PTL DEF CacheSpec

=============================================================================

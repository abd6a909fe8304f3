------------------------------ MODULE WeightCache ------------------------------
(***************************************************************************)
(* The cache of converted weights: where a process keeps it                *)
(* (cache_environment.py, resolve_model_cache) and how several processes,  *)
(* on hosts that share the file system, fill it at the same time           *)
(* (modules/lazy_weight.py, get_device_weight).                            *)
(*                                                                         *)
(* One weight is modelled: the files of different weights have different   *)
(* names.  The weights of two checkpoints of one model have the same name  *)
(* and the same shape.  Processes start, raise, crash at any step and are  *)
(* started again; a host gives no two live processes one id, and reuses    *)
(* the ids of dead ones.  A file that is published is never removed.       *)
(***************************************************************************)
EXTENDS Integers, FiniteSets, Functions, SequencesExt

CONSTANTS
    Processes, Hosts, Pids,
    Jobs,           \* what processes are asked to load, and with which settings
    ReadOnly,       \* <<host, root>>: the directories under root cannot be changed from host
    MaxLaunches, MaxFaults, MaxCrashes      \* bounds

ASSUME BoundsAssumption == {MaxLaunches, MaxFaults, MaxCrashes} \subseteq Nat
ASSUME ReadOnlyAssumption == \A r \in ReadOnly : r[1] \in Hosts
\* No revision of the hub has the name that unpinned ones get.
ASSUME RevisionAssumption == \A job \in Jobs : job.revision # "unversioned"

VARIABLES
    proc,       \* the state of each live process
    dirs,       \* directories that exist
    files,      \* published files: what each holds
    temps,      \* temporary files
    stale,      \* ghost: temporary files whose writer crashed
    launches, faults, crashes

fileVars == <<dirs, files, temps, stale>>
cacheVars == <<proc, fileVars, launches, faults, crashes>>

\* The function f with v at k.
Put(f, k, v) == [x \in DOMAIN f \cup {k} |-> IF x = k THEN v ELSE f[x]]

-----------------------------------------------------------------------------
(* Where the cache is.  A job is [id, revision, pinned, topology, dtype, configured, policy]:     *)
(* revision is what the hub serves, which the caller may have pinned; configured are the          *)
(* locations that are set, as an argument or in the environment.                                  *)

Precedence == <<"cache_dir", "TT_CACHE_PATH", "TT_TRANSFORMERS_CACHE", "XDG_CACHE_HOME", "user_cache">>
Source(job) ==
    Precedence[CHOOSE i \in DOMAIN Precedence :
        /\ Precedence[i] \in job.configured \cup {"user_cache"}
        /\ \A j \in 1 .. i - 1 : Precedence[j] \notin job.configured]

\* The part of CacheIdentity that differs between the processes of one installation.
Identity(job) ==
    [id |-> job.id, revision |-> IF job.pinned THEN job.revision ELSE "unversioned",
     topology |-> job.topology]

Explicit(job) == Source(job) \in {"cache_dir", "TT_CACHE_PATH"}
Directory(job) ==
    IF Explicit(job)
    THEN [root |-> Source(job), model |-> <<>>, identity |-> {},
          topology |-> IF Source(job) = "TT_CACHE_PATH" /\ job.policy.append
                       THEN {job.topology} ELSE {}]
    ELSE [root |-> Source(job), model |-> job.id, identity |-> {Identity(job)},
          topology |-> {job.topology}]

\* Mutant: only the overrides the caller asked for are reported.
ResolvedQuietly(job, dir) == [dir |-> dir, warned |-> Explicit(job) /\ dir.root # "fallback"]

Resolved(job, dir) == [dir |-> dir, warned |-> Explicit(job) \/ dir.root = "fallback"]

Creates(job) ==
    job.policy.create = "always" \/ (job.policy.create = "explicit_only" /\ Explicit(job))

\* mkdir accepts a directory that exists, also on a file system that cannot be written.
Denied(host, dir) == <<host, dir.root>> \in ReadOnly /\ dir \notin dirs

Fallback(job) ==
    [root |-> "fallback", model |-> <<Last(job.id)>>, identity |-> {}, topology |-> {job.topology}]

\* resolve_model_cache: the resolution, or none when it raises.
Resolutions(job, host) ==
    LET dir == Directory(job) IN
    IF ~(Creates(job) /\ Denied(host, dir)) THEN {Resolved(job, dir)}
    ELSE IF job.policy.fallback THEN {Resolved(job, Fallback(job))}
    ELSE {}

-----------------------------------------------------------------------------

\* What the weight is, and what tells its files apart in one directory.
Content(job) == [id |-> job.id, revision |-> job.revision, topology |-> job.topology, dtype |-> job.dtype]
FingerprintOfShape(job) == "any"    \* Mutant: it leaves the precision out.
Fingerprint(job) == job.dtype

Live == DOMAIN proc
File(p) == <<proc[p].resolution.dir, Fingerprint(proc[p].job)>>

\* Mutant: process ids are taken to be unique.
TemporaryOfPid(p) == [of |-> File(p), host |-> "any", pid |-> proc[p].pid]

Temporary(p) == [of |-> File(p), host |-> proc[p].host, pid |-> proc[p].pid]

At(p, step) == p \in Live /\ proc[p].at = step
Go(p, step) == proc' = [proc EXCEPT ![p].at = step]
Holds(p, value) == proc' = [proc EXCEPT ![p].at = "done", ![p].value = {value}]

\* The call raises; the caller may call again, and nothing of the weight is on the device.
Raises(p) == faults < MaxFaults /\ faults' = faults + 1 /\ Go(p, "look")
Writable(p) == <<proc[p].host, proc[p].resolution.dir.root>> \notin ReadOnly

Launch(p, host, pid, job) ==
    /\ p \notin Live
    /\ launches < MaxLaunches
    /\ \A q \in Live : <<proc[q].host, proc[q].pid>> # <<host, pid>>
    /\ \E resolution \in Resolutions(job, host) :
        /\ proc' = Put(proc, p, [host |-> host, pid |-> pid, job |-> job,
                                 resolution |-> resolution, at |-> "look", value |-> {}])
        /\ dirs' = IF Creates(job) THEN dirs \cup {resolution.dir} ELSE dirs
    /\ launches' = launches + 1
    /\ UNCHANGED <<files, temps, stale, faults, crashes>>

\* cache_file_name.exists(); a file that appears later is not noticed.
Look(p) ==
    /\ At(p, "look")
    /\ Go(p, IF File(p) \in DOMAIN files THEN "load" ELSE "convert")
    /\ UNCHANGED <<fileVars, launches, faults, crashes>>

Load(p) ==
    /\ At(p, "load")
    /\ \/ Holds(p, files[File(p)]) /\ UNCHANGED faults
       \/ Raises(p)
    /\ UNCHANGED <<fileVars, launches, crashes>>

\* dump_tensor_flatbuffer opens the temporary file, and truncates one that a dead process left.
Open(p) ==
    /\ At(p, "convert")
    /\ Writable(p)
    /\ dirs' = dirs \cup {proc[p].resolution.dir}
    /\ temps' = Put(temps, Temporary(p), [is |-> Content(proc[p].job), whole |-> FALSE])
    /\ stale' = stale \ {Temporary(p)}
    /\ Go(p, "write")
    /\ UNCHANGED <<files, launches, faults, crashes>>

\* Two processes that write one file spoil it for the one that finishes first.
Write(p) ==
    /\ At(p, "write")
    /\ temps' = [t \in DOMAIN temps |->
                    IF t = Temporary(p)
                    THEN [temps[t] EXCEPT !.whole =
                            \A q \in Live \ {p} : At(q, "write") => Temporary(q) # t]
                    ELSE temps[t]]
    /\ Go(p, "publish")
    /\ UNCHANGED <<dirs, files, stale, launches, faults, crashes>>

Without(t) == Restrict(temps, DOMAIN temps \ {t})

\* os.replace.
Publish(p) ==
    /\ At(p, "publish")
    /\ Temporary(p) \in DOMAIN temps
    /\ files' = Put(files, File(p), temps[Temporary(p)])
    /\ temps' = Without(Temporary(p))
    /\ Go(p, "upload")
    /\ UNCHANGED <<dirs, stale, launches, faults, crashes>>

\* The directory cannot be made, the file not written or not renamed, or the writer left none.
DumpRaises(p) ==
    /\ \/ At(p, "convert") /\ Writable(p) /\ UNCHANGED temps
       \/ (At(p, "write") \/ At(p, "publish")) /\ temps' = Without(Temporary(p))
    /\ Raises(p)
    /\ UNCHANGED <<dirs, files, stale, launches, crashes>>

\* The permission fallback looks at the root only: here every attempt raises.
DumpRefused(p) ==
    /\ At(p, "convert")
    /\ ~Writable(p)
    /\ Go(p, "look")
    /\ UNCHANGED <<fileVars, launches, faults, crashes>>

\* tensor.to(device); what was published stays when it raises.
Upload(p) ==
    /\ At(p, "upload")
    /\ \/ Holds(p, [is |-> Content(proc[p].job), whole |-> TRUE]) /\ UNCHANGED faults
       \/ Raises(p)
    /\ UNCHANGED <<fileVars, launches, crashes>>

Crash(p) ==
    /\ p \in Live
    /\ crashes < MaxCrashes
    /\ crashes' = crashes + 1
    /\ stale' = IF At(p, "write") \/ At(p, "publish") THEN stale \cup {Temporary(p)} ELSE stale
    /\ proc' = Restrict(proc, Live \ {p})
    /\ UNCHANGED <<dirs, files, temps, launches, faults>>

Exit(p) ==
    /\ At(p, "look") \/ At(p, "done")
    /\ proc' = Restrict(proc, Live \ {p})
    /\ UNCHANGED <<fileVars, launches, faults, crashes>>

CacheInit ==
    /\ dirs = {} /\ proc = <<>> /\ files = <<>> /\ temps = <<>> /\ stale = {}
    /\ launches = 0 /\ faults = 0 /\ crashes = 0

CacheNext ==
    \E p \in Processes :
        \/ \E host \in Hosts, pid \in Pids, job \in Jobs : Launch(p, host, pid, job)
        \/ Look(p) \/ Load(p)
        \/ Open(p) \/ Write(p) \/ Publish(p) \/ DumpRaises(p) \/ DumpRefused(p) \/ Upload(p)
        \/ Crash(p) \/ Exit(p)

CacheSpec == CacheInit /\ [][CacheNext]_cacheVars

-----------------------------------------------------------------------------

(* Whatever processes of whatever hosts raise or crash in the middle of, a file that has the name *)
(* of a weight is complete, and so is what any process loads (lazy_weight.py,                     *)
(* _dump_cache_file_atomically).                                                                  *)
PublishedIsWhole ==
    /\ \A f \in DOMAIN files : files[f].whole
    /\ \A p \in Live : \A value \in proc[p].value : value.whole

(* A process never holds the weight of another model, topology or precision, nor that of another  *)
(* revision of a checkpoint it has pinned, unless the resolution of its cache warned that the path *)
(* is not namespaced by the identity; the precision is its own in any case (cache_environment.py,  *)
(* release_warning; lazy_weight.py, _get_fingerprint).                                             *)
ForeignIsWarned ==
    \A p \in Live : \A value \in proc[p].value :
        LET own == Content(proc[p].job) IN
        /\ value.is.dtype = own.dtype
        /\ \/ proc[p].resolution.warned
           \/ value.is = own
           \/ ~proc[p].job.pinned /\ [value.is EXCEPT !.revision = own.revision] = own

(* In a namespaced directory the processes that miss at the same time publish the same weight: no *)
(* file a pinned process may have loaded changes (os.replace after a check that is stale by then). *)
PublishedIsStable ==
    [][\A f \in DOMAIN files : \A identity \in f[1].identity :
        identity.revision # "unversioned" => files'[f] = files[f]]_files

(* A temporary file is being written by a live process, or its writer crashed: a call that raises *)
(* removes it, and never that of another process (lazy_weight.py, the except of the dump).        *)
TemporariesAreOwned ==
    DOMAIN temps \ stale \subseteq {Temporary(p) : p \in {p \in Live : At(p, "write") \/ At(p, "publish")}}

=============================================================================

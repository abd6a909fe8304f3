------------------------------ MODULE OutputPool ------------------------------
(***************************************************************************)
(* Concurrent reads of the lanes of a group, and the group's cleanup       *)
(* (llm_runtime/lane_group.py, LaneGroupExecutor._run_guarded,             *)
(* _run_concurrently and _cleanup_impl).                                   *)
(*                                                                         *)
(* Callers' threads submit one read per lane to the output pool, which has *)
(* one worker per lane, and wait for them; a call that raises cleans the   *)
(* group up before it raises.  A step is one section under a lock, or one  *)
(* wait outside the pending lock.  What a read or a cleanup of a lane does *)
(* is the subject of OutputReader and ModelExecutor: here it takes time    *)
(* and may raise.                                                          *)
(***************************************************************************)
EXTENDS Naturals, Sequences, FiniteSets

CONSTANTS
    Threads, NoThread,  \* callers' threads
    NLanes,             \* lanes, and workers of the pool
    MaxFaults,          \* bound: interrupted waits, raising reads and cleanup actions
    MaxSubmitFaults,    \* bound: submissions to the pool that raise
    MaxCleanups         \* bound: calls of cleanup() by callers

ASSUME NLanesAssumption == NLanes \in Nat \ {0}
ASSUME NoThreadAssumption == NoThread \notin Threads
ASSUME FaultBounds == MaxFaults \in Nat /\ MaxSubmitFaults \in Nat /\ MaxCleanups \in Nat

LaneIds == 1 .. NLanes

\* The futures of a call: one for each lane. A thread makes one call at a time.
Futures == Threads \X LaneIds
Own(t) == {t} \X LaneIds

VARIABLES
    groupTerminal,  \* _terminal
    cleanedUp,      \* _cleaned_up
    lanesDone,      \* lanes whose _lane_cleanup_complete is set
    poolDone,       \* _pool_cleanup_complete
    cleaner,        \* the holder of _cleanup_lock
    pending,        \* _pending_futures
    queue,          \* futures no worker has taken yet
    running,        \* futures in a worker
    failed,         \* finished futures whose read raised and nobody collected
    thread,         \* what each thread does in the group
    faults, submitFaults, cleanups

groupState == <<groupTerminal, cleanedUp, lanesDone, poolDone, cleaner>>
poolState == <<queue, running, failed>>
poolVars == <<groupState, poolState, pending, thread, faults, submitFaults, cleanups>>

\* at: where the thread is; drained, lane: what its cleanup waits for, or cleans up;
\* failures: something of its cleanup raised.
Idle == [at |-> "idle", drained |-> {}, lane |-> 0, failures |-> FALSE]

Steps == {"idle", "submit", "wait", "acquire", "snapshot", "drain", "lanes", "lane", "shutdown", "release"}

Unfinished == running \cup {queue[i] : i \in DOMAIN queue}

PoolInit ==
    /\ groupTerminal = FALSE /\ cleanedUp = FALSE /\ poolDone = FALSE
    /\ lanesDone = {}
    /\ cleaner = NoThread
    /\ pending = {}
    /\ queue = <<>> /\ running = {} /\ failed = {}
    /\ thread = [t \in Threads |-> Idle]
    /\ faults = 0 /\ submitFaults = 0 /\ cleanups = 0


-----------------------------------------------------------------------------

At(t, step) == thread[t].at = step
Set(t, state) == thread' = [thread EXCEPT ![t] = state]
Go(t, step) == thread' = [thread EXCEPT ![t].at = step]

\* read_decode_output and process_decode_output_host, on a group that is active.
CallLanes(t) ==
    /\ At(t, "idle")
    /\ ~groupTerminal
    /\ Go(t, "submit")
    /\ UNCHANGED <<groupState, poolState, pending, faults, submitFaults, cleanups>>

\* The operation raises before it has submitted anything.
OperationRaises(t) ==
    /\ At(t, "submit")
    /\ Go(t, "acquire")
    /\ UNCHANGED <<groupState, poolState, pending, faults, submitFaults, cleanups>>

\* Mutant: the group is not checked again under the pending lock.
SubmitUnchecked(t) ==
    /\ At(t, "submit")
    /\ queue' = queue \o [l \in LaneIds |-> <<t, l>>]
    /\ pending' = pending \cup Own(t)
    /\ Go(t, "wait")
    /\ UNCHANGED <<groupState, running, failed, faults, submitFaults, cleanups>>

\* One read for each lane, under the pending lock.
Submit(t) ==
    /\ At(t, "submit")
    /\ ~groupTerminal
    /\ queue' = queue \o [l \in LaneIds |-> <<t, l>>]
    /\ pending' = pending \cup Own(t)
    /\ Go(t, "wait")
    /\ UNCHANGED <<groupState, running, failed, faults, submitFaults, cleanups>>

\* The submission for a lane raises: those before it are in the pool, and not pending.
SubmitRaises(t, l) ==
    /\ At(t, "submit")
    /\ ~groupTerminal
    /\ submitFaults < MaxSubmitFaults
    /\ submitFaults' = submitFaults + 1
    /\ queue' = queue \o [k \in 1 .. l - 1 |-> <<t, k>>]
    /\ Go(t, "acquire")
    /\ UNCHANGED <<groupState, running, failed, pending, faults, cleanups>>

\* A worker takes the next read of the queue, and finishes it.
StartRead ==
    /\ queue # <<>>
    /\ Cardinality(running) < NLanes
    /\ running' = running \cup {Head(queue)}
    /\ queue' = Tail(queue)
    /\ UNCHANGED <<groupState, failed, pending, thread, faults, submitFaults, cleanups>>

EndRead(f) ==
    /\ f \in running
    /\ running' = running \ {f}
    /\ UNCHANGED <<groupState, queue, failed, pending, thread, faults, submitFaults, cleanups>>

ReadRaises(f) ==
    /\ f \in running
    /\ faults < MaxFaults
    /\ faults' = faults + 1
    /\ running' = running \ {f}
    /\ failed' = failed \cup {f}
    /\ UNCHANGED <<groupState, queue, pending, thread, submitFaults, cleanups>>

\* The results of the call; it raises when a read did, or when it cannot aggregate them.
Collect(t) ==
    /\ At(t, "wait")
    /\ Own(t) \cap Unfinished = {}
    /\ pending' = pending \ Own(t)
    /\ failed' = failed \ Own(t)
    /\ \/ Own(t) \cap failed = {} /\ Set(t, Idle)
       \/ Go(t, "acquire")
    /\ UNCHANGED <<groupState, queue, running, faults, submitFaults, cleanups>>

\* A signal interrupts the wait for the reads.
WaitInterrupted(t) ==
    /\ At(t, "wait")
    /\ faults < MaxFaults
    /\ faults' = faults + 1
    /\ Go(t, "acquire")
    /\ UNCHANGED <<groupState, poolState, pending, submitFaults, cleanups>>

Cleanup(t) ==
    /\ At(t, "idle")
    /\ cleanups < MaxCleanups
    /\ cleanups' = cleanups + 1
    /\ Go(t, "acquire")
    /\ UNCHANGED <<groupState, poolState, pending, faults, submitFaults>>

\* Mutant: the early return keeps the lock.
AcquireKept(t) ==
    /\ At(t, "acquire")
    /\ cleaner = NoThread
    /\ cleaner' = t
    /\ groupTerminal' = TRUE
    /\ Go(t, IF cleanedUp THEN "idle" ELSE "snapshot")
    /\ UNCHANGED <<cleanedUp, lanesDone, poolDone, poolState, pending, faults, submitFaults, cleanups>>

\* A pass starts, under the cleanup lock; a group that is cleaned up has nothing to do.
Acquire(t) ==
    /\ At(t, "acquire")
    /\ cleaner = NoThread
    /\ cleaner' = t
    /\ groupTerminal' = TRUE
    /\ Go(t, IF cleanedUp THEN "release" ELSE "snapshot")
    /\ UNCHANGED <<cleanedUp, lanesDone, poolDone, poolState, pending, faults, submitFaults, cleanups>>

\* The pending reads of the moment, under the pending lock.
Snapshot(t) ==
    /\ At(t, "snapshot")
    /\ thread' = [thread EXCEPT ![t].at = "drain", ![t].drained = pending]
    /\ UNCHANGED <<groupState, poolState, pending, faults, submitFaults, cleanups>>

\* They have finished; what they raised is a failure of this pass.
Drained(t) ==
    /\ At(t, "drain")
    /\ thread[t].drained \cap Unfinished = {}
    /\ pending' = pending \ thread[t].drained
    /\ thread' = [thread EXCEPT ![t].at = "lanes", ![t].drained = {},
                                ![t].failures = thread[t].drained \cap failed # {}]
    /\ UNCHANGED <<groupState, poolState, faults, submitFaults, cleanups>>

\* A signal interrupts this wait: the pass is given up and the lock released.
DrainInterrupted(t) ==
    /\ At(t, "drain")
    /\ faults < MaxFaults
    /\ faults' = faults + 1
    /\ cleaner' = NoThread
    /\ Set(t, Idle)
    /\ UNCHANGED <<groupTerminal, cleanedUp, lanesDone, poolDone, poolState, pending, submitFaults, cleanups>>

\* The lanes that are not cleaned up yet, in order.
StartLane(t, l) ==
    /\ At(t, "lanes")
    /\ l \in LaneIds \ lanesDone
    /\ thread[t].lane < l
    /\ \A k \in LaneIds \ lanesDone : k < l => k <= thread[t].lane
    /\ thread' = [thread EXCEPT ![t].at = "lane", ![t].lane = l]
    /\ UNCHANGED <<groupState, poolState, pending, faults, submitFaults, cleanups>>

EndLane(t) ==
    /\ At(t, "lane")
    /\ lanesDone' = lanesDone \cup {thread[t].lane}
    /\ Go(t, "lanes")
    /\ UNCHANGED <<groupTerminal, cleanedUp, poolDone, cleaner, poolState, pending, faults, submitFaults, cleanups>>

\* It raises: the next lane is cleaned up all the same.
LaneRaises(t) ==
    /\ At(t, "lane")
    /\ faults < MaxFaults
    /\ faults' = faults + 1
    /\ thread' = [thread EXCEPT ![t].at = "lanes", ![t].failures = TRUE]
    /\ UNCHANGED <<groupState, poolState, pending, submitFaults, cleanups>>

\* Then the pool, which waits for its workers.
StartShutdown(t) ==
    /\ At(t, "lanes")
    /\ \A l \in LaneIds \ lanesDone : l <= thread[t].lane
    /\ Go(t, IF poolDone THEN "release" ELSE "shutdown")
    /\ UNCHANGED <<groupState, poolState, pending, faults, submitFaults, cleanups>>

Shutdown(t) ==
    /\ At(t, "shutdown")
    /\ Unfinished = {}
    /\ poolDone' = TRUE
    /\ Go(t, "release")
    /\ UNCHANGED <<groupTerminal, cleanedUp, lanesDone, cleaner, poolState, pending, faults, submitFaults, cleanups>>

ShutdownRaises(t) ==
    /\ At(t, "shutdown")
    /\ faults < MaxFaults
    /\ faults' = faults + 1
    /\ thread' = [thread EXCEPT ![t].at = "release", ![t].failures = TRUE]
    /\ UNCHANGED <<groupState, poolState, pending, submitFaults, cleanups>>

\* The pass ends; its failures are raised, or attached to what the call raises.
Release(t) ==
    /\ At(t, "release")
    /\ cleanedUp' = (lanesDone = LaneIds /\ poolDone)
    /\ cleaner' = NoThread
    /\ Set(t, Idle)
    /\ UNCHANGED <<groupTerminal, lanesDone, poolDone, poolState, pending, faults, submitFaults, cleanups>>

\* The rest of a call a thread is in.
Continue(t) ==
    \/ OperationRaises(t)
    \/ Submit(t)
    \/ \E l \in LaneIds : SubmitRaises(t, l)
    \/ Collect(t)
    \/ WaitInterrupted(t)
    \/ Acquire(t)
    \/ Snapshot(t)
    \/ Drained(t)
    \/ DrainInterrupted(t)
    \/ \E l \in LaneIds : StartLane(t, l)
    \/ EndLane(t)
    \/ LaneRaises(t)
    \/ StartShutdown(t)
    \/ Shutdown(t)
    \/ ShutdownRaises(t)
    \/ Release(t)

FinishRead(f) == EndRead(f) \/ ReadRaises(f)

PoolNext ==
    \/ StartRead
    \/ \E f \in Futures : FinishRead(f)
    \/ \E t \in Threads : CallLanes(t) \/ Cleanup(t) \/ Continue(t)

\* No thread stops in the middle of a call, and a read that was started ends.
PoolSpec ==
    /\ PoolInit
    /\ [][PoolNext]_poolVars
    /\ WF_poolVars(StartRead)
    /\ \A f \in Futures : WF_poolVars(FinishRead(f))
    /\ \A t \in Threads : WF_poolVars(Continue(t))

-----------------------------------------------------------------------------
(* Properties. *)

\* No lane is cleaned up while a read of a lane is in the pool: cleanup drains the group's
\* "work" before it releases "every lane" (lane_group.py, cleanup).
NoCleanupUnderRead == \A t \in Threads : At(t, "lane") => Unfinished = {}

\* The same when every submission to the pool succeeds: a cleanup waits for all reads, also
\* those of a thread that was interrupted, or checked the group just before.
CleanupWaits == submitFaults = 0 => NoCleanupUnderRead

\* Every call returns: reads, cleanups and the waits for their locks come to an end.
CallsReturn == \A t \in Threads : ~At(t, "idle") ~> At(t, "idle")

=============================================================================

---------------------------- MODULE DecodeOutputs -----------------------------
(***************************************************************************)
(* The outputs of decode steps that a caller reads later                   *)
(* (llm_runtime/decode.py, class DecodeRuntime: consume,                   *)
(* read_decode_output, process_decode_output_host, drain_external_outputs, *)
(* ensure_trace_safe).                                                     *)
(*                                                                         *)
(* A trace writes every step into the same output, an eager step into one  *)
(* of its own.  A lease tells the runtime what is outstanding.  Runs and   *)
(* copies are queued on the device's only command queue and executed in    *)
(* order.  The lane's one thread calls the runtime; OutputReader models    *)
(* the reader's own interleavings, here a read is pending or it is not.    *)
(***************************************************************************)
EXTENDS Naturals, Sequences, FiniteSets

CONSTANTS
    Traces,         \* traced decode tails: each has its output
    MaxSteps,       \* bound: decode steps
    MaxReads,       \* bound: reads of an output
    MaxFailures     \* bound: deallocations that raise

ASSUME StepsAssumption == MaxSteps \in Nat \ {0} /\ Traces \cap (0 .. MaxSteps) = {}
ASSUME ReadBounds == MaxReads \in Nat \ {0} /\ MaxFailures \in Nat

Steps == 1 .. MaxSteps
Reads == 1 .. MaxReads

\* The output of a trace, or the one of an eager step.
Buffers == Traces \cup Steps
Eager(b) == b \in Steps

Nothing == 0

VARIABLES
    step,           \* steps submitted
    queue,          \* device work: runs that write a buffer, copies to the host
    content,        \* the step whose result a buffer holds
    alive,          \* buffers of eager steps that are allocated
    read,           \* reads made
    meant,          \* the step each read is made for
    host,           \* the step each read has got
    pending,        \* reads the OutputReader has not completed
    lease,          \* DecodeOutputLease of each step
    byRaw,          \* _external_by_raw_id
    byHost,         \* _external_by_host_id
    orphans,        \* _transient_orphans
    call,           \* the blocking decode forward the thread is in
    broken,         \* _submission_failed
    failures

device == <<queue, content, alive>>
reading == <<read, meant, host, pending>>
leases == <<lease, byRaw, byHost>>
outputVars == <<step, device, reading, leases, orphans, call, broken, failures>>

\* leased: consume made a lease; read: lease.pending and lease.host_value.
NoLease == [leased |-> FALSE, buffer |-> Nothing, read |-> Nothing, released |-> FALSE]

Run(b, s) == [op |-> "run", buffer |-> b, of |-> s]
Copy(b, r) == [op |-> "copy", buffer |-> b, of |-> r]

OutputsInit ==
    /\ step = 0
    /\ queue = <<>> /\ content = [b \in Buffers |-> Nothing] /\ alive = {}
    /\ read = 0 /\ meant = [r \in Reads |-> Nothing] /\ host = [r \in Reads |-> Nothing]
    /\ pending = {}
    /\ lease = [s \in Steps |-> NoLease]
    /\ byRaw = [b \in Buffers |-> Nothing] /\ byHost = [r \in Reads |-> Nothing]
    /\ orphans = {} /\ call = Nothing /\ broken = FALSE /\ failures = 0

-----------------------------------------------------------------------------
(* The device. *)

Execute ==
    /\ queue # <<>>
    /\ LET work == Head(queue)
       IN IF work.op = "run"
            THEN content' = [content EXCEPT ![work.buffer] = work.of] /\ UNCHANGED host
            ELSE host' = [host EXCEPT ![work.of] = content[work.buffer]] /\ UNCHANGED content
    /\ queue' = Tail(queue)
    /\ UNCHANGED <<step, alive, read, meant, pending, leases, orphans, call, broken, failures>>

\* A read whose copy is not queued any more.
Copied(r) == \A i \in DOMAIN queue : ~(queue[i].op = "copy" /\ queue[i].of = r)

-----------------------------------------------------------------------------
(* Forwards. *)

\* Mutant: outputs that were not read are left out.
OutstandingRead == {byHost[r] : r \in Reads} \ {Nothing}

\* The steps whose leases the registries hold.
Outstanding == ({byRaw[b] : b \in Buffers} \cup {byHost[r] : r \in Reads}) \ {Nothing}

\* ensure_trace_safe.
TraceSafe ==
    /\ ~broken /\ orphans = {}
    /\ \A b \in Buffers : byRaw[b] = Nothing
    /\ \A r \in Reads : byHost[r] # Nothing => ~Eager(lease[byHost[r]].buffer)

\* The output of the next step: the trace's, or an allocation of its own.
CanSubmit(b) ==
    /\ call = Nothing
    /\ step < MaxSteps
    /\ TraceSafe
    /\ b \in Traces \/ b = step + 1

Submit(b) ==
    /\ CanSubmit(b)
    /\ step' = step + 1
    /\ queue' = Append(queue, Run(b, step'))
    /\ alive' = IF Eager(b) THEN alive \cup {b} ELSE alive

\* A step whose output the caller will read (read_from_device=False).
ForwardLeased(b) ==
    /\ Submit(b)
    /\ lease' = [lease EXCEPT ![step'] = [NoLease EXCEPT !.leased = TRUE, !.buffer = b]]
    /\ byRaw' = [byRaw EXCEPT ![b] = step']
    /\ UNCHANGED <<content, reading, byHost, orphans, call, broken, failures>>

\* A step that reads its own output: the thread waits for the device.
ForwardBlocking(b) ==
    /\ Submit(b)
    /\ call' = b
    /\ UNCHANGED <<content, reading, leases, orphans, broken, failures>>

\* Its output is read and, when it is eager, released.
BlockingReturns ==
    /\ call # Nothing
    /\ queue = <<>>
    /\ alive' = alive \ {call}
    /\ call' = Nothing
    /\ UNCHANGED <<step, queue, content, reading, leases, orphans, broken, failures>>

\* The read or the release raises: the runtime accepts no further step, and retains what
\* it could not release.
BlockingRaises ==
    /\ call # Nothing
    /\ failures < MaxFailures
    /\ failures' = failures + 1
    /\ broken' = TRUE
    /\ call' = Nothing
    /\ \/ alive' = alive \ {call} /\ UNCHANGED orphans
       \/ orphans' = orphans \cup (alive \cap {call}) /\ UNCHANGED alive
    /\ UNCHANGED <<step, queue, content, reading, leases>>

\* A submission raises half way, its run queued or not: the same.
ForwardRaises(b) ==
    /\ failures < MaxFailures
    /\ failures' = failures + 1
    /\ CanSubmit(b)
    /\ step' = step + 1
    /\ queue' \in {queue, Append(queue, Run(b, step'))}
    /\ broken' = TRUE
    /\ \/ UNCHANGED <<alive, orphans>>
       \/ Eager(b) /\ alive' = alive \cup {b} /\ orphans' = orphans \cup {b}
    /\ UNCHANGED <<content, reading, leases, call>>

\* cleanup_transients, without the releases that raise again.
CleanupTransients ==
    /\ call = Nothing
    /\ orphans # {}
    /\ alive' = alive \ orphans
    /\ orphans' = {}
    /\ UNCHANGED <<step, queue, content, reading, leases, call, broken, failures>>

-----------------------------------------------------------------------------
(* Reads. *)

\* Mutant: the lease is marked before its buffers are deallocated.
ReleasedMarkedFirst(s, stuck) ==
    LET l == lease[s]
    IN IF s = Nothing \/ l.released
         THEN UNCHANGED <<leases, alive>>
         ELSE /\ lease' = [lease EXCEPT ![s].released = TRUE]
              /\ IF stuck
                   THEN UNCHANGED <<byRaw, byHost, alive>>
                   ELSE /\ alive' = alive \ {l.buffer}
                        /\ byRaw' = [byRaw EXCEPT ![l.buffer] = IF @ = s THEN Nothing ELSE @]
                        /\ byHost' = [r \in Reads |-> IF r = l.read THEN Nothing ELSE byHost[r]]

\* Mutant: the entry of the output goes, whosever lease it holds.
ReleasedAnyEntry(s, stuck) ==
    LET l == lease[s]
    IN IF s = Nothing \/ l.released \/ stuck
         THEN UNCHANGED <<leases, alive>>
         ELSE /\ alive' = alive \ {l.buffer}
              /\ lease' = [lease EXCEPT ![s].released = TRUE]
              /\ byRaw' = [byRaw EXCEPT ![l.buffer] = Nothing]
              /\ byHost' = [r \in Reads |-> IF r = l.read THEN Nothing ELSE byHost[r]]

\* _release_external_lease of a step: stuck when its deallocation raises, and the lease
\* then stays. Another step may have taken the entry of the trace's output meanwhile.
Released(s, stuck) ==
    LET l == lease[s]
    IN IF s = Nothing \/ l.released \/ stuck
         THEN UNCHANGED <<leases, alive>>
         ELSE /\ alive' = alive \ {l.buffer}
              /\ lease' = [lease EXCEPT ![s].released = TRUE]
              /\ byRaw' = [byRaw EXCEPT ![l.buffer] = IF @ = s THEN Nothing ELSE @]
              /\ byHost' = [r \in Reads |-> IF r = l.read THEN Nothing ELSE byHost[r]]

\* Only the deallocation of an eager output can raise.
Sticks(s, stuck) ==
    /\ stuck => s # Nothing /\ Eager(lease[s].buffer) /\ ~lease[s].released /\ failures < MaxFailures
    /\ failures' = IF stuck THEN failures + 1 ELSE failures

\* The read a release completes: it waits for the copy.
CompletedWith(s) == IF s = Nothing \/ lease[s].released THEN {} ELSE {lease[s].read} \ {Nothing}

\* The caller reads an output it was given, unless the lane was drained: once, or an eager
\* one again while it is allocated.
MayRead(s) ==
    /\ s \in 1 .. step /\ lease[s].leased /\ ~lease[s].released
    /\ \/ \A r \in Reads : meant[r] # s
       \/ lease[s].buffer \in alive

NewRead(s) ==
    /\ call = Nothing
    /\ read < MaxReads
    /\ MayRead(s)
    /\ read' = read + 1
    /\ meant' = [meant EXCEPT ![read'] = s]

\* read_decode_output(async_read=True): once its copy is queued, the output of a trace is
\* not outstanding any more.
ReadAsync(s) ==
    /\ NewRead(s)
    /\ LET b == lease[s].buffer
           l == byRaw[b]
       IN /\ queue' = Append(queue, Copy(b, read'))
          /\ pending' = pending \cup {read'}
          /\ lease' = IF l = Nothing THEN lease ELSE [lease EXCEPT ![l].read = read']
          /\ byHost' = [byHost EXCEPT ![read'] = l]
          /\ byRaw' = IF Eager(b) THEN byRaw ELSE [byRaw EXCEPT ![b] = Nothing]
    /\ UNCHANGED <<step, content, alive, host, orphans, call, broken, failures>>

\* read_decode_output(async_read=False): the thread waits for all that is queued.
ReadBlocking(s, stuck) ==
    /\ NewRead(s)
    /\ queue = <<>>
    /\ LET b == lease[s].buffer
           l == byRaw[b]
       IN /\ host' = [host EXCEPT ![read'] = content[b]]
          /\ Sticks(l, stuck)
          /\ pending' = pending \ CompletedWith(l)
          /\ Released(l, stuck)
    /\ UNCHANGED <<step, queue, content, orphans, call, broken>>

\* process_decode_output_host: the thread waits for the copy, and for the copy the lease
\* has from a later read.
Process(r, stuck) ==
    LET l == byHost[r]
    IN /\ call = Nothing
       /\ r \in pending \/ l # Nothing
       /\ \A q \in {r} \cup CompletedWith(l) : Copied(q)
       /\ Sticks(l, stuck)
       /\ pending' = pending \ ({r} \cup CompletedWith(l))
       /\ Released(l, stuck)
       /\ UNCHANGED <<step, queue, content, read, meant, host, orphans, call, broken>>

\* The copy of a lease that was read, or all that is queued on the device, is done.
Synchronized(s) == IF lease[s].read = Nothing THEN queue = <<>> ELSE Copied(lease[s].read)

\* drain_external_outputs: every lease is synchronized, with its event or the whole
\* device, and released but for those whose deallocation raises.
Drain(stuck) ==
    /\ call = Nothing
    /\ Outstanding # {}
    /\ \A s \in Outstanding : Synchronized(s)
    /\ stuck \subseteq {s \in Outstanding : Eager(lease[s].buffer) /\ ~lease[s].released}
    /\ failures + Cardinality(stuck) <= MaxFailures
    /\ failures' = failures + Cardinality(stuck)
    /\ pending' = pending \ UNION {CompletedWith(s) : s \in Outstanding}
    /\ LET gone == {s \in Outstanding : ~lease[s].released} \ stuck
       IN /\ alive' = alive \ {lease[s].buffer : s \in gone}
          /\ lease' = [s \in Steps |-> [lease[s] EXCEPT !.released = @ \/ s \in gone]]
          /\ byRaw' = [b \in Buffers |-> IF byRaw[b] \in gone THEN Nothing ELSE byRaw[b]]
          /\ byHost' = [r \in Reads |-> IF \E s \in gone : lease[s].read = r THEN Nothing ELSE byHost[r]]
    /\ UNCHANGED <<step, queue, content, read, meant, host, orphans, call, broken>>

OutputsNext ==
    \/ Execute
    \/ \E b \in Buffers : ForwardLeased(b) \/ ForwardBlocking(b) \/ ForwardRaises(b)
    \/ BlockingReturns
    \/ BlockingRaises
    \/ CleanupTransients
    \/ \E s \in Steps : ReadAsync(s)
    \/ \E s \in Steps, stuck \in BOOLEAN : ReadBlocking(s, stuck)
    \/ \E r \in Reads, stuck \in BOOLEAN : Process(r, stuck)
    \/ \E stuck \in SUBSET Steps : Drain(stuck)

OutputsSpec == OutputsInit /\ [][OutputsNext]_outputVars

-----------------------------------------------------------------------------
(* Properties. *)

\* A host value is that of the step it was read for, though the trace writes every step
\* into one output and the read is executed later ("The copy and the next replay use CQ0",
\* decode.py:877).
HostValueOfItsStep == \A r \in Reads : host[r] # Nothing => host[r] = meant[r]

\* Nothing leaks: an eager output that is allocated is the running step's, an orphan, or
\* that of a lease some later release or drain finds.
AllocatedIsReachable ==
    alive \subseteq {call} \cup orphans
      \cup {lease[s].buffer : s \in {s \in Outstanding : ~lease[s].released}}

\* No caller has read an output again.
ReadOnce == \A r, q \in Reads : meant[r] # Nothing /\ meant[r] = meant[q] => r = q

\* A drain that raises nothing leaves nothing outstanding: no read of a lease is pending, no
\* eager output allocated, and the next step is not refused.
DrainIsComplete ==
    [][Drain({}) =>
         /\ alive' \subseteq orphans
         /\ \A b \in Buffers : byRaw'[b] = Nothing
         /\ ReadOnce => \A r \in Reads : byHost'[r] = Nothing]_outputVars

=============================================================================

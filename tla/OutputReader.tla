----------------------------- MODULE OutputReader -----------------------------
(***************************************************************************)
(* Asynchronous reads of device outputs (llm_runtime/output_reader.py,     *)
(* class OutputReader): the scheduler's threads submit and complete reads, *)
(* and another thread may drain what is pending.                           *)
(*                                                                         *)
(* The lock protects the two registries only, never a wait for the device, *)
(* so a step here is one section under the lock or one wait outside it.    *)
(* A read that is not submitted to the device (its value is on the host    *)
(* already) is complete when it is returned and leaves no state; neither   *)
(* does a submission that raises.                                          *)
(***************************************************************************)
EXTENDS Naturals, FiniteSets

CONSTANTS
    Threads,
    MaxReads,       \* bound: reads submitted to the device
    Ids, NoId,      \* Python object ids host values may get; an id is reused
    MaxFailures     \* bound: synchronizations that raise

ASSUME IdsAssumption == NoId \notin Ids
ASSUME BoundsAssumption == MaxReads \in Nat \ {0} /\ MaxFailures \in Nat

Reads == 1 .. MaxReads
NoRead == 0

VARIABLES
    sequence,       \* _sequences: reads submitted so far
    copied,         \* reads whose copy the device has finished
    id,             \* the object id of each read's host value
    pending,        \* _pending
    byValue,        \* _pending_by_value_id
    completed,      \* reads whose _completed is set
    held,           \* host values the callers still reference
    returned,       \* host values returned as complete
    thread,         \* what each thread does in the reader
    failures        \* synchronizations that raised so far

readerVars == <<sequence, copied, id, pending, byValue, completed, held, returned, thread, failures>>

\* at: where the thread is; arg: the read it was given, the one whose id it looks up;
\* read: the entry it found; snapshot, todo: the pending reads of a drain.
Idle == [at |-> "idle", exact |-> FALSE, arg |-> NoRead, read |-> NoRead,
         snapshot |-> {}, todo |-> {}, failed |-> FALSE]

Steps == {"idle", "retain", "lookup", "get", "wait", "retire", "next", "refused"}

ReaderInit ==
    /\ sequence = 0
    /\ copied = {}
    /\ id = [r \in Reads |-> NoId]
    /\ pending = {}
    /\ byValue = [i \in Ids |-> NoRead]
    /\ completed = {}
    /\ held = {}
    /\ returned = {}
    /\ thread = [t \in Threads |-> Idle]
    /\ failures = 0

-----------------------------------------------------------------------------

At(t, step) == thread[t].at = step
Set(t, state) == thread' = [thread EXCEPT ![t] = state]
Go(t, step) == thread' = [thread EXCEPT ![t].at = step]

\* Host values that something references, so that their ids are taken.
Alive ==
    held \cup pending \cup {thread[t].arg : t \in Threads} \cup {thread[t].read : t \in Threads}
      \cup UNION {thread[t].snapshot : t \in Threads}

FreeIds == Ids \ {id[r] : r \in Alive \ {NoRead}}

\* The device finishes the copies of its queue in order.
CopyDone ==
    /\ Cardinality(copied) < sequence
    /\ copied' = copied \cup {Cardinality(copied) + 1}
    /\ UNCHANGED <<sequence, id, pending, byValue, completed, held, returned, thread, failures>>

\* submit: the copies and the event are queued.
Submit(t, i) ==
    /\ At(t, "idle")
    /\ sequence < MaxReads
    /\ i \in FreeIds
    /\ sequence' = sequence + 1
    /\ id' = [id EXCEPT ![sequence'] = i]
    /\ Set(t, [Idle EXCEPT !.at = "retain", !.arg = sequence'])
    /\ UNCHANGED <<copied, pending, byValue, completed, held, returned, failures>>

\* The read becomes pending, under the lock, and the caller gets it.
Retain(t) ==
    /\ At(t, "retain")
    /\ LET r == thread[t].arg
       IN /\ pending' = pending \cup {r}
          /\ byValue' = [byValue EXCEPT ![id[r]] = r]
          /\ held' = held \cup {r}
    /\ Set(t, Idle)
    /\ UNCHANGED <<sequence, copied, id, completed, returned, failures>>

\* complete(value) or, with exact, complete(pending read).
Complete(t, r, exact) ==
    /\ At(t, "idle")
    /\ r \in held
    /\ Set(t, [Idle EXCEPT !.at = IF exact THEN "get" ELSE "lookup", !.exact = exact, !.arg = r,
                           !.read = IF exact THEN r ELSE NoRead])
    /\ UNCHANGED <<sequence, copied, id, pending, byValue, completed, held, returned, failures>>

\* A complete ends with its value; a drain goes on to its next read.
EndComplete(t) ==
    IF thread[t].snapshot = {}
      THEN Set(t, Idle) /\ returned' = returned \cup {thread[t].arg}
      ELSE Go(t, "next") /\ UNCHANGED returned

\* The sequence of a value: a value that is not pending is returned as it is.
Lookup(t) ==
    /\ At(t, "lookup")
    /\ LET found == byValue[id[thread[t].arg]]
       IN IF found = NoRead
            THEN EndComplete(t)
            ELSE /\ thread' = [thread EXCEPT ![t].at = "get", ![t].read = found]
                 /\ UNCHANGED returned
    /\ UNCHANGED <<sequence, copied, id, pending, byValue, completed, held, failures>>

\* Mutant: the entry is taken out before the wait.
GetRetires(t) ==
    /\ At(t, "get")
    /\ IF thread[t].read \in pending
         THEN Go(t, "wait") /\ UNCHANGED returned
         ELSE EndComplete(t)
    /\ pending' = pending \ {thread[t].read}
    /\ byValue' = [i \in Ids |-> IF byValue[i] = thread[t].read THEN NoRead ELSE byValue[i]]
    /\ completed' = completed \cup {thread[t].read}
    /\ UNCHANGED <<sequence, copied, id, held, failures>>

\* The entry of the sequence: without one, the read was retired by another thread.
Get(t) ==
    /\ At(t, "get")
    /\ LET gone == thread[t].read \notin pending
           refused == gone /\ thread[t].exact /\ thread[t].read \notin completed
       IN CASE refused -> Go(t, "refused") /\ UNCHANGED returned
            [] gone /\ ~refused -> EndComplete(t)
            [] OTHER -> Go(t, "wait") /\ UNCHANGED returned
    /\ UNCHANGED <<sequence, copied, id, pending, byValue, completed, held, failures>>

\* event_synchronize, outside the lock.
Wait(t) ==
    /\ At(t, "wait")
    /\ thread[t].read \in copied
    /\ Go(t, "retire")
    /\ UNCHANGED <<sequence, copied, id, pending, byValue, completed, held, returned, failures>>

\* Mutant: a drain forgets the failure.
WaitFailsSilently(t) ==
    /\ At(t, "wait")
    /\ failures < MaxFailures
    /\ failures' = failures + 1
    /\ IF thread[t].snapshot = {} THEN Set(t, Idle) ELSE Go(t, "next")
    /\ UNCHANGED <<sequence, copied, id, pending, byValue, completed, held, returned>>

\* It raises: the read stays pending; a drain collects the failure and goes on.
WaitFails(t) ==
    /\ At(t, "wait")
    /\ failures < MaxFailures
    /\ failures' = failures + 1
    /\ IF thread[t].snapshot = {}
         THEN Set(t, Idle)
         ELSE thread' = [thread EXCEPT ![t].at = "next", ![t].failed = TRUE]
    /\ UNCHANGED <<sequence, copied, id, pending, byValue, completed, held, returned>>

\* The entry goes, under the lock, unless another thread has retired it meanwhile.
Retire(t) ==
    /\ At(t, "retire")
    /\ LET r == thread[t].read
       IN IF r \in pending
            THEN /\ pending' = pending \ {r}
                 /\ byValue' = [byValue EXCEPT ![id[r]] = NoRead]
                 /\ completed' = completed \cup {r}
            ELSE UNCHANGED <<pending, byValue, completed>>
    /\ EndComplete(t)
    /\ UNCHANGED <<sequence, copied, id, held, failures>>

\* drain: the pending reads of the moment, taken under the lock, one after the other.
Drain(t) ==
    /\ At(t, "idle")
    /\ pending # {}
    /\ Set(t, [Idle EXCEPT !.at = "next", !.snapshot = pending, !.todo = pending])
    /\ UNCHANGED <<sequence, copied, id, pending, byValue, completed, held, returned, failures>>

\* Mutant: the drain does not get on.
DrainNextAgain(t) ==
    /\ At(t, "next")
    /\ \E r \in thread[t].todo :
         thread' = [thread EXCEPT ![t].at = "get", ![t].exact = TRUE, ![t].read = r]
    /\ UNCHANGED <<sequence, copied, id, pending, byValue, completed, held, returned, failures>>

DrainNext(t) ==
    /\ At(t, "next")
    /\ \E r \in thread[t].todo :
         /\ \A q \in thread[t].todo : r <= q
         /\ thread' = [thread EXCEPT ![t].at = "get", ![t].exact = TRUE, ![t].read = r,
                                     ![t].todo = @ \ {r}]
    /\ UNCHANGED <<sequence, copied, id, pending, byValue, completed, held, returned, failures>>

\* The drain returns, or raises the failures it collected.
DrainEnds(t) ==
    /\ At(t, "next")
    /\ thread[t].todo = {}
    /\ Set(t, Idle)
    /\ UNCHANGED <<sequence, copied, id, pending, byValue, completed, held, returned, failures>>

\* A caller drops its reference to a host value, completed or not.
Drop(r) ==
    /\ r \in held
    /\ held' = held \ {r}
    /\ UNCHANGED <<sequence, copied, id, pending, byValue, completed, returned, thread, failures>>

\* The rest of a call a thread is in.
Continue(t) ==
    \/ Retain(t)
    \/ Lookup(t)
    \/ Get(t)
    \/ Wait(t)
    \/ WaitFails(t)
    \/ Retire(t)
    \/ DrainNext(t)
    \/ DrainEnds(t)

ReaderNext ==
    \/ CopyDone
    \/ \E t \in Threads :
         \/ \E i \in Ids : Submit(t, i)
         \/ \E r \in Reads, exact \in BOOLEAN : Complete(t, r, exact)
         \/ Drain(t)
         \/ Continue(t)
    \/ \E r \in Reads : Drop(r)

\* The device executes its queue, and no thread stops in the middle of a call.
ReaderSpec ==
    /\ ReaderInit
    /\ [][ReaderNext]_readerVars
    /\ WF_readerVars(CopyDone)
    /\ \A t \in Threads : WF_readerVars(Continue(t))

-----------------------------------------------------------------------------
(* Properties. *)

\* A drain that does not raise has retired every read that was pending when it started.
DrainRetires ==
    [][\A t \in Threads :
         At(t, "next") /\ thread'[t].at = "idle" /\ ~thread[t].failed =>
           thread[t].snapshot \cap pending = {}]_readerVars

\* Every call returns: no thread waits for another, or for a copy that never comes, and a
\* read this reader gave out is never refused as not active, however many threads complete
\* and drain it, with ids reused: "Completion is idempotent".
CallsReturn == \A t \in Threads : ~At(t, "idle") ~> At(t, "idle")

\* The reader keeps what it promises of each read.
Promise == INSTANCE HostRead WITH owned <- pending, retired <- completed
HostReadSpec == Promise!Spec

=============================================================================

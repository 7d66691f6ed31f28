----------------------------- MODULE AsyncHeed ------------------------------
(***************************************************************************)
(* The asynchronous wrapper of LMDB, src/src/db/heed/async_heed.rs.        *)
(*                                                                         *)
(* LMDB has one writer, a fixed number of reader slots, and must not be    *)
(* resized while any transaction is alive.  The wrapper puts a mutex       *)
(* (w_lock) and a semaphore (r_lock) of tokio in front of it.  A task      *)
(* waits in the queue of one of them; what it is granted travels with the  *)
(* transaction and is given back when that is closed, committed, aborted   *)
(* or just dropped.  Any future may be dropped while it waits (Cancel).    *)
(*                                                                         *)
(* Granularity.  A wait, a call into LMDB and the drop of each field of a  *)
(* transaction are steps of their own: tasks run on several threads.       *)
(***************************************************************************)
EXTENDS Integers, Sequences, FiniteSets, SequencesExt

CONSTANTS Tasks,      \* the tasks that use the database
          MaxReaders, \* max_readers
          BatchSize,  \* bound: items of an ingested stream
          Nesting,    \* which transactions a task may begin inside another
          None        \* "nobody"

ASSUME AsyncHeedAssumption ==
    /\ MaxReaders \in Nat \ {0}
    /\ BatchSize \in Nat \ {0}
    /\ Nesting \subseteq {"read_in_write", "write_in_read"}
    /\ None \notin Tasks

Keys == 1 .. BatchSize

VARIABLES
    read,      \* where each task stands with a read transaction
    write,     \* the same for a write transaction, an ingestion or a resize
    kind,      \* what the task took, or waits for, the writer lock for
    r_queue,   \* requests waiting for permits of r_lock, in order
    r_permits, \* permits left in r_lock
    w_queue,   \* tasks waiting for w_lock, in order
    w_holder,  \* the task that holds w_lock, or None
    put,       \* items put in the transaction of an ingestion so far
    store,     \* content: the task whose committed batch wrote each key
    map_size   \* the size of the map (it alternates between two values)

readVars  == <<read, r_queue, r_permits>>
writeVars == <<write, kind, w_queue, w_holder>>
dataVars  == <<put, store, map_size>>
vars == <<readVars, writeVars, dataVars>>

ReadState  == {"none", "queued", "granted", "open", "closing"}
WriteState == {"none", "queued", "locked", "open", "ingesting", "draining",
               "resizing", "resized", "closing"}
Kind    == {"txn", "ingest", "resize"}
Requests == [task : Tasks, for : {"read", "resize"}]
Request(t, purpose) == [task |-> t, for |-> purpose]

TypeOK ==
    /\ read \in [Tasks -> ReadState]
    /\ write \in [Tasks -> WriteState]
    /\ kind \in [Tasks -> Kind]
    /\ r_queue \in Seq(Requests)
    /\ r_permits \in 0 .. MaxReaders
    /\ w_queue \in Seq(Tasks)
    /\ w_holder \in Tasks \cup {None}
    /\ put \in [Tasks -> 0 .. BatchSize]
    /\ store \in [Keys -> Tasks \cup {None}]
    /\ map_size \in {0, 1}

Init ==
    /\ read = [t \in Tasks |-> "none"]
    /\ write = [t \in Tasks |-> "none"]
    /\ kind = [t \in Tasks |-> "txn"]
    /\ r_queue = <<>>
    /\ r_permits = MaxReaders
    /\ w_queue = <<>>
    /\ w_holder = None
    /\ put = [t \in Tasks |-> 0]
    /\ store = [k \in Keys |-> None]
    /\ map_size = 0

\* The task is not inside a call of the wrapper -- or is in ingest_stream,
\* waiting for its input, which may itself use the database.
Runs(t) ==
    /\ read[t] \in {"none", "open"}
    /\ write[t] \in {"none", "open", "ingesting"}

-----------------------------------------------------------------------------
(* The semaphore and the mutex of tokio: first come, first served.  A      *)
(* request for many permits at the head of the queue holds up the others.  *)

\* resize wants all the permits.
OneTooMany == MaxReaders + 1 \* (mutant)
ResizeNeeds == MaxReaders

Needs(request) == IF request.for = "read" THEN 1 ELSE ResizeNeeds

GrantPermits ==
    /\ r_queue # <<>>
    /\ LET request == Head(r_queue)
       IN  /\ Needs(request) <= r_permits
           /\ r_permits' = r_permits - Needs(request)
           /\ IF request.for = "read"
              THEN /\ read' = [read EXCEPT ![request.task] = "granted"]
                   /\ UNCHANGED write
              ELSE /\ write' = [write EXCEPT ![request.task] = "resizing"]
                   /\ UNCHANGED read
    /\ r_queue' = Tail(r_queue)
    /\ UNCHANGED <<kind, w_queue, w_holder, dataVars>>

GrantLock ==
    /\ w_queue # <<>>
    /\ w_holder = None
    /\ w_holder' = Head(w_queue)
    /\ w_queue' = Tail(w_queue)
    /\ write' = [write EXCEPT ![Head(w_queue)] = "locked"]
    /\ UNCHANGED <<readVars, kind, dataVars>>

-----------------------------------------------------------------------------
(* Read transactions.                                                      *)

\* begin_read, up to the wait.
BeginRead(t) ==
    /\ Runs(t)
    /\ read[t] = "none"
    /\ write[t] = "none" \/ "read_in_write" \in Nesting
    /\ read' = [read EXCEPT ![t] = "queued"]
    /\ r_queue' = Append(r_queue, Request(t, "read"))
    /\ UNCHANGED <<r_permits, writeVars, dataVars>>

\* begin_read, the rest: the call into LMDB.
OpenRead(t) ==
    /\ read[t] = "granted"
    /\ read' = [read EXCEPT ![t] = "open"]
    /\ UNCHANGED <<r_queue, r_permits, writeVars, dataVars>>

\* LMDB refuses the transaction: the permit is dropped with the error.
OpenReadFails(t) ==
    /\ read[t] = "granted"
    /\ read' = [read EXCEPT ![t] = "none"]
    /\ r_permits' = r_permits + 1
    /\ UNCHANGED <<r_queue, writeVars, dataVars>>

\* The order in which the fields of HeedReadTransaction are dropped: the
\* LMDB transaction, then the permit.
PermitDropsFirst == FALSE \* (mutant: the fields are swapped)
ReadTxnDropsFirst == TRUE

\* close, or a plain drop: the first field goes ...
CloseRead(t) ==
    /\ read[t] = "open"
    /\ Runs(t)
    /\ read' = [read EXCEPT ![t] = "closing"]
    /\ r_permits' = IF ReadTxnDropsFirst THEN r_permits ELSE r_permits + 1
    /\ UNCHANGED <<r_queue, writeVars, dataVars>>

\* The permits once a closed transaction has given its own back.
PermitForgotten == r_permits \* (mutant)
PermitReturned  == r_permits + 1

\* ... and the second.
FinishRead(t) ==
    /\ read[t] = "closing"
    /\ read' = [read EXCEPT ![t] = "none"]
    /\ r_permits' = IF ReadTxnDropsFirst THEN PermitReturned ELSE r_permits
    /\ UNCHANGED <<r_queue, writeVars, dataVars>>

\* The tasks LMDB has a reader slot in use for.
LmdbReaders == {t \in Tasks : \/ read[t] = "open"
                              \/ read[t] = "closing" /\ ~ReadTxnDropsFirst}

-----------------------------------------------------------------------------
(* Write transactions and the ingestion of a stream.                       *)

\* begin_write, ingest_stream or resize, up to the wait for w_lock.
BeginWrite(t, k) ==
    /\ Runs(t)
    /\ write[t] = "none"
    /\ read[t] = "none" \/ "write_in_read" \in Nesting
    /\ write' = [write EXCEPT ![t] = "queued"]
    /\ kind' = [kind EXCEPT ![t] = k]
    /\ w_queue' = Append(w_queue, t)
    /\ UNCHANGED <<readVars, w_holder, dataVars>>

\* begin_write, the rest: LMDB's write_txn, which blocks the thread while
\* another write transaction is alive.
OpenWrite(t) ==
    /\ write[t] = "locked"
    /\ kind[t] # "resize"
    /\ write' = [write EXCEPT ![t] = IF kind[t] = "ingest" THEN "ingesting"
                                     ELSE "open"]
    /\ UNCHANGED <<readVars, kind, w_queue, w_holder, dataVars>>

\* The owner of the lock once a failed begin_write returned.
GuardLeaked  == w_holder \* (mutant)
GuardDropped == None

\* LMDB refuses the transaction: the guard is dropped with the error.
OpenWriteFails(t) ==
    /\ write[t] = "locked"
    /\ kind[t] # "resize"
    /\ write' = [write EXCEPT ![t] = "none"]
    /\ w_holder' = GuardDropped
    /\ UNCHANGED <<readVars, kind, w_queue, dataVars>>

\* The order in which the fields of HeedWriteTransaction are dropped.
GuardDropsFirst == FALSE \* (mutant: the fields are swapped)
WriteTxnDropsFirst == TRUE

\* The state of a task whose LMDB transaction, or resize, is over: the guard
\* is still to be dropped, or went first.
StartClosing(t) ==
    /\ write' = [write EXCEPT ![t] = "closing"]
    /\ put' = [put EXCEPT ![t] = 0]
    /\ w_holder' = IF WriteTxnDropsFirst THEN w_holder ELSE None
    /\ UNCHANGED <<kind, w_queue>>

\* ingest_stream: one more item arrives and is put.
PutItem(t) ==
    /\ write[t] = "ingesting"
    /\ Runs(t)
    /\ put[t] < BatchSize
    /\ put' = [put EXCEPT ![t] = @ + 1]
    /\ UNCHANGED <<readVars, writeVars, store, map_size>>

\* ingest_stream leaves its loop at the end of the stream only: a failed put
\* returns at once.
LeavesTheLoopEarly(t) == TRUE \* (mutant: it breaks and commits)
InputIsOver(t) == put[t] = BatchSize

\* commit of an ingestion makes what was put visible.
CommitBatch(t) ==
    /\ write[t] = "ingesting"
    /\ Runs(t)
    /\ InputIsOver(t)
    /\ store' = [k \in Keys |-> IF k <= put[t] THEN t ELSE store[k]]
    /\ StartClosing(t)
    /\ UNCHANGED <<readVars, map_size>>

\* commit of a transaction of the caller (its writes are not followed), or
\* its abort, or drop.
EndWrite(t) ==
    /\ write[t] = "open"
    /\ Runs(t)
    /\ StartClosing(t)
    /\ UNCHANGED <<readVars, store, map_size>>

\* An ingestion whose put failed or whose future was dropped: LMDB aborts.
AbortBatch(t) ==
    /\ write[t] = "ingesting"
    /\ Runs(t)
    /\ StartClosing(t)
    /\ UNCHANGED <<readVars, store, map_size>>

\* The last field goes: the guard (if it did not go first).
FinishWrite(t) ==
    /\ write[t] = "closing"
    /\ write' = [write EXCEPT ![t] = "none"]
    /\ w_holder' = IF WriteTxnDropsFirst THEN None ELSE w_holder
    /\ UNCHANGED <<readVars, kind, w_queue, dataVars>>

\* The tasks LMDB has a write transaction of.
LmdbWriters ==
    {t \in Tasks : \/ write[t] \in {"open", "ingesting"}
                   \/ /\ write[t] = "closing" /\ ~WriteTxnDropsFirst
                      /\ kind[t] # "resize"}

-----------------------------------------------------------------------------
(* resize.                                                                 *)

\* It holds w_lock: ask for all the permits.
DrainReaders(t) ==
    /\ write[t] = "locked"
    /\ kind[t] = "resize"
    /\ write' = [write EXCEPT ![t] = "draining"]
    /\ r_queue' = Append(r_queue, Request(t, "resize"))
    /\ UNCHANGED <<read, r_permits, kind, w_queue, w_holder, dataVars>>

\* The call into LMDB (it may fail, which changes nothing here).
Resize(t) ==
    /\ write[t] = "resizing"
    /\ write' = [write EXCEPT ![t] = "resized"]
    /\ map_size' \in {map_size, 1 - map_size}
    /\ UNCHANGED <<readVars, kind, w_queue, w_holder, put, store>>

\* The permits are dropped first, the writer's guard after them.
ReleasePermits(t) ==
    /\ write[t] = "resized"
    /\ r_permits' = r_permits + ResizeNeeds
    /\ write' = [write EXCEPT ![t] = "closing"]
    /\ UNCHANGED <<read, r_queue, kind, w_queue, w_holder, dataVars>>

-----------------------------------------------------------------------------
(* A future is dropped while it waits, or before it noticed that it need   *)
(* not wait any more (a future dropped later than that ends like an error).*)

CancelRead(t) ==
    /\ \/ /\ read[t] = "queued"
          /\ \E i \in 1 .. Len(r_queue) :
                /\ r_queue[i] = Request(t, "read")
                /\ r_queue' = RemoveAt(r_queue, i)
          /\ UNCHANGED r_permits
       \/ /\ read[t] = "granted"
          /\ r_permits' = r_permits + 1
          /\ UNCHANGED r_queue
    /\ read' = [read EXCEPT ![t] = "none"]
    /\ UNCHANGED <<writeVars, dataVars>>

CancelWrite(t) ==
    /\ \/ /\ write[t] = "queued"
          /\ \E i \in 1 .. Len(w_queue) : /\ w_queue[i] = t
                                          /\ w_queue' = RemoveAt(w_queue, i)
          /\ UNCHANGED w_holder
       \/ /\ write[t] = "locked"
          /\ w_holder' = None
          /\ UNCHANGED w_queue
    /\ write' = [write EXCEPT ![t] = "none"]
    /\ UNCHANGED <<readVars, kind, dataVars>>

\* resize gives back what it was granted, then the writer's guard.
CancelResize(t) ==
    /\ \/ /\ write[t] = "draining"
          /\ \E i \in 1 .. Len(r_queue) :
                /\ r_queue[i] = Request(t, "resize")
                /\ r_queue' = RemoveAt(r_queue, i)
          /\ UNCHANGED r_permits
       \/ /\ write[t] = "resizing"
          /\ r_permits' = r_permits + ResizeNeeds
          /\ UNCHANGED r_queue
    /\ write' = [write EXCEPT ![t] = "closing"]
    /\ UNCHANGED <<read, kind, w_queue, w_holder, dataVars>>

-----------------------------------------------------------------------------
ReadStep(t) ==
    \/ BeginRead(t)
    \/ OpenRead(t)
    \/ OpenReadFails(t)
    \/ CloseRead(t)
    \/ FinishRead(t)
    \/ CancelRead(t)

WriteStep(t) ==
    \/ \E k \in Kind : BeginWrite(t, k)
    \/ OpenWrite(t)
    \/ OpenWriteFails(t)
    \/ PutItem(t)
    \/ CommitBatch(t)
    \/ EndWrite(t)
    \/ AbortBatch(t)
    \/ FinishWrite(t)
    \/ CancelWrite(t)

ResizeStep(t) ==
    \/ DrainReaders(t)
    \/ Resize(t)
    \/ ReleasePermits(t)
    \/ CancelResize(t)

Next ==
    \/ GrantPermits
    \/ GrantLock
    \/ \E t \in Tasks : ReadStep(t) \/ WriteStep(t) \/ ResizeStep(t)

Spec == Init /\ [][Next]_vars

\* The scheduler runs every task that can run, and tokio wakes who is next in
\* line.  The callers close their transactions and their streams end: that is
\* an assumption on them.  Nobody has to call anything, or to drop a future.
Fairness ==
    /\ WF_vars(GrantPermits)
    /\ WF_vars(GrantLock)
    /\ \A t \in Tasks :
          /\ WF_vars(OpenRead(t))
          /\ WF_vars(CloseRead(t))
          /\ WF_vars(FinishRead(t))
          /\ WF_vars(OpenWrite(t))
          /\ WF_vars(PutItem(t) \/ CommitBatch(t))
          /\ WF_vars(EndWrite(t))
          /\ WF_vars(FinishWrite(t))
          /\ WF_vars(DrainReaders(t))
          /\ WF_vars(Resize(t))
          /\ WF_vars(ReleasePermits(t))

FairSpec == Spec /\ Fairness

-----------------------------------------------------------------------------
(* Safety.                                                                 *)

\* The engine below: whoever the writers are, LMDB has one at most.
EngineWriter == IF LmdbWriters = {} THEN None
                ELSE CHOOSE t \in Tasks : t \in LmdbWriters

Promise == INSTANCE TransactionService
           WITH readers <- LmdbReaders, writer <- EngineWriter

\* The gates keep from LMDB whatever it would refuse or block on: a reader
\* without a slot, a second writer, a resize beside a transaction; and a
\* batch is stored as a whole or not at all.
ImplementsTransactionService == Promise!Spec

\* The parts of the inductive invariant: see AsyncHeedProofs.

\* The queues hold the requests of the tasks that wait, each once.
QueuesAreSound ==
    /\ \A t \in Tasks :
          /\ read[t] = "queued" <=> Request(t, "read") \in ToSet(r_queue)
          /\ write[t] = "draining" <=> Request(t, "resize") \in ToSet(r_queue)
          /\ write[t] = "queued" <=> t \in ToSet(w_queue)
    /\ IsInjective(r_queue)
    /\ IsInjective(w_queue)

\* Whoever is past the wait for w_lock holds it.
HoldsLock(t) == write[t] \notin {"none", "queued"}
LockIsExclusive == \A t \in Tasks : HoldsLock(t) <=> w_holder = t

\* Reading tasks have a permit each; a resize has them all.
PermitHolders == {t \in Tasks : read[t] \in {"granted", "open", "closing"}}
HoldsAll(t)   == write[t] \in {"resizing", "resized"}

PermitsAreCounted ==
    /\ IsFiniteSet(PermitHolders)
    /\ IF \E t \in Tasks : HoldsAll(t)
       THEN PermitHolders = {} /\ r_permits = 0
       ELSE r_permits + Cardinality(PermitHolders) = MaxReaders

\* A resize is not taken for an ingestion, nor the other way round.
KindsAreKept ==
    \A t \in Tasks :
        /\ write[t] \in {"draining", "resizing", "resized"} => kind[t] = "resize"
        /\ write[t] \in {"open", "ingesting"} => kind[t] # "resize"

HeedInv ==
    /\ TypeOK
    /\ QueuesAreSound
    /\ LockIsExclusive
    /\ PermitsAreCounted
    /\ KindsAreKept

-----------------------------------------------------------------------------
(* Liveness, for tasks that begin no write inside a read: such a task waits *)
(* for a resize that waits for the task's permit.  Reads inside writes are  *)
(* fine: resize takes the writer lock before the permits, so it never       *)
(* stands between an ingestion and the permit its input needs.              *)

\* A reader gets its permit (or gives up), whatever resizes are queued.
ReadersAreServed == \A t \in Tasks : read[t] = "queued" ~> read[t] # "queued"

\* A writer gets the lock, however many ingestions and resizes come first,
\* unless one of those goes on reading for ever while it writes.
NestedReadsEnd ==
    \A t \in Tasks : <>[](read[t] = "none" \/ write[t] \in {"none", "queued"})
WritersAreServed ==
    NestedReadsEnd => \A t \in Tasks : write[t] = "queued" ~> write[t] # "queued"

\* A resize is not starved by readers that keep coming.
ResizesAreServed ==
    \A t \in Tasks : write[t] = "draining" ~> write[t] # "draining"
=============================================================================

----------------------------- MODULE AsyncReDb ------------------------------
(***************************************************************************)
(* The asynchronous wrapper of redb, src/src/db/redb/async_redb.rs: the    *)
(* gates, the transactions and the ingestion of AsyncHeed, whose actions   *)
(* it shares (redb's tables live in its transactions), and a compaction in *)
(* place of the resize.                                                    *)
(*                                                                         *)
(* compact takes the wrapper by &mut: the compiler lets it start only when *)
(* no transaction and no waiting future borrows the wrapper, and lets none *)
(* start beside it.                                                        *)
(***************************************************************************)
EXTENDS AsyncHeed

VARIABLE compaction \* how far compact has come, or "none"

redbVars == <<vars, compaction>>

ReDbTypeOK == compaction \in {"none", "locking", "draining", "compacting"}

ReDbInit == Init /\ compaction = "none"

-----------------------------------------------------------------------------
\* What the two wrappers have in common, where it stands in this one.
begin_read(t)  == BeginRead(t) \/ OpenRead(t) \/ OpenReadFails(t)
begin_write(t) == BeginWrite(t, "txn") \/ OpenWrite(t) \/ OpenWriteFails(t)
ingest_stream(t) == BeginWrite(t, "ingest") \/ PutItem(t) \/ AbortBatch(t)

\* The fields of the transactions are dropped in the same order, the engine's
\* transaction first; close and commit keep the permit and the guard meanwhile.
ReDbReadTransaction(t)  == CloseRead(t) \/ FinishRead(t)
ReDbWriteTransaction(t) == EndWrite(t) \/ CommitBatch(t) \/ FinishWrite(t)

\* A future that waits is dropped.
Cancelled(t) == CancelRead(t) \/ CancelWrite(t)

TransactionStep ==
    \/ GrantPermits
    \/ GrantLock
    \/ \E t \in Tasks : \/ begin_read(t) \/ ReDbReadTransaction(t)
                        \/ begin_write(t) \/ ReDbWriteTransaction(t)
                        \/ ingest_stream(t) \/ Cancelled(t)

-----------------------------------------------------------------------------
(* compact.                                                                *)

SharedBorrow == \A t \in Tasks : read[t] # "open" \* (mutant: &self, "readers only")
ExclusiveBorrow == \A t \in Tasks : read[t] = "none" /\ write[t] = "none"

BeginCompact ==
    /\ ExclusiveBorrow
    /\ compaction = "none"
    /\ compaction' = "locking"
    /\ UNCHANGED vars

\* It takes the writer's lock, then all of the permits ...
LockForCompact ==
    /\ compaction = "locking"
    /\ w_holder = None
    /\ compaction' = "draining"
    /\ UNCHANGED vars

DrainForCompact ==
    /\ compaction = "draining"
    /\ r_permits >= MaxReaders
    /\ compaction' = "compacting"
    /\ UNCHANGED vars

\* ... and drops both when redb is done, or has failed.
EndCompact ==
    /\ compaction = "compacting"
    /\ compaction' = "none"
    /\ UNCHANGED vars

CompactStep == BeginCompact \/ LockForCompact \/ DrainForCompact \/ EndCompact

ReDbNext ==
    \/ compaction = "none" /\ TransactionStep /\ UNCHANGED compaction
    \/ CompactStep

ReDbSpec == ReDbInit /\ [][ReDbNext]_redbVars

-----------------------------------------------------------------------------
\* A compaction never waits: whatever transactions failed, were dropped or were
\* cancelled before it, they gave back the lock and every permit.
CompactionNeverWaits ==
    /\ ReDbTypeOK
    /\ compaction = "locking" => w_holder = None /\ w_queue = <<>>
    /\ compaction = "draining" => r_permits = MaxReaders /\ r_queue = <<>>
=============================================================================

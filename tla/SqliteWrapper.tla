--------------------------- MODULE SqliteWrapper ----------------------------
(***************************************************************************)
(* The wrapper of SQLite, src/src/db/sqlite/sqlite_wrapper.rs: a pool of   *)
(* one connection, a database in WAL mode, the ingestion of a stream in    *)
(* one transaction, and the maintenance of the WAL.                        *)
(*                                                                         *)
(* Every statement of a maintenance asks the pool for the connection anew: *)
(* other tasks get in between.  What SQLite does to its files is external. *)
(***************************************************************************)
EXTENDS Integers, Sequences, FiniteSets, SequencesExt

CONSTANTS Callers,  \* the tasks that call the wrapper
          RowCount, \* the rows of a stream
          NoOne

ASSUME SqliteAssumption == RowCount \in Nat \ {0} /\ NoOne \notin Callers

Rows == 1 .. RowCount

VARIABLES
    job,        \* the statements each task still has to run
    pool,       \* the tasks that wait for the connection, in order
    connection, \* the task that has it, or NoOne
    closed,     \* TRUE once close_db was called
    inserted,   \* the rows in the transaction of each ingestion
    content,    \* what a reader finds: whose committed batch wrote each row
    file,       \* the same for the main file alone
    wal         \* the WAL: "empty", "live", or "copied" into the file

taskVars == <<job, pool, connection, closed>>
sqliteVars == <<taskVars, inserted, content, file, wal>>

Content == [Rows -> Callers \cup {NoOne}]

-----------------------------------------------------------------------------
(* The operations, as the statements they run.                             *)

passive_synchronize_wal == <<"passive">>

perform_daily_data_maintenance == passive_synchronize_wal \o <<"truncate">>

\* (mutant: "nothing is left in the WAL, it was truncated")
VacuumedOnly == perform_daily_data_maintenance \o <<"vacuum", "optimize">>
perform_weekly_data_maintenance ==
    perform_daily_data_maintenance \o <<"vacuum", "optimize", "truncate">>

Operations == {<<"ingest">>, passive_synchronize_wal,
               perform_daily_data_maintenance, perform_weekly_data_maintenance}

Statements == {"ingest", "passive", "truncate", "vacuum", "optimize"}

SqliteTypeOK ==
    /\ job \in [Callers -> Seq(Statements)]
    /\ pool \in Seq(Callers)
    /\ connection \in Callers \cup {NoOne}
    /\ closed \in BOOLEAN
    /\ inserted \in [Callers -> 0 .. RowCount]
    /\ {content, file} \subseteq Content
    /\ wal \in {"empty", "live", "copied"}

\* open: an empty database.
SqliteInit ==
    /\ job = [t \in Callers |-> <<>>]
    /\ pool = <<>>
    /\ connection = NoOne
    /\ closed = FALSE
    /\ inserted = [t \in Callers |-> 0]
    /\ content = [k \in Rows |-> NoOne]
    /\ file = content
    /\ wal = "empty"

-----------------------------------------------------------------------------
(* The pool.                                                               *)

Call(t, operation) ==
    /\ job[t] = <<>>
    /\ ~closed
    /\ job' = [job EXCEPT ![t] = operation]
    /\ pool' = Append(pool, t)
    /\ UNCHANGED <<connection, closed, inserted, content, file, wal>>

\* max_connections(1): a second task waits.
Unlimited == TRUE \* (mutant)
ConnectionIsFree == connection = NoOne

Acquire ==
    /\ pool # <<>>
    /\ ConnectionIsFree
    /\ ~closed
    /\ connection' = Head(pool)
    /\ pool' = Tail(pool)
    /\ UNCHANGED <<job, closed, inserted, content, file, wal>>

\* The pool was closed, or the wait took too long (a stream that asks for the
\* database its own ingestion holds ends like this too): the operation fails.
AcquireFails(t) ==
    /\ \E i \in DOMAIN pool : pool[i] = t /\ pool' = RemoveAt(pool, i)
    /\ job' = [job EXCEPT ![t] = <<>>]
    /\ UNCHANGED <<connection, closed, inserted, content, file, wal>>

\* The task gives the connection back; it goes on with `rest`, or it is done.
GoesOnWith(t, rest) ==
    /\ connection' = NoOne
    /\ job' = [job EXCEPT ![t] = rest]
    /\ pool' = IF rest = <<>> THEN pool ELSE Append(pool, t)
    /\ inserted' = [inserted EXCEPT ![t] = 0]
    /\ UNCHANGED closed

\* The task has the connection and is to run this statement.
Executes(t, statement) == connection = t /\ Head(job[t]) = statement

-----------------------------------------------------------------------------
(* Maintenance.                                                            *)

\* With one connection nobody reads beside it: a checkpoint copies everything.
Checkpoint(t) ==
    /\ \/ /\ Executes(t, "passive")
          /\ wal' = IF wal = "empty" THEN "empty" ELSE "copied"
       \/ /\ Executes(t, "truncate")
          /\ wal' = "empty"
    /\ file' = content
    /\ GoesOnWith(t, Tail(job[t]))
    /\ UNCHANGED content

\* VACUUM rewrites the database through the WAL.
Vacuum(t) ==
    /\ Executes(t, "vacuum")
    /\ wal' = "live"
    /\ GoesOnWith(t, Tail(job[t]))
    /\ UNCHANGED <<content, file>>

Optimize(t) ==
    /\ Executes(t, "optimize")
    /\ GoesOnWith(t, Tail(job[t]))
    /\ UNCHANGED <<content, file, wal>>

\* Any statement may fail: the operation returns at once.
StatementFails(t) ==
    /\ connection = t
    /\ GoesOnWith(t, <<>>)
    /\ UNCHANGED <<content, file, wal>>

-----------------------------------------------------------------------------
(* ingest_stream.                                                          *)

InsertRow(t) ==
    /\ Executes(t, "ingest")
    /\ inserted[t] < RowCount
    /\ inserted' = [inserted EXCEPT ![t] = @ + 1]
    /\ UNCHANGED <<taskVars, content, file, wal>>

\* The loop ends with the stream, or returns with the first error.
EndsAnywhere(t) == TRUE \* (mutant: it breaks and commits)
StreamIsOver(t) == inserted[t] = RowCount

\* SQLite checkpoints by itself once the WAL is long enough (external).
CommitRows(t) ==
    /\ Executes(t, "ingest")
    /\ StreamIsOver(t)
    /\ content' = [k \in Rows |-> IF k <= inserted[t] THEN t ELSE content[k]]
    /\ \/ wal' = "live" /\ UNCHANGED file
       \/ wal' = "copied" /\ file' = content'
    /\ GoesOnWith(t, <<>>)

-----------------------------------------------------------------------------
\* close_db: the pool hands out nothing more, waits for the connection, and
\* SQLite empties the WAL when the last connection goes (external).
CloseDb ==
    /\ ~closed
    /\ closed' = TRUE
    /\ UNCHANGED <<job, pool, connection, inserted, content, file, wal>>

ConnectionCloses ==
    /\ closed
    /\ connection = NoOne
    /\ file' = content
    /\ wal' = "empty"
    /\ UNCHANGED <<taskVars, inserted, content>>

\* The process ends at any point and opens the database again: SQLite recovers
\* what was committed from the WAL, and with `open` a new pool is there.
Restart ==
    /\ job' = [t \in Callers |-> <<>>]
    /\ pool' = <<>>
    /\ connection' = NoOne
    /\ closed' = FALSE
    /\ inserted' = [t \in Callers |-> 0]
    /\ UNCHANGED <<content, file, wal>>

TaskStep(t) ==
    \/ \E operation \in Operations : Call(t, operation)
    \/ AcquireFails(t)
    \/ Checkpoint(t)
    \/ Vacuum(t)
    \/ Optimize(t)
    \/ StatementFails(t)
    \/ InsertRow(t)
    \/ CommitRows(t)

SqliteNext ==
    \/ Acquire
    \/ \E t \in Callers : TaskStep(t)
    \/ CloseDb
    \/ ConnectionCloses
    \/ Restart

SqliteSpec == SqliteInit /\ [][SqliteNext]_sqliteVars

-----------------------------------------------------------------------------
\* The parts of the invariant.

\* A task with a job waits in the queue, once, or has the connection.
PoolIsSound ==
    /\ IsInjective(pool)
    /\ \A t \in Callers :
          /\ job[t] # <<>> <=> t \in ToSet(pool) \/ connection = t
          /\ connection = t => t \notin ToSet(pool)
          /\ inserted[t] > 0 => connection = t /\ Head(job[t]) = "ingest"

\* Whatever the main file lacks is in the WAL.
WalHoldsTheDifference == file # content => wal = "live"

SqliteInv == SqliteTypeOK /\ PoolIsSound /\ WalHoldsTheDifference

\* A maintenance that runs to its end leaves all of the content in the main file
\* and no WAL, even if batches were committed between its statements, and even
\* if it rewrote the database.
EndsMaintenance(t) == /\ connection = t
                      /\ Len(job[t]) = 1
                      /\ Head(job[t]) \in {"truncate", "optimize"}
                      /\ Checkpoint(t) \/ Optimize(t)
MaintenanceStep ==
    \A t \in Callers : EndsMaintenance(t) => file' = content' /\ wal' = "empty"
MaintenanceReclaimsTheWal == [][MaintenanceStep]_sqliteVars

SqlitePromise == INSTANCE TransactionService
                 WITH Tasks <- Callers, Keys <- Rows, None <- NoOne, MaxReaders <- 1,
                      readers <- {}, store <- content, map_size <- 0,
                      writer <- IF \E t \in Callers : inserted[t] > 0
                                THEN CHOOSE t \in Callers : inserted[t] > 0 ELSE NoOne

\* A batch is stored as a whole or not at all, one at a time, even if the process
\* ends in the middle of it.
SqliteImplementsTransactionService == SqlitePromise!Spec
=============================================================================

------------------------- MODULE TransactionService -------------------------
(***************************************************************************)
(* What the database wrappers promise, as seen by the storage engine below *)
(* them: the engine is never asked for more readers than it has slots, for *)
(* a second writer, or for a resize beside a transaction, and a batch that *)
(* is ingested becomes visible as a whole or not at all.                   *)
(***************************************************************************)
EXTENDS Integers, FiniteSets

CONSTANTS Tasks, MaxReaders, Keys, None

VARIABLES
    readers,   \* the tasks with an engine read transaction
    writer,    \* the task with the engine's write transaction, or None
    store,     \* the committed writer of each key
    map_size   \* the size of the memory map (it alternates: only the change counts)

vars == <<readers, writer, store, map_size>>

Init ==
    /\ readers = {}
    /\ writer = None
    /\ store = [k \in Keys |-> None]
    /\ map_size = 0

BeginRead(t) ==
    /\ Cardinality(readers) < MaxReaders
    /\ t \notin readers
    /\ readers' = readers \cup {t}
    /\ UNCHANGED <<writer, store, map_size>>

EndRead(t) ==
    /\ t \in readers
    /\ readers' = readers \ {t}
    /\ UNCHANGED <<writer, store, map_size>>

BeginWrite(t) ==
    /\ writer = None
    /\ writer' = t
    /\ UNCHANGED <<readers, store, map_size>>

\* Abort, or commit all of the task's batch.
EndWrite(t) ==
    /\ writer = t
    /\ writer' = None
    /\ store' \in {store, [k \in Keys |-> t]}
    /\ UNCHANGED <<readers, map_size>>

Resize ==
    /\ readers = {}
    /\ writer = None
    /\ map_size' = 1 - map_size
    /\ UNCHANGED <<readers, writer, store>>

Next ==
    \/ \E t \in Tasks : BeginRead(t) \/ EndRead(t) \/ BeginWrite(t) \/ EndWrite(t)
    \/ Resize

Spec == Init /\ [][Next]_vars
=============================================================================

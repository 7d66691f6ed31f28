----------------------------- MODULE MCDatabases ----------------------------
(* The three wrappers of a database.  A behaviour uses one of them.        *)
EXTENDS AsyncReDb, SqliteWrapper, TLC

VARIABLE engine
allVars == <<engine, redbVars, sqliteVars>>

EveryInit ==
    /\ engine \in {"heed", "redb", "sqlite"}
    /\ ReDbInit
    /\ SqliteInit

EveryNext ==
    /\ UNCHANGED engine
    /\ \/ engine = "heed" /\ Next /\ UNCHANGED <<compaction, sqliteVars>>
       \/ engine = "redb" /\ ReDbNext /\ UNCHANGED sqliteVars
       \/ engine = "sqlite" /\ SqliteNext /\ UNCHANGED redbVars

EverySpec == EveryInit /\ [][EveryNext]_allVars

\* No property tells one task from another.
TaskSymmetry == Permutations(Tasks) \* which are the Callers, too
=============================================================================

-------------------------- MODULE DatabaseBenchmark -------------------------
(***************************************************************************)
(* The benchmarks of the three databases, src/src/db/{heed,redb,sqlite}/   *)
(* benchmark.rs: run_benchmark fills a table from a stream, queries it and *)
(* closes the database, and reports its progress through a callback of the *)
(* front end that runs it (a Telegram or a WhatsApp dialog).               *)
(*                                                                         *)
(* run_benchmark is sequential: each step has its next one.  A step calls  *)
(* the wrapper of the database, or reports and returns the error of the    *)
(* callback, or (a note) reports and goes on whatever the callback says.   *)
(***************************************************************************)
EXTENDS Integers, Sequences, FiniteSets

CONSTANTS Runs,           \* the calls of run_benchmark
          Records,        \* expected_records
          ProgressEvery,  \* progress_every
          QueryStep,      \* point_query_step
          MatchesPerReport, \* lookups, or rows, between two reports
          HighScore,      \* every so many records, one has a high score
          Fresh,          \* TRUE if every run has a directory of its own
          None

ASSUME BenchmarkAssumption ==
    /\ {Records, QueryStep} \subseteq Nat
    /\ {ProgressEvery, MatchesPerReport, HighScore} \subseteq Nat \ {0}
    /\ Fresh \in BOOLEAN
    /\ None \notin Runs

Kinds == {"heed", "redb", "sqlite"}

VARIABLES
    kind,    \* the database of each run, or None
    step,    \* the step it is at
    result,  \* "none", "running", "ok" or "failed"
    matched, \* matched_rows
    batch,   \* the records in its open transaction
    opened,  \* the run that has each database open, or None
    table    \* the committed records of each database

benchmarkVars == <<kind, step, result, matched, batch, opened, table>>

-----------------------------------------------------------------------------
(* The steps.                                                              *)

Call(what, i)   == [do |-> "call", what |-> what, i |-> i]
Report(what, i) == [do |-> "report", what |-> what, i |-> i]
Note(what, i)   == [do |-> "note", what |-> what, i |-> i]

InsertedNote(i) == Note("inserted", i)
NoStep == Call("nothing", 0)

\* ingest_stream over make_event_stream: record n, after its note if one is due (the
\* first record and then every so many), or the end of the stream.
Ingest(n) ==
    IF n = Records THEN Call("commit", 0)
    ELSE IF n % ProgressEvery = 0 THEN InsertedNote(n) ELSE Call("put", n)

\* (0..expected_records).step_by(point_query_step.max(1)), after so many lookups.
Stride == IF QueryStep = 0 THEN 1 ELSE QueryStep
LookUpTheEndToo(n) == \* (mutant)
    IF Stride * n <= Records THEN Call("get", Stride * n) ELSE Report("queried", n)
LookUp(n) ==
    IF Stride * n < Records THEN Call("get", Stride * n) ELSE Report("queried", n)

\* SQLite is asked for the rows with a high score: the next report after row n.
NextRows(n, rows) ==
    IF n + MatchesPerReport <= rows THEN Report("matched", n + MatchesPerReport)
    ELSE Report("queried", rows)

\* Key-value stores are asked for sampled keys.
Query(k) == IF k = "sqlite" THEN Call("select", 0) ELSE LookUp(0)

Maintenance(k) ==
    CASE k = "heed"   -> Report("syncing", 0)
      [] k = "redb"   -> Call("close", 0)
      [] k = "sqlite" -> Report("passive", 0)

\* The step after step s, of a run with so many rows matched.
After(k, s, rows) ==
    CASE s.what = "open"        -> Report("starting", 0)
      [] s.what = "starting"    -> Report("ingestion", 0)
      [] s.what = "ingestion"   -> Call("begin_write", 0)
      [] s.what = "begin_write" -> Ingest(0)
      [] s.what = "inserted"    -> Call("put", s.i)
      [] s.what = "put"         -> Ingest(s.i + 1)
      [] s.what = "commit"      -> Report("ingested", 0)
      [] s.what = "ingested"    -> Query(k)
      [] s.what = "get"         -> IF rows % MatchesPerReport = 0
                                   THEN Report("matched", rows) ELSE LookUp(rows)
      [] s.what = "select"      -> NextRows(0, rows)
      [] s.what = "matched"     -> IF k = "sqlite" THEN NextRows(s.i, rows) ELSE LookUp(rows)
      [] s.what = "queried"     -> Report("closing", rows)
      [] s.what = "closing"     -> Maintenance(k)
      [] s.what = "syncing"     -> Call("force_sync", 0)
      [] s.what = "force_sync"  -> Report("synced", 0)
      [] s.what = "passive"     -> Call("passive_synchronize_wal", 0)
      [] s.what = "passive_synchronize_wal" -> Report("hard", 0)
      [] s.what = "hard"        -> Call("perform_daily_data_maintenance", 0)
      [] s.what = "perform_daily_data_maintenance" -> Report("hard_done", 0)
      [] s.what \in {"synced", "hard_done"} -> Call("close", 0)
      [] s.what = "close"       -> Report("closed", rows)

Current(r) == step[r]
IsAt(r, do) == result[r] = "running" /\ Current(r).do = do

-----------------------------------------------------------------------------
(* The databases.                                                          *)

Nobody == CHOOSE r \in Runs : TRUE
Databases == Runs \X Kinds
Path(r) == <<IF Fresh THEN r ELSE Nobody, kind[r]>>

\* The key is made of the run and the record; SQLite's table has no key, and the
\* records of earlier runs stay in a directory that is not fresh.
HighScores(records) == Cardinality({e \in records : e[2] % HighScore = HighScore - 1})

Effect(r, call) ==
    CASE call.what = "open" ->
           /\ opened[Path(r)] = None
           /\ opened' = [opened EXCEPT ![Path(r)] = r]
           /\ UNCHANGED <<matched, batch, table>>
      [] call.what = "put" ->
           /\ batch' = [batch EXCEPT ![r] = @ \cup {<<r, call.i>>}]
           /\ UNCHANGED <<matched, opened, table>>
      [] call.what = "commit" ->
           /\ table' = [table EXCEPT ![Path(r)] = @ \cup batch[r]]
           /\ batch' = [batch EXCEPT ![r] = {}]
           /\ UNCHANGED <<matched, opened>>
      [] call.what = "get" ->
           /\ <<r, call.i>> \in table[Path(r)]
           /\ matched' = [matched EXCEPT ![r] = @ + 1]
           /\ UNCHANGED <<batch, opened, table>>
      [] call.what = "select" ->
           /\ matched' = [matched EXCEPT ![r] = HighScores(table[Path(r)])]
           /\ UNCHANGED <<batch, opened, table>>
      [] call.what = "close" ->
           /\ opened' = [opened EXCEPT ![Path(r)] = None]
           /\ UNCHANGED <<matched, batch, table>>
      [] OTHER -> UNCHANGED <<matched, batch, opened, table>>

-----------------------------------------------------------------------------
(* The steps of a run.                                                     *)

BenchmarkInit ==
    /\ kind = [r \in Runs |-> None]
    /\ step = [r \in Runs |-> NoStep]
    /\ result = [r \in Runs |-> "none"]
    /\ matched = [r \in Runs |-> 0]
    /\ batch = [r \in Runs |-> {}]
    /\ opened = [d \in Databases |-> None]
    /\ table = [d \in Databases |-> {}]

StartRun(r, k) ==
    /\ kind' = [kind EXCEPT ![r] = k]
    /\ step' = [step EXCEPT ![r] = Call("open", 0)]
    /\ result' = [result EXCEPT ![r] = "running"]
    /\ UNCHANGED <<matched, batch, opened, table>>

\* On to the next step, or to Ok at the end.
GoOn(r) ==
    IF step[r].what = "closed"
    THEN /\ result' = [result EXCEPT ![r] = "ok"]
         /\ step' = [step EXCEPT ![r] = NoStep]
    ELSE /\ step' = [step EXCEPT ![r] = After(kind[r], step[r], matched'[r])]
         /\ UNCHANGED result

\* Err: the transaction is aborted and the database closed, as they are dropped.
GiveUp(r) ==
    /\ result' = [result EXCEPT ![r] = "failed"]
    /\ step' = [step EXCEPT ![r] = NoStep]
    /\ batch' = [batch EXCEPT ![r] = {}]
    /\ opened' = [d \in Databases |-> IF opened[d] = r THEN None ELSE opened[d]]
    /\ UNCHANGED <<kind, matched, table>>

CallSucceeds(r) ==
    /\ IsAt(r, "call")
    /\ Effect(r, Current(r))
    /\ GoOn(r)
    /\ UNCHANGED kind

CallFails(r) ==
    /\ IsAt(r, "call")
    /\ GiveUp(r)

\* The callback of the front end returned.
ReportReturns(r, ok) ==
    /\ \/ IsAt(r, "note")
       \/ IsAt(r, "report") /\ ok
    /\ UNCHANGED <<kind, matched, batch, opened, table>>
    /\ GoOn(r)

ReportFails(r) ==
    /\ IsAt(r, "report")
    /\ GiveUp(r)

\* A front end calls run_benchmark once for each run.
BenchmarkStep(r) ==
    \/ result[r] = "none" /\ \E k \in Kinds : StartRun(r, k)
    \/ CallSucceeds(r)
    \/ CallFails(r)
    \/ \E ok \in BOOLEAN : ReportReturns(r, ok)
    \/ ReportFails(r)

BenchmarkNext == \E r \in Runs : BenchmarkStep(r)
BenchmarkSpec == BenchmarkInit /\ [][BenchmarkNext]_benchmarkVars

-----------------------------------------------------------------------------
\* A lookup never misses a record of the run, whatever other runs do beside it,
\* and a run that succeeds counted what benches/databases.rs expects of it; SQLite's
\* rows have no key, and its count includes earlier runs in the same directory.
expected_sample_count ==
    IF Records = 0 THEN 0 ELSE ((Records - 1) \div Stride) + 1

LookupsHit ==
    \A r \in Runs :
       /\ IsAt(r, "call") /\ Current(r).what = "get"
             => <<r, Current(r).i>> \in table[Path(r)]
       /\ result[r] = "ok"
             => IF kind[r] # "sqlite" THEN matched[r] = expected_sample_count
                ELSE /\ HighScores({e \in table[Path(r)] : e[1] = r}) <= matched[r]
                     /\ matched[r] <= HighScores(table[Path(r)])

\* A table holds all the records of a run or none of them, and only a run that
\* has its database open has a transaction.
BatchesAreWhole ==
    \A r \in Runs :
       /\ \A d \in Databases :
             LET own == {e \in table[d] : e[1] = r}
             IN  own = {} \/ Cardinality(own) = Records
       /\ batch[r] # {} => opened[Path(r)] = r

\* Lookups hit, and batches are whole.
BenchmarkInv == LookupsHit /\ BatchesAreWhole
=============================================================================

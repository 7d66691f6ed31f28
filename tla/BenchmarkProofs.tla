--------------------------- MODULE BenchmarkProofs --------------------------
(***************************************************************************)
(* What TLAPS proves of the benchmarks (DatabaseBenchmark), for every      *)
(* number of runs and of records, whatever front end calls run_benchmark   *)
(* and however its callbacks end.                                          *)
(***************************************************************************)
EXTENDS DatabaseBenchmark, FiniteSetTheorems, TLAPS

-----------------------------------------------------------------------------
(* A run of a benchmark: what holds at which step.                         *)

BeforeCommit == {"open", "starting", "ingestion", "begin_write", "inserted", "put", "commit"}
Querying     == {"ingested", "get", "select", "matched"}
Queried      == {"queried", "closing", "syncing", "force_sync", "synced", "passive",
                 "passive_synchronize_wal", "hard", "perform_daily_data_maintenance",
                 "hard_done", "close", "closed"}
Whats == BeforeCommit \cup Querying \cup Queried
DatabaseCalls == {"open", "begin_write", "put", "commit", "get", "select", "force_sync",
                  "passive_synchronize_wal", "perform_daily_data_maintenance", "close"}
KindOf(what) == IF what \in DatabaseCalls THEN "call"
                ELSE IF what = "inserted" THEN "note" ELSE "report"

StepRecords == {s \in [do : {"call", "note", "report"}, what : Whats, i : Nat] : s.do = KindOf(s.what)}

BenchmarkTypeOK ==
    /\ kind \in [Runs -> Kinds \cup {None}]
    /\ step \in [Runs -> StepRecords \cup {NoStep}]
    /\ result \in [Runs -> {"none", "running", "ok", "failed"}]
    /\ matched \in [Runs -> Nat]
    /\ batch \in [Runs -> SUBSET (Runs \X Nat)]
    /\ opened \in [Databases -> Runs \cup {None}]
    /\ table \in [Databases -> SUBSET (Runs \X Nat)]
    /\ \A d \in Databases : IsFiniteSet(table[d])

\* The run is at one of these steps.
IsIn(r, whats) == result[r] = "running" /\ step[r].what \in whats
IsPast(r, whats) == result[r] = "ok" \/ (result[r] = "running" /\ step[r].what \notin whats)

StepIsSound(r) ==
    result[r] = "running" =>
        /\ kind[r] \in Kinds
        /\ step[r] \in StepRecords
        /\ step[r].what = "get" => kind[r] # "sqlite"
        /\ step[r].what = "select" => kind[r] = "sqlite"
        /\ step[r].what = "closed" => step[r].i = matched[r]

\* A run has its own database open, from "open" to "close".
DatabaseIsHeld(r) ==
    \A d \in Databases :
        opened[d] = r <=> IsIn(r, Whats \ {"open", "closed"}) /\ d = Path(r)

\* The first n records of a run.
First(r, n) == {r} \X (0 .. (n - 1))

BatchIsSound(r) ==
    /\ IsIn(r, {"inserted", "put"}) => step[r].i < Records /\ batch[r] = First(r, step[r].i)
    /\ IsIn(r, {"commit"}) => batch[r] = First(r, Records)
    /\ ~IsIn(r, {"inserted", "put", "commit"}) => batch[r] = {}

Own(r, d) == {e \in table[d] : e[1] = r}

RecordsAreSound(r) ==
    /\ \A d \in Databases : Own(r, d) \in {{}, First(r, Records)}
    /\ result[r] = "none" \/ IsIn(r, BeforeCommit) => \A d \in Databases : Own(r, d) = {}
    /\ result[r] = "ok" => kind[r] \in Kinds
    /\ IsPast(r, BeforeCommit) => Own(r, Path(r)) = First(r, Records)

\* Lookups are in the range of the records, and those that are over have covered it;
\* SQLite's count is between the rows of the run and those of the table.
CountIsSound(r) ==
    /\ result[r] = "none" \/ IsIn(r, BeforeCommit \cup {"ingested", "select"}) => matched[r] = 0
    /\ kind[r] # "sqlite" =>
          /\ matched[r] > 0 => Stride * (matched[r] - 1) < Records
          /\ IsIn(r, {"get"}) => step[r].i = Stride * matched[r] /\ step[r].i < Records
          /\ IsPast(r, BeforeCommit \cup Querying) => Records <= Stride * matched[r]
    /\ kind[r] = "sqlite" /\ IsPast(r, BeforeCommit \cup {"ingested", "select"}) =>
          /\ HighScores(Own(r, Path(r))) <= matched[r]
          /\ matched[r] <= HighScores(table[Path(r)])

RunIsSound(r) == /\ StepIsSound(r)
                 /\ DatabaseIsHeld(r)
                 /\ BatchIsSound(r)
                 /\ RecordsAreSound(r)
                 /\ CountIsSound(r)

BenchmarkIInv == BenchmarkTypeOK /\ \A r \in Runs : RunIsSound(r)

-----------------------------------------------------------------------------
(* Arithmetic, sets, and the steps.                                        *)

LEMMA StrideIsPositive == Stride \in Nat \ {0}
  BY BenchmarkAssumption DEF Stride, BenchmarkAssumption

\* The lookups that cover the records and stay in their range are as many as
\* benches/databases.rs expects.
LEMMA ExpectedCount ==
    ASSUME NEW n \in Nat, n > 0 => Stride * (n - 1) < Records, Records <= Stride * n
    PROVE  n = expected_sample_count
<1>0. Stride \in Nat \ {0} /\ Records \in Nat
  BY StrideIsPositive, BenchmarkAssumption DEF BenchmarkAssumption
<1>1. CASE n = 0
  <2>1. Records = 0
    BY <1>0, <1>1
  <2> QED
    BY <1>1, <2>1 DEF expected_sample_count
<1>2. CASE n # 0
  <2> DEFINE m == n - 1
             s == Stride
             q == Records - 1
  <2>1. m \in Nat /\ s \in Nat \ {0} /\ q \in Nat /\ s * m <= q /\ q < s * (m + 1)
    <3>1. m \in Nat /\ m + 1 = n /\ s * m < Records
      BY <1>2
    <3>2. s * m \in Nat
      BY <1>0, <3>1
    <3> QED
      BY <1>0, <3>1, <3>2
  <2> HIDE DEF m, s, q
  <2>2. q \div s = m
    BY <2>1
  <2> QED
    BY <1>0, <2>1, <2>2 DEF m, s, q, expected_sample_count
<1> QED
  BY <1>1, <1>2

LEMMA FirstCount ==
    ASSUME NEW r, NEW n \in Nat
    PROVE  IsFiniteSet(First(r, n)) /\ Cardinality(First(r, n)) = n
<1>1. IsFiniteSet({r}) /\ Cardinality({r}) = 1
  BY FS_Singleton
<1>2. IsFiniteSet(0 .. (n - 1)) /\ Cardinality(0 .. (n - 1)) = n
  BY FS_Interval
<1>3. IsFiniteSet(First(r, n)) /\ Cardinality(First(r, n)) = 1 * n
  BY <1>1, <1>2, FS_Product DEF First
<1> QED
  BY <1>3

LEMMA NextRecord ==
    ASSUME NEW r, NEW n \in Nat
    PROVE  First(r, n) \cup {<<r, n>>} = First(r, n + 1) /\ First(r, 0) = {}
  BY DEF First

\* More rows have not fewer high scores.
LEMMA HighScoresGrow ==
    ASSUME NEW S, NEW T, IsFiniteSet(T), S \subseteq T
    PROVE  /\ HighScores(S) \in Nat /\ HighScores(T) \in Nat
           /\ HighScores(S) <= HighScores(T)
<1> DEFINE high(U) == {e \in U : e[2] % HighScore = HighScore - 1}
<1>1. high(S) \subseteq high(T) /\ high(T) \subseteq T
  OBVIOUS
<1>2. IsFiniteSet(high(T)) /\ IsFiniteSet(high(S)) /\ Cardinality(high(S)) <= Cardinality(high(T))
  BY <1>1, FS_Subset
<1> HIDE DEF high
<1>3. Cardinality(high(S)) \in Nat /\ Cardinality(high(T)) \in Nat
  BY <1>2, FS_CardinalityType
<1> QED
  BY <1>2, <1>3 DEF high, HighScores

-----------------------------------------------------------------------------
(* The steps of run_benchmark.                                             *)

Reported == Whats \ (DatabaseCalls \cup {"inserted"})

LEMMA MadeSteps ==
    ASSUME NEW n \in Nat
    PROVE  /\ \A w \in DatabaseCalls :
                 Call(w, n) \in StepRecords /\ Call(w, n).what = w /\ Call(w, n).i = n
           /\ \A w \in Reported :
                 Report(w, n) \in StepRecords /\ Report(w, n).what = w /\ Report(w, n).i = n
           /\ InsertedNote(n) \in StepRecords /\ InsertedNote(n).what = "inserted"
           /\ InsertedNote(n).i = n
<1>1. DatabaseCalls \subseteq Whats /\ "inserted" \in Whats /\ "inserted" \notin DatabaseCalls
  BY DEF DatabaseCalls, Whats, BeforeCommit, Querying, Queried
<1>2. ASSUME NEW w \in DatabaseCalls
      PROVE  Call(w, n) \in StepRecords /\ Call(w, n).what = w /\ Call(w, n).i = n
  <2>1. KindOf(w) = "call"
    BY DEF KindOf
  <2> QED
    BY <1>1, <2>1 DEF Call, StepRecords
<1>3. ASSUME NEW w \in Reported
      PROVE  Report(w, n) \in StepRecords /\ Report(w, n).what = w /\ Report(w, n).i = n
  <2>1. KindOf(w) = "report"
    BY DEF KindOf, Reported
  <2> QED
    BY <2>1 DEF Report, StepRecords, Reported
<1>4. KindOf("inserted") = "note"
  BY <1>1 DEF KindOf
<1> QED
  BY <1>1, <1>2, <1>3, <1>4 DEF InsertedNote, Note, StepRecords

LEMMA WhatIsReported ==
    Reported = {"starting", "ingestion", "ingested", "matched", "queried", "closing", "syncing",
                "synced", "passive", "hard", "hard_done", "closed"}
  BY DEF Reported, Whats, DatabaseCalls, BeforeCommit, Querying, Queried

LEMMA Ingesting ==
    ASSUME NEW n \in 0 .. Records
    PROVE  LET next == Ingest(n) IN
           /\ next \in StepRecords
           /\ n = Records => next.what = "commit"
           /\ n # Records => next.what \in {"inserted", "put"} /\ next.i = n
<1>1. n \in Nat /\ Records \in Nat
  BY BenchmarkAssumption DEF BenchmarkAssumption
<1>2. {"put", "commit"} \subseteq DatabaseCalls
  BY DEF DatabaseCalls
<1> QED
  BY <1>1, <1>2, MadeSteps DEF Ingest

LEMMA LookingUp ==
    ASSUME NEW n \in Nat
    PROVE  LET next == LookUp(n) IN
           /\ next \in StepRecords
           /\ Stride * n < Records => next.what = "get" /\ next.i = Stride * n
           /\ ~(Stride * n < Records) => next.what = "queried" /\ next.i = n
<1>1. Stride \in Nat /\ Stride * n \in Nat
  BY StrideIsPositive
<1>2. "get" \in DatabaseCalls /\ "queried" \in Reported
  BY WhatIsReported DEF DatabaseCalls
<1> QED
  BY <1>1, <1>2, MadeSteps DEF LookUp

\* The step after s, before the commit.
LEMMA StepsBeforeCommit ==
    ASSUME NEW k \in Kinds, NEW s \in StepRecords, NEW rows \in Nat, s.what \in BeforeCommit,
           s.what \in {"inserted", "put"} => s.i < Records
    PROVE  LET next == After(k, s, rows) IN
           /\ next \in StepRecords
           /\ s.what = "open" => next.what = "starting"
           /\ s.what = "starting" => next.what = "ingestion"
           /\ s.what = "ingestion" => next.what = "begin_write"
           /\ s.what = "begin_write" => next = Ingest(0)
           /\ s.what = "inserted" => next.what = "put" /\ next.i = s.i
           /\ s.what = "put" => next = Ingest(s.i + 1)
           /\ s.what = "commit" => next.what = "ingested"
<1>0. s.i \in Nat /\ Records \in Nat
  BY BenchmarkAssumption DEF BenchmarkAssumption, StepRecords
<1>1. {"starting", "ingestion", "ingested"} \subseteq Reported /\ {"begin_write", "put"} \subseteq DatabaseCalls
  BY WhatIsReported DEF DatabaseCalls
<1>2. CASE s.what \in {"open", "starting", "ingestion", "commit"}
  <2>1. /\ s.what = "open" => After(k, s, rows) = Report("starting", 0)
        /\ s.what = "starting" => After(k, s, rows) = Report("ingestion", 0)
        /\ s.what = "ingestion" => After(k, s, rows) = Call("begin_write", 0)
        /\ s.what = "commit" => After(k, s, rows) = Report("ingested", 0)
    BY DEF After
  <2> QED
    BY <1>1, <1>2, <2>1, MadeSteps
<1>3. CASE s.what = "inserted"
  BY <1>0, <1>1, <1>3, MadeSteps DEF After
<1>4. CASE s.what = "begin_write"
  <2>1. After(k, s, rows) = Ingest(0)
    BY <1>4 DEF After
  <2> QED
    BY <1>0, <1>4, <2>1, Ingesting
<1>5. CASE s.what = "put"
  <2>1. After(k, s, rows) = Ingest(s.i + 1) /\ s.i + 1 \in 0 .. Records
    BY <1>0, <1>5 DEF After
  <2> QED
    BY <1>5, <2>1, Ingesting
<1> QED
  BY <1>2, <1>3, <1>4, <1>5 DEF BeforeCommit

\* While it queries: a key-value store is asked for the next key, with a report once
\* in a while, and SQLite's rows come one after the other.
LEMMA StepsQuerying ==
    ASSUME NEW k \in Kinds, NEW s \in StepRecords, NEW rows \in Nat, s.what \in Querying
    PROVE  LET next == After(k, s, rows) IN
           /\ next \in StepRecords
           /\ s.what = "ingested" /\ k = "sqlite" => next.what = "select"
           /\ s.what = "ingested" /\ k # "sqlite" => next = LookUp(0)
           /\ s.what = "get" => next.what = "matched" \/ next = LookUp(rows)
           /\ s.what = "select" \/ (s.what = "matched" /\ k = "sqlite")
                 => next.what \in {"matched", "queried"}
           /\ s.what = "matched" /\ k # "sqlite" => next = LookUp(rows)
<1>0. s.i \in Nat /\ MatchesPerReport \in Nat
  BY BenchmarkAssumption DEF BenchmarkAssumption, StepRecords
<1>1. {"matched", "queried"} \subseteq Reported /\ "select" \in DatabaseCalls
  BY WhatIsReported DEF DatabaseCalls
<1>2. \A n \in Nat : NextRows(n, rows) \in StepRecords
                     /\ NextRows(n, rows).what \in {"matched", "queried"}
  BY <1>0, <1>1, MadeSteps DEF NextRows
<1>3. LookUp(rows) \in StepRecords /\ LookUp(0) \in StepRecords
  BY LookingUp
<1>4. CASE s.what = "ingested"
  <2>1. Call("select", 0) \in StepRecords /\ Call("select", 0).what = "select"
    BY <1>1, MadeSteps
  <2> QED
    BY <1>3, <1>4, <2>1 DEF After, Query
<1>5. CASE s.what = "get"
  <2>1. Report("matched", rows) \in StepRecords /\ Report("matched", rows).what = "matched"
    BY <1>1, MadeSteps
  <2> QED
    BY <1>3, <1>5, <2>1 DEF After
<1>6. CASE s.what = "select"
  BY <1>2, <1>6 DEF After
<1>7. CASE s.what = "matched"
  BY <1>0, <1>2, <1>3, <1>7 DEF After
<1> QED
  BY <1>4, <1>5, <1>6, <1>7 DEF Querying

\* After the query it closes the database, and says so at last.
LEMMA StepsQueried ==
    ASSUME NEW k \in Kinds, NEW s \in StepRecords, NEW rows \in Nat, s.what \in Queried \ {"closed"}
    PROVE  LET next == After(k, s, rows) IN
           /\ next \in StepRecords
           /\ next.what \in Queried
           /\ next.what = "closed" <=> s.what = "close"
           /\ next.what = "closed" => next.i = rows
<1>1. /\ {"closing", "syncing", "synced", "passive", "hard", "hard_done", "closed"}
         \subseteq Reported \cap Queried
      /\ {"close", "force_sync", "passive_synchronize_wal", "perform_daily_data_maintenance"}
         \subseteq DatabaseCalls \cap Queried
  BY WhatIsReported DEF DatabaseCalls, Queried
<1>2. /\ s.what = "queried" => After(k, s, rows) = Report("closing", rows)
      /\ s.what = "closing" => After(k, s, rows) = Maintenance(k)
      /\ s.what = "syncing" => After(k, s, rows) = Call("force_sync", 0)
      /\ s.what = "force_sync" => After(k, s, rows) = Report("synced", 0)
  BY DEF After
<1>3. /\ s.what = "passive" => After(k, s, rows) = Call("passive_synchronize_wal", 0)
      /\ s.what = "passive_synchronize_wal" => After(k, s, rows) = Report("hard", 0)
      /\ s.what = "hard" => After(k, s, rows) = Call("perform_daily_data_maintenance", 0)
      /\ s.what = "perform_daily_data_maintenance" => After(k, s, rows) = Report("hard_done", 0)
  BY DEF After
<1>4. /\ s.what \in {"synced", "hard_done"} => After(k, s, rows) = Call("close", 0)
      /\ s.what = "close" => After(k, s, rows) = Report("closed", rows)
  BY DEF After
<1>5. Maintenance(k) \in {Report("syncing", 0), Call("close", 0), Report("passive", 0)}
  BY DEF Maintenance, Kinds
<1>6. \/ \E w \in Reported \cap Queried, n \in {0, rows} : After(k, s, rows) = Report(w, n)
                                                         /\ (w = "closed" <=> s.what = "close")
                                                         /\ (w = "closed" => n = rows)
      \/ \E w \in DatabaseCalls \cap Queried : After(k, s, rows) = Call(w, 0)
                                             /\ w # "closed" /\ s.what # "close"
  BY <1>1, <1>2, <1>3, <1>4, <1>5 DEF Queried
<1> QED
  BY <1>6, MadeSteps

-----------------------------------------------------------------------------
(* What the steps of a run keep.                                           *)

LEMMA PathIsDatabase ==
    ASSUME NEW r \in Runs, kind[r] \in Kinds PROVE Path(r) \in Databases
<1>1. Nobody \in Runs
  BY DEF Nobody
<1> QED
  BY <1>1 DEF Path, Databases

\* What a step of another run changes is nothing to this one: tables only grow, by
\* records that are not its own.
LEMMA OthersAreSound ==
    ASSUME BenchmarkTypeOK, BenchmarkTypeOK', NEW q \in Runs, RunIsSound(q),
           kind'[q] = kind[q], step'[q] = step[q], result'[q] = result[q],
           matched'[q] = matched[q], batch'[q] = batch[q],
           \A d \in Databases : /\ opened'[d] = q <=> opened[d] = q
                                /\ Own(q, d)' = Own(q, d)
                                /\ table[d] \subseteq table'[d]
    PROVE  RunIsSound(q)'
<1>1. Path(q)' = Path(q)
  BY DEF Path
<1>2. \A whats : IsIn(q, whats)' = IsIn(q, whats) /\ IsPast(q, whats)' = IsPast(q, whats)
  BY DEF IsIn, IsPast
<1>3. StepIsSound(q)' /\ DatabaseIsHeld(q)' /\ BatchIsSound(q)'
  <2>1. StepIsSound(q)'
    BY DEF RunIsSound, StepIsSound
  <2>2. DatabaseIsHeld(q)'
    BY <1>1, <1>2 DEF RunIsSound, DatabaseIsHeld
  <2>3. BatchIsSound(q)'
    BY <1>2 DEF RunIsSound, BatchIsSound
  <2> QED
    BY <2>1, <2>2, <2>3
<1>4. IsPast(q, BeforeCommit) => kind[q] \in Kinds /\ Path(q) \in Databases
  BY PathIsDatabase DEF RunIsSound, RecordsAreSound, StepIsSound, IsPast
<1>5. RecordsAreSound(q)'
  BY <1>1, <1>2, <1>4 DEF RunIsSound, RecordsAreSound
<1>6. CountIsSound(q)'
  <2>1. ASSUME kind[q] = "sqlite", IsPast(q, BeforeCommit \cup {"ingested", "select"})
        PROVE  /\ HighScores(Own(q, Path(q)))' <= matched'[q]
               /\ matched'[q] <= HighScores(table[Path(q)])'
    <3>1. IsPast(q, BeforeCommit)
      BY <2>1 DEF IsPast
    <3>2. Path(q) \in Databases /\ IsFiniteSet(table'[Path(q)]) /\ IsFiniteSet(table[Path(q)])
      BY <1>4, <3>1 DEF BenchmarkTypeOK
    <3>3. /\ HighScores(table[Path(q)]) \in Nat /\ HighScores(table'[Path(q)]) \in Nat
          /\ HighScores(table[Path(q)]) <= HighScores(table'[Path(q)])
      BY <3>2, HighScoresGrow
    <3>4. /\ HighScores(Own(q, Path(q))) <= matched[q]
          /\ matched[q] <= HighScores(table[Path(q)])
      BY <2>1 DEF RunIsSound, CountIsSound
    <3>5. HighScores(Own(q, Path(q)))' = HighScores(Own(q, Path(q)))
      <4>1. Own(q, Path(q))' = Own(q, Path(q))
        BY <1>1, <3>2
      <4> QED
        BY <4>1 DEF HighScores
    <3>6. HighScores(table[Path(q)])' = HighScores(table'[Path(q)])
      BY <1>1 DEF HighScores
    <3>7. matched[q] \in Nat
      BY DEF BenchmarkTypeOK
    <3> QED
      BY <3>3, <3>4, <3>5, <3>6, <3>7
  <2> QED
    BY <1>2, <2>1 DEF RunIsSound, CountIsSound
<1> QED
  BY <1>3, <1>5, <1>6 DEF RunIsSound

\* Where a run is after GoOn.
LEMMA GoesOn ==
    ASSUME BenchmarkTypeOK, NEW r \in Runs, StepIsSound(r), result[r] = "running", GoOn(r),
           UNCHANGED kind, step[r].what \in {"inserted", "put"} => step[r].i < Records,
           matched'[r] \in Nat
    PROVE  /\ step' \in [Runs -> StepRecords \cup {NoStep}]
           /\ result' \in [Runs -> {"none", "running", "ok", "failed"}]
           /\ \A q \in Runs : q # r => step'[q] = step[q] /\ result'[q] = result[q]
           /\ step[r].what = "closed" => result'[r] = "ok"
           /\ step[r].what # "closed" =>
                 /\ result'[r] = "running"
                 /\ step'[r] = After(kind[r], step[r], matched'[r])
                 /\ step'[r] \in StepRecords
<1>1. kind[r] \in Kinds /\ step[r] \in StepRecords /\ step[r].what \in Whats
  BY DEF StepIsSound, StepRecords
<1>2. CASE step[r].what = "closed"
  BY <1>2 DEF GoOn, BenchmarkTypeOK
<1>3. CASE step[r].what # "closed"
  <2>1. After(kind[r], step[r], matched'[r]) \in StepRecords
    BY <1>1, <1>3, StepsBeforeCommit, StepsQuerying, StepsQueried DEF Whats
  <2> QED
    BY <1>3, <2>1 DEF GoOn, BenchmarkTypeOK
<1> QED
  BY <1>2, <1>3

\* A report, or a call that changes nothing the model follows.
LEMMA QuietStep ==
    ASSUME BenchmarkTypeOK, NEW r \in Runs, RunIsSound(r), result[r] = "running",
           step[r].what \notin {"open", "put", "commit", "get", "select", "close"},
           GoOn(r), UNCHANGED <<kind, matched, batch, opened, table>>
    PROVE  BenchmarkTypeOK' /\ RunIsSound(r)'
<1>1. /\ kind[r] \in Kinds /\ step[r] \in StepRecords /\ step[r].what \in Whats
      /\ matched[r] \in Nat
  BY DEF RunIsSound, StepIsSound, StepRecords, BenchmarkTypeOK
<1>2. step[r].what = "inserted" => step[r].i < Records /\ batch[r] = First(r, step[r].i)
  BY DEF RunIsSound, BatchIsSound, IsIn
<1>3. /\ step' \in [Runs -> StepRecords \cup {NoStep}]
      /\ result' \in [Runs -> {"none", "running", "ok", "failed"}]
      /\ step[r].what = "closed" => result'[r] = "ok"
      /\ step[r].what # "closed" =>
            /\ result'[r] = "running"
            /\ step'[r] = After(kind[r], step[r], matched[r])
            /\ step'[r] \in StepRecords
  BY <1>1, <1>2, GoesOn DEF RunIsSound
<1>4. BenchmarkTypeOK'
  BY <1>3 DEF BenchmarkTypeOK
<1>5. Path(r)' = Path(r) /\ (\A d \in Databases : Own(r, d)' = Own(r, d))
      /\ (kind[r] \in Kinds)' /\ Path(r) \in Databases
  BY <1>1, PathIsDatabase DEF Path, Own
<1>6. /\ HighScores(Own(r, Path(r)))' = HighScores(Own(r, Path(r)))
      /\ HighScores(table[Path(r)])' = HighScores(table[Path(r)])
  BY <1>5 DEF HighScores
<1>7. Records \in Nat
  BY BenchmarkAssumption DEF BenchmarkAssumption
<1>8. CASE step[r].what = "closed"
  <2>1. /\ \A whats : ~IsIn(r, whats)'
        /\ \A whats : "closed" \notin whats => IsPast(r, whats) /\ IsPast(r, whats)'
        /\ result'[r] = "ok"
    BY <1>3, <1>8 DEF IsIn, IsPast
  <2>2. "closed" \notin BeforeCommit \cup Querying
    BY DEF BeforeCommit, Querying
  <2>3. DatabaseIsHeld(r)' /\ StepIsSound(r)' /\ BatchIsSound(r)'
    BY <1>8, <2>1 DEF DatabaseIsHeld, StepIsSound, BatchIsSound, RunIsSound, IsIn
  <2>4. RecordsAreSound(r)'
    BY <1>5, <2>1, <2>2 DEF RecordsAreSound, RunIsSound
  <2>5. CountIsSound(r)'
    BY <1>5, <1>6, <2>1, <2>2 DEF CountIsSound, RunIsSound, Querying
  <2> QED
    BY <1>4, <2>3, <2>4, <2>5 DEF RunIsSound
<1>9. ASSUME step[r].what # "closed" PROVE RunIsSound(r)'
  <2> DEFINE next == step'[r]
  <2>1. /\ result'[r] = "running" /\ next \in StepRecords /\ next.what \in Whats /\ next.i \in Nat
        /\ next = After(kind[r], step[r], matched[r])
    BY <1>3, <1>9 DEF StepRecords
  <2>2. /\ \A whats : IsIn(r, whats) <=> step[r].what \in whats
        /\ \A whats : IsIn(r, whats)' <=> next.what \in whats
        /\ \A whats : IsPast(r, whats) <=> step[r].what \notin whats
        /\ \A whats : IsPast(r, whats)' <=> next.what \notin whats
    BY <2>1 DEF IsIn, IsPast
  <2>3. /\ step[r].what \in BeforeCommit => next.what \in BeforeCommit \ {"open", "commit"}
                                              \/ (next.what = "commit" /\ Records = 0)
        /\ step[r].what \in {"starting", "ingestion"} => next.what \notin {"inserted", "put", "commit"}
        /\ step[r].what = "begin_write" => /\ next.what \in {"inserted", "put", "commit"}
                                           /\ next.what # "commit" => next.i = 0 /\ 0 < Records
        /\ step[r].what = "inserted" => next.what = "put" /\ next.i = step[r].i
    <3>1. step[r].what \in BeforeCommit => step[r].what \in {"starting", "ingestion", "begin_write", "inserted"}
      BY DEF BeforeCommit
    <3>2. step[r].what = "begin_write" => next = Ingest(0)
      BY <1>1, <1>2, <2>1, StepsBeforeCommit DEF BeforeCommit
    <3>3. /\ 0 = Records => Ingest(0).what = "commit"
          /\ 0 # Records => Ingest(0).what \in {"inserted", "put"} /\ Ingest(0).i = 0
      BY <1>7, Ingesting
    <3>4. /\ step[r].what = "starting" => next.what = "ingestion"
          /\ step[r].what = "ingestion" => next.what = "begin_write"
          /\ step[r].what = "inserted" => next.what = "put" /\ next.i = step[r].i
      BY <1>1, <1>2, <2>1, StepsBeforeCommit DEF BeforeCommit
    <3> QED
      BY <1>7, <3>1, <3>2, <3>3, <3>4 DEF BeforeCommit
  <2>4. /\ step[r].what \in Querying /\ kind[r] = "sqlite"
              => next.what \in (IF step[r].what = "ingested" THEN {"select"} ELSE {"matched", "queried"})
        /\ step[r].what \in Querying /\ kind[r] # "sqlite"
              => next = LookUp(matched[r])
    <3>1. step[r].what \in Querying => step[r].what \in {"ingested", "matched"}
      BY DEF Querying
    <3>2. step[r].what = "ingested" => matched[r] = 0
      BY <2>2 DEF RunIsSound, CountIsSound
    <3> QED
      BY <1>1, <2>1, <3>1, <3>2, StepsQuerying
  <2>5. step[r].what \in Queried => next.what \in Queried \ {"closed"}
    BY <1>1, <1>9, <2>1, StepsQueried
  <2>6. Stride \in Nat \ {0} /\ Stride * matched[r] \in Nat
    BY <1>1, StrideIsPositive
  <2>7. /\ step[r].what \in Querying /\ kind[r] # "sqlite" /\ Stride * matched[r] < Records
              => next.what = "get" /\ next.i = Stride * matched[r]
        /\ step[r].what \in Querying /\ kind[r] # "sqlite" /\ ~(Stride * matched[r] < Records)
              => next.what = "queried" /\ next.i = matched[r]
    BY <1>1, <2>4, LookingUp
  <2> HIDE DEF next
  <2>8. step[r].what \in BeforeCommit \/ step[r].what \in Querying \/ step[r].what \in Queried
    BY <1>1 DEF Whats
  <2>9. StepIsSound(r)'
    <3>1. (next.what = "get" => kind[r] # "sqlite") /\ (next.what = "select" => kind[r] = "sqlite")
          /\ next.what # "closed"
      BY <2>3, <2>4, <2>5, <2>7, <2>8 DEF BeforeCommit, Queried
    <3> QED
      BY <1>1, <2>1, <3>1 DEF StepIsSound, next
  <2>10. DatabaseIsHeld(r)'
    <3>1. next.what \notin {"open", "closed"} /\ step[r].what \notin {"open", "closed"}
      BY <1>9, <2>3, <2>4, <2>5, <2>7, <2>8 DEF BeforeCommit, Queried
    <3> QED
      BY <1>1, <1>5, <2>1, <2>2, <3>1 DEF DatabaseIsHeld, RunIsSound
  <2>11. BatchIsSound(r)'
    <3>1. CASE step[r].what \in BeforeCommit
      <4>1. step[r].what # "inserted" => batch[r] = {}
        BY <2>2 DEF RunIsSound, BatchIsSound
      <4>2. First(r, 0) = {}
        BY NextRecord
      <4> QED
        BY <1>2, <1>7, <2>2, <2>3, <3>1, <4>1, <4>2 DEF BatchIsSound, BeforeCommit, next
    <3>2. CASE step[r].what \notin BeforeCommit
      <4>1. next.what \notin {"inserted", "put", "commit"}
        BY <2>4, <2>5, <2>7, <2>8, <3>2 DEF Queried
      <4>2. batch[r] = {}
        BY <2>2, <3>2 DEF RunIsSound, BatchIsSound, BeforeCommit
      <4> QED
        BY <2>2, <4>1, <4>2 DEF BatchIsSound
    <3> QED
      BY <3>1, <3>2
  <2>12. step[r].what \in BeforeCommit <=> next.what \in BeforeCommit
    BY <2>3, <2>4, <2>5, <2>7, <2>8 DEF BeforeCommit, Querying, Queried
  <2>13. RecordsAreSound(r)'
    BY <1>5, <2>1, <2>2, <2>12 DEF RunIsSound, RecordsAreSound
  <2>14. CountIsSound(r)'
    <3>1. CASE step[r].what \in BeforeCommit
      <4>1. next.what \in BeforeCommit /\ next.what # "get" /\ matched[r] = 0 /\ matched'[r] = 0
        BY <2>2, <2>12, <3>1 DEF RunIsSound, CountIsSound, BeforeCommit
      <4> QED
        BY <2>1, <2>2, <4>1 DEF CountIsSound, next
    <3>2. CASE step[r].what \in Querying /\ kind[r] = "sqlite"
      <4>1. next.what = "select" <=> step[r].what = "ingested"
        BY <2>4, <3>2
      <4>2. next.what \in {"select", "matched", "queried"}
        BY <2>4, <3>2
      <4>3. matched'[r] = matched[r]
        OBVIOUS
      <4>4. next.what = "select" => matched[r] = 0
        BY <2>2, <4>1 DEF RunIsSound, CountIsSound
      <4>5. next.what # "select" => /\ HighScores(Own(r, Path(r))) <= matched[r]
                                    /\ matched[r] <= HighScores(table[Path(r)])
        <5>1. step[r].what \in Querying => step[r].what \in {"ingested", "matched"}
          BY DEF Querying
        <5> QED
          BY <2>2, <3>2, <4>1, <5>1 DEF RunIsSound, CountIsSound, BeforeCommit
      <4> QED
        BY <1>6, <2>1, <2>2, <3>2, <4>2, <4>3, <4>4, <4>5 DEF CountIsSound, BeforeCommit, next
    <3>4. CASE step[r].what \in Querying /\ kind[r] # "sqlite"
      <4>1. /\ next.what = "get" => next.i = Stride * matched[r] /\ next.i < Records
            /\ next.what = "queried" => Records <= Stride * matched[r]
            /\ next.what \in {"get", "queried"}
        BY <1>7, <2>6, <2>7, <3>4
      <4>2. next.what \notin BeforeCommit \cup {"ingested", "select"}
        BY <4>1 DEF BeforeCommit
      <4>3. IsPast(r, BeforeCommit \cup Querying)' => next.what = "queried"
        BY <2>2, <4>1 DEF Querying
      <4>4. matched[r] > 0 => Stride * (matched[r] - 1) < Records
        BY <3>4 DEF RunIsSound, CountIsSound
      <4> QED
        BY <2>1, <2>2, <3>4, <4>1, <4>2, <4>3, <4>4 DEF CountIsSound, next
    <3>3. CASE step[r].what \in Queried
      <4>1. next.what \notin BeforeCommit \cup Querying /\ step[r].what \notin BeforeCommit \cup Querying
        BY <2>5, <3>3 DEF Queried, BeforeCommit, Querying
      <4> QED
        BY <1>6, <2>1, <2>2, <4>1 DEF RunIsSound, CountIsSound, Querying
    <3> QED
      BY <2>8, <3>1, <3>2, <3>3, <3>4
  <2> QED
    BY <2>9, <2>10, <2>11, <2>13, <2>14 DEF RunIsSound
<1> QED
  BY <1>4, <1>8, <1>9

\* Opening the database: nobody else has it open.
LEMMA OpenStep ==
    ASSUME BenchmarkTypeOK, NEW r \in Runs, RunIsSound(r), result[r] = "running",
           step[r].what = "open", Effect(r, step[r]), GoOn(r), UNCHANGED kind
    PROVE  BenchmarkTypeOK' /\ RunIsSound(r)'
<1>1. /\ kind[r] \in Kinds /\ step[r] \in StepRecords /\ Path(r) \in Databases
      /\ matched[r] \in Nat
  BY PathIsDatabase DEF RunIsSound, StepIsSound, BenchmarkTypeOK
<1>2. /\ opened[Path(r)] = None /\ opened' = [opened EXCEPT ![Path(r)] = r]
      /\ UNCHANGED <<matched, batch, table>>
  BY DEF Effect
<1>3. /\ step' \in [Runs -> StepRecords \cup {NoStep}]
      /\ result' \in [Runs -> {"none", "running", "ok", "failed"}]
      /\ result'[r] = "running" /\ step'[r] \in StepRecords
      /\ step'[r] = After(kind[r], step[r], matched[r])
  BY <1>1, <1>2, GoesOn DEF RunIsSound
<1>4. BenchmarkTypeOK'
  BY <1>1, <1>2, <1>3 DEF BenchmarkTypeOK
<1>5. step'[r].what = "starting"
  BY <1>1, <1>3, StepsBeforeCommit DEF BeforeCommit
<1>6. /\ \A whats : IsIn(r, whats) <=> "open" \in whats
      /\ \A whats : IsIn(r, whats)' <=> "starting" \in whats
      /\ \A whats : IsPast(r, whats)' <=> "starting" \notin whats
  BY <1>3, <1>5 DEF IsIn, IsPast
<1>7. /\ Path(r)' = Path(r) /\ \A d \in Databases : Own(r, d)' = Own(r, d)
      /\ {"open", "starting"} \subseteq BeforeCommit /\ "starting" \in Whats
  BY <1>2 DEF Path, Own, BeforeCommit, Whats
<1>8. StepIsSound(r)' /\ BatchIsSound(r)' /\ RecordsAreSound(r)' /\ CountIsSound(r)'
  <2>1. StepIsSound(r)'
    BY <1>1, <1>3, <1>5 DEF StepIsSound
  <2>2. BatchIsSound(r)'
    BY <1>2, <1>6 DEF BatchIsSound, RunIsSound
  <2>3. RecordsAreSound(r)'
    BY <1>3, <1>6, <1>7 DEF RecordsAreSound, RunIsSound
  <2>4. CountIsSound(r)'
    BY <1>2, <1>3, <1>6, <1>7 DEF CountIsSound, RunIsSound
  <2> QED
    BY <2>1, <2>2, <2>3, <2>4
<1>9. DatabaseIsHeld(r)'
  <2>1. \A d \in Databases : opened[d] # r
    BY <1>6 DEF RunIsSound, DatabaseIsHeld
  <2>2. \A d \in Databases : opened'[d] = r <=> d = Path(r)
    BY <1>1, <1>2, <2>1 DEF BenchmarkTypeOK
  <2> QED
    BY <1>6, <1>7, <2>2 DEF DatabaseIsHeld
<1> QED
  BY <1>4, <1>8, <1>9 DEF RunIsSound

\* A record is put: one more in the batch.
LEMMA PutStep ==
    ASSUME BenchmarkTypeOK, NEW r \in Runs, RunIsSound(r), result[r] = "running",
           step[r].what = "put", Effect(r, step[r]), GoOn(r), UNCHANGED kind
    PROVE  BenchmarkTypeOK' /\ RunIsSound(r)'
<1> DEFINE i == step[r].i
<1>1. /\ kind[r] \in Kinds /\ step[r] \in StepRecords /\ i \in Nat /\ i < Records
      /\ matched[r] \in Nat /\ Records \in Nat /\ batch[r] = First(r, i)
  BY BenchmarkAssumption DEF RunIsSound, StepIsSound, BatchIsSound, IsIn, StepRecords,
     BenchmarkTypeOK, BenchmarkAssumption
<1>2. /\ batch' = [batch EXCEPT ![r] = @ \cup {<<r, i>>}]
      /\ UNCHANGED <<matched, opened, table>>
  BY DEF Effect
<1>3. /\ step' \in [Runs -> StepRecords \cup {NoStep}]
      /\ result' \in [Runs -> {"none", "running", "ok", "failed"}]
      /\ result'[r] = "running" /\ step'[r] \in StepRecords
      /\ step'[r] = After(kind[r], step[r], matched[r])
  BY <1>1, <1>2, GoesOn DEF RunIsSound
<1>4. BenchmarkTypeOK'
  <2>1. <<r, i>> \in Runs \X Nat
    BY <1>1
  <2>2. batch[r] \cup {<<r, i>>} \in SUBSET (Runs \X Nat)
    BY <2>1 DEF BenchmarkTypeOK
  <2>3. batch' \in [Runs -> SUBSET (Runs \X Nat)]
    BY <1>2, <2>2 DEF BenchmarkTypeOK
  <2> QED
    BY <1>2, <1>3, <2>3 DEF BenchmarkTypeOK
<1>5. step'[r] = Ingest(i + 1)
  BY <1>1, <1>3, StepsBeforeCommit DEF BeforeCommit
<1>6. /\ i + 1 = Records => step'[r].what = "commit"
      /\ i + 1 # Records => step'[r].what \in {"inserted", "put"} /\ step'[r].i = i + 1
  BY <1>1, <1>5, Ingesting
<1>7. /\ step'[r].what \in {"inserted", "put", "commit"}
      /\ \A whats : IsIn(r, whats) <=> "put" \in whats
      /\ \A whats : IsIn(r, whats)' <=> step'[r].what \in whats
      /\ \A whats : IsPast(r, whats)' <=> step'[r].what \notin whats
  BY <1>3, <1>6 DEF IsIn, IsPast
<1>8. /\ Path(r)' = Path(r) /\ (\A d \in Databases : Own(r, d)' = Own(r, d))
      /\ {"inserted", "put", "commit"} \subseteq BeforeCommit
  BY <1>2 DEF Path, Own, BeforeCommit
<1>9. batch'[r] = First(r, i + 1)
  BY <1>1, <1>2, NextRecord DEF BenchmarkTypeOK
<1>10. StepIsSound(r)' /\ DatabaseIsHeld(r)' /\ BatchIsSound(r)' /\ RecordsAreSound(r)'
       /\ CountIsSound(r)'
  <2>1. StepIsSound(r)'
    BY <1>1, <1>3, <1>7 DEF StepIsSound
  <2>2. BatchIsSound(r)'
    BY <1>1, <1>6, <1>7, <1>9 DEF BatchIsSound
  <2>3. RecordsAreSound(r)'
    BY <1>3, <1>7, <1>8 DEF RecordsAreSound, RunIsSound
  <2>4. CountIsSound(r)'
    BY <1>2, <1>3, <1>7, <1>8 DEF CountIsSound, RunIsSound
  <2>5. DatabaseIsHeld(r)'
    <3>1. {"inserted", "put", "commit"} \subseteq Whats \ {"open", "closed"}
      BY DEF Whats, BeforeCommit
    <3> QED
      BY <1>2, <1>7, <1>8, <3>1 DEF DatabaseIsHeld, RunIsSound
  <2> QED
    BY <2>1, <2>2, <2>3, <2>4, <2>5
<1> QED
  BY <1>4, <1>10 DEF RunIsSound

\* The commit: the whole batch is in the table.
LEMMA CommitStep ==
    ASSUME BenchmarkTypeOK, NEW r \in Runs, RunIsSound(r), result[r] = "running",
           step[r].what = "commit", Effect(r, step[r]), GoOn(r), UNCHANGED kind
    PROVE  /\ BenchmarkTypeOK' /\ RunIsSound(r)'
           /\ \A d \in Databases, q \in Runs : /\ table[d] \subseteq table'[d]
                                               /\ q # r => Own(q, d)' = Own(q, d)
<1>1. /\ kind[r] \in Kinds /\ step[r] \in StepRecords /\ Path(r) \in Databases
      /\ matched[r] \in Nat /\ Records \in Nat /\ batch[r] = First(r, Records)
  BY BenchmarkAssumption, PathIsDatabase DEF RunIsSound, StepIsSound, BatchIsSound, IsIn,
     BenchmarkTypeOK, BenchmarkAssumption
<1>2. /\ table' = [table EXCEPT ![Path(r)] = @ \cup First(r, Records)]
      /\ batch' = [batch EXCEPT ![r] = {}]
      /\ UNCHANGED <<matched, opened>>
  BY <1>1 DEF Effect
<1>3. /\ step' \in [Runs -> StepRecords \cup {NoStep}]
      /\ result' \in [Runs -> {"none", "running", "ok", "failed"}]
      /\ result'[r] = "running" /\ step'[r] \in StepRecords
      /\ step'[r] = After(kind[r], step[r], matched[r])
  BY <1>1, <1>2, GoesOn DEF RunIsSound
<1>4. \A d \in Databases : table'[d] = IF d = Path(r) THEN table[d] \cup First(r, Records)
                                       ELSE table[d]
  BY <1>2 DEF BenchmarkTypeOK
<1>5. BenchmarkTypeOK'
  <2>1. First(r, Records) \subseteq Runs \X Nat
    BY <1>1 DEF First
  <2>2. \A d \in Databases : IsFiniteSet(table'[d])
    <3>1. IsFiniteSet(First(r, Records))
      BY <1>1, FirstCount
    <3>2. \A d \in Databases : IsFiniteSet(table[d])
      BY DEF BenchmarkTypeOK
    <3> QED
      BY <1>4, <3>1, <3>2, FS_Union
  <2>3. table' \in [Databases -> SUBSET (Runs \X Nat)]
    BY <1>2, <2>1 DEF BenchmarkTypeOK
  <2>4. batch' \in [Runs -> SUBSET (Runs \X Nat)]
    BY <1>2 DEF BenchmarkTypeOK
  <2> QED
    BY <1>2, <1>3, <2>2, <2>3, <2>4 DEF BenchmarkTypeOK
<1>6. step'[r].what = "ingested"
  BY <1>1, <1>3, StepsBeforeCommit DEF BeforeCommit
<1>7. /\ \A whats : IsIn(r, whats) <=> "commit" \in whats
      /\ \A whats : IsIn(r, whats)' <=> "ingested" \in whats
      /\ \A whats : IsPast(r, whats)' <=> "ingested" \notin whats
  BY <1>3, <1>6 DEF IsIn, IsPast
<1>8. /\ Path(r)' = Path(r)
      /\ "commit" \in BeforeCommit /\ "ingested" \notin BeforeCommit /\ "ingested" \in Querying
      /\ {"commit", "ingested"} \subseteq Whats \ {"open", "closed"}
  BY DEF Path, BeforeCommit, Querying, Whats
<1>9. \A d \in Databases, q \in Runs :
         /\ q # r => Own(q, d)' = Own(q, d)
         /\ d # Path(r) => Own(q, d)' = Own(q, d)
         /\ d = Path(r) => Own(r, d)' = Own(r, d) \cup First(r, Records)
  BY <1>4 DEF Own, First
<1>10. \A d \in Databases : Own(r, d) = {}
  BY <1>7, <1>8 DEF RunIsSound, RecordsAreSound
<1>11. StepIsSound(r)' /\ DatabaseIsHeld(r)' /\ BatchIsSound(r)' /\ RecordsAreSound(r)'
       /\ CountIsSound(r)'
  <2>1. StepIsSound(r)'
    BY <1>1, <1>3, <1>6 DEF StepIsSound
  <2>2. BatchIsSound(r)'
    BY <1>2, <1>7 DEF BatchIsSound, BenchmarkTypeOK
  <2>3. RecordsAreSound(r)'
    BY <1>1, <1>3, <1>7, <1>8, <1>9, <1>10 DEF RecordsAreSound
  <2>4. CountIsSound(r)'
    <3>1. matched'[r] = 0
      BY <1>2, <1>7, <1>8 DEF RunIsSound, CountIsSound
    <3> QED
      BY <1>3, <1>7, <1>8, <3>1 DEF CountIsSound
  <2>5. DatabaseIsHeld(r)'
    BY <1>2, <1>7, <1>8 DEF DatabaseIsHeld, RunIsSound
  <2> QED
    BY <2>1, <2>2, <2>3, <2>4, <2>5
<1> QED
  BY <1>4, <1>5, <1>9, <1>11 DEF RunIsSound

\* A lookup that hits: one more match, in the range of the records.
LEMMA GetStep ==
    ASSUME BenchmarkTypeOK, NEW r \in Runs, RunIsSound(r), result[r] = "running",
           step[r].what = "get", Effect(r, step[r]), GoOn(r), UNCHANGED kind
    PROVE  BenchmarkTypeOK' /\ RunIsSound(r)'
<1> DEFINE n == matched[r]
<1>1. /\ kind[r] \in Kinds /\ step[r] \in StepRecords /\ Path(r) \in Databases
      /\ n \in Nat /\ Records \in Nat /\ kind[r] # "sqlite"
      /\ Stride \in Nat \ {0} /\ Stride * n < Records
  BY BenchmarkAssumption, PathIsDatabase, StrideIsPositive DEF RunIsSound, StepIsSound, CountIsSound, IsIn,
     BenchmarkTypeOK, BenchmarkAssumption
<1>2. /\ matched' = [matched EXCEPT ![r] = n + 1]
      /\ UNCHANGED <<batch, opened, table>>
  BY DEF Effect
<1>3. matched'[r] = n + 1 /\ n + 1 \in Nat /\ matched' \in [Runs -> Nat]
  BY <1>1, <1>2 DEF BenchmarkTypeOK
<1>4. /\ step' \in [Runs -> StepRecords \cup {NoStep}]
      /\ result' \in [Runs -> {"none", "running", "ok", "failed"}]
      /\ result'[r] = "running" /\ step'[r] \in StepRecords
      /\ step'[r] = After(kind[r], step[r], n + 1)
  BY <1>1, <1>2, <1>3, GoesOn DEF RunIsSound
<1>5. BenchmarkTypeOK'
  BY <1>2, <1>3, <1>4 DEF BenchmarkTypeOK
<1> HIDE DEF n
<1>6. step'[r].what = "matched" \/ step'[r] = LookUp(n + 1)
  BY <1>1, <1>3, <1>4, StepsQuerying DEF Querying
<1>7. Stride * (n + 1) \in Nat
  BY <1>1, <1>3
<1>8. \/ step'[r].what = "matched"
      \/ step'[r].what = "get" /\ step'[r].i = Stride * (n + 1) /\ step'[r].i < Records
      \/ step'[r].what = "queried" /\ Records <= Stride * (n + 1)
  BY <1>1, <1>3, <1>6, <1>7, LookingUp
<1>9. /\ \A whats : IsIn(r, whats) <=> "get" \in whats
      /\ \A whats : IsIn(r, whats)' <=> step'[r].what \in whats
      /\ \A whats : IsPast(r, whats) <=> "get" \notin whats
      /\ \A whats : IsPast(r, whats)' <=> step'[r].what \notin whats
  BY <1>4 DEF IsIn, IsPast
<1>10. /\ Path(r)' = Path(r) /\ (\A d \in Databases : Own(r, d)' = Own(r, d))
       /\ {"get", "matched", "queried"} \subseteq Whats \ {"open", "closed"}
       /\ BeforeCommit \cap {"get", "matched", "queried"} = {}
  BY <1>2 DEF Path, Own, Whats, Querying, Queried, BeforeCommit
<1>11. StepIsSound(r)' /\ DatabaseIsHeld(r)' /\ BatchIsSound(r)' /\ RecordsAreSound(r)'
       /\ CountIsSound(r)'
  <2>1. StepIsSound(r)'
    BY <1>1, <1>4, <1>8 DEF StepIsSound
  <2>2. BatchIsSound(r)'
    BY <1>2, <1>8, <1>9 DEF RunIsSound, BatchIsSound
  <2>3. RecordsAreSound(r)'
    BY <1>1, <1>4, <1>8, <1>9, <1>10 DEF RunIsSound, RecordsAreSound
  <2>4. CountIsSound(r)'
    <3>1. ~IsIn(r, BeforeCommit \cup {"ingested", "select"})' /\ result'[r] # "none"
      BY <1>4, <1>8, <1>9, <1>10
    <3>2. Stride * ((n + 1) - 1) < Records
      BY <1>1
    <3>3. IsPast(r, BeforeCommit \cup Querying)' => step'[r].what = "queried"
      BY <1>8, <1>9 DEF Querying
    <3>4. IsIn(r, {"get"})' => step'[r].i = Stride * (n + 1) /\ step'[r].i < Records
      BY <1>8, <1>9
    <3>5. IsPast(r, BeforeCommit \cup Querying)' => Records <= Stride * (n + 1)
      BY <1>8, <3>3
    <3>6. kind'[r] # "sqlite"
      BY <1>1
    <3> QED
      BY <1>3, <3>1, <3>2, <3>4, <3>5, <3>6 DEF CountIsSound
  <2>5. DatabaseIsHeld(r)'
    BY <1>2, <1>8, <1>9, <1>10 DEF RunIsSound, DatabaseIsHeld
  <2> QED
    BY <2>1, <2>2, <2>3, <2>4, <2>5
<1> QED
  BY <1>5, <1>11 DEF RunIsSound

\* SQLite's answer: the rows of the run are among those it counts.
LEMMA SelectStep ==
    ASSUME BenchmarkTypeOK, NEW r \in Runs, RunIsSound(r), result[r] = "running",
           step[r].what = "select", Effect(r, step[r]), GoOn(r), UNCHANGED kind
    PROVE  BenchmarkTypeOK' /\ RunIsSound(r)'
<1> DEFINE n == HighScores(table[Path(r)])
<1>1. /\ kind[r] \in Kinds /\ step[r] \in StepRecords /\ Path(r) \in Databases
      /\ kind[r] = "sqlite"
  BY PathIsDatabase DEF RunIsSound, StepIsSound
<1>2. /\ matched' = [matched EXCEPT ![r] = n]
      /\ UNCHANGED <<batch, opened, table>>
  BY DEF Effect
<1>3. /\ Path(r)' = Path(r) /\ (\A d \in Databases : Own(r, d)' = Own(r, d))
      /\ {"select", "matched", "queried"} \subseteq Whats \ {"open", "closed"}
      /\ BeforeCommit \cap {"select", "matched", "queried"} = {}
  BY <1>2 DEF Path, Own, Whats, Querying, Queried, BeforeCommit
<1>4. n \in Nat /\ HighScores(Own(r, Path(r))) <= n
  <2>1. IsFiniteSet(table[Path(r)]) /\ Own(r, Path(r)) \subseteq table[Path(r)]
    BY <1>1 DEF BenchmarkTypeOK, Own
  <2> QED
    BY <2>1, HighScoresGrow
<1>5. /\ HighScores(Own(r, Path(r)))' = HighScores(Own(r, Path(r)))
      /\ HighScores(table[Path(r)])' = n
  BY <1>1, <1>2, <1>3 DEF HighScores
<1> HIDE DEF n
<1>6. matched'[r] = n /\ matched' \in [Runs -> Nat]
  BY <1>2, <1>4 DEF BenchmarkTypeOK
<1>7. /\ step' \in [Runs -> StepRecords \cup {NoStep}]
      /\ result' \in [Runs -> {"none", "running", "ok", "failed"}]
      /\ result'[r] = "running" /\ step'[r] \in StepRecords
      /\ step'[r] = After(kind[r], step[r], n)
  BY <1>1, <1>4, <1>6, GoesOn DEF RunIsSound
<1>8. BenchmarkTypeOK'
  BY <1>2, <1>6, <1>7 DEF BenchmarkTypeOK
<1>9. step'[r].what \in {"matched", "queried"}
  BY <1>1, <1>4, <1>7, StepsQuerying DEF Querying
<1>10. /\ \A whats : IsIn(r, whats) <=> "select" \in whats
       /\ \A whats : IsIn(r, whats)' <=> step'[r].what \in whats
       /\ \A whats : IsPast(r, whats) <=> "select" \notin whats
       /\ \A whats : IsPast(r, whats)' <=> step'[r].what \notin whats
  BY <1>7 DEF IsIn, IsPast
<1>11. StepIsSound(r)' /\ DatabaseIsHeld(r)' /\ BatchIsSound(r)' /\ RecordsAreSound(r)'
       /\ CountIsSound(r)'
  <2>1. StepIsSound(r)'
    BY <1>1, <1>7, <1>9 DEF StepIsSound
  <2>2. BatchIsSound(r)'
    BY <1>2, <1>9, <1>10 DEF RunIsSound, BatchIsSound
  <2>3. RecordsAreSound(r)'
    BY <1>1, <1>3, <1>7, <1>9, <1>10 DEF RunIsSound, RecordsAreSound
  <2>4. CountIsSound(r)'
    <3>1. ~IsIn(r, BeforeCommit \cup {"ingested", "select"})' /\ result'[r] # "none"
      BY <1>3, <1>7, <1>9, <1>10
    <3>2. kind'[r] = "sqlite"
      BY <1>1
    <3> QED
      BY <1>4, <1>5, <1>6, <3>1, <3>2 DEF CountIsSound
  <2>5. DatabaseIsHeld(r)'
    BY <1>2, <1>3, <1>9, <1>10 DEF RunIsSound, DatabaseIsHeld
  <2> QED
    BY <2>1, <2>2, <2>3, <2>4, <2>5
<1> QED
  BY <1>8, <1>11 DEF RunIsSound

\* Closing the database, before the last report.
LEMMA CloseStep ==
    ASSUME BenchmarkTypeOK, NEW r \in Runs, RunIsSound(r), result[r] = "running",
           step[r].what = "close", Effect(r, step[r]), GoOn(r), UNCHANGED kind
    PROVE  BenchmarkTypeOK' /\ RunIsSound(r)' /\ opened[Path(r)] = r
<1>1. /\ kind[r] \in Kinds /\ step[r] \in StepRecords /\ Path(r) \in Databases
      /\ matched[r] \in Nat
  BY PathIsDatabase DEF RunIsSound, StepIsSound, BenchmarkTypeOK
<1>2. /\ opened' = [opened EXCEPT ![Path(r)] = None]
      /\ UNCHANGED <<matched, batch, table>>
  BY DEF Effect
<1>3. /\ step' \in [Runs -> StepRecords \cup {NoStep}]
      /\ result' \in [Runs -> {"none", "running", "ok", "failed"}]
      /\ result'[r] = "running" /\ step'[r] \in StepRecords
      /\ step'[r] = After(kind[r], step[r], matched[r])
  BY <1>1, <1>2, GoesOn DEF RunIsSound
<1>4. BenchmarkTypeOK'
  BY <1>1, <1>2, <1>3 DEF BenchmarkTypeOK
<1>5. step'[r].what = "closed" /\ step'[r].i = matched[r]
  BY <1>1, <1>3, StepsQueried DEF Queried
<1>6. /\ \A whats : IsIn(r, whats) <=> "close" \in whats
      /\ \A whats : IsIn(r, whats)' <=> "closed" \in whats
      /\ \A whats : IsPast(r, whats) <=> "close" \notin whats
      /\ \A whats : IsPast(r, whats)' <=> "closed" \notin whats
  BY <1>3, <1>5 DEF IsIn, IsPast
<1>7. /\ Path(r)' = Path(r) /\ \A d \in Databases : Own(r, d)' = Own(r, d)
      /\ {"close", "closed"} \subseteq Whats
      /\ (BeforeCommit \cup Querying) \cap {"close", "closed"} = {}
  BY <1>2 DEF Path, Own, Whats, Querying, Queried, BeforeCommit
<1>8. /\ HighScores(Own(r, Path(r)))' = HighScores(Own(r, Path(r)))
      /\ HighScores(table[Path(r)])' = HighScores(table[Path(r)])
  BY <1>1, <1>2, <1>7 DEF HighScores
<1>9. opened[Path(r)] = r /\ \A d \in Databases : opened[d] = r => d = Path(r)
  BY <1>1, <1>6, <1>7 DEF RunIsSound, DatabaseIsHeld
<1>10. StepIsSound(r)' /\ DatabaseIsHeld(r)' /\ BatchIsSound(r)' /\ RecordsAreSound(r)'
       /\ CountIsSound(r)'
  <2>1. StepIsSound(r)'
    BY <1>1, <1>2, <1>3, <1>5 DEF StepIsSound
  <2>2. BatchIsSound(r)'
    BY <1>2, <1>6 DEF RunIsSound, BatchIsSound
  <2>3. RecordsAreSound(r)'
    BY <1>1, <1>3, <1>6, <1>7 DEF RunIsSound, RecordsAreSound
  <2>4. CountIsSound(r)'
    BY <1>2, <1>3, <1>6, <1>7, <1>8 DEF RunIsSound, CountIsSound, Querying
  <2>5. DatabaseIsHeld(r)'
    <3>1. \A d \in Databases : opened'[d] # r
      BY <1>2, <1>9, BenchmarkAssumption DEF BenchmarkTypeOK, BenchmarkAssumption
    <3> QED
      BY <1>6, <3>1 DEF DatabaseIsHeld
  <2> QED
    BY <2>1, <2>2, <2>3, <2>4, <2>5
<1> QED
  BY <1>4, <1>9, <1>10 DEF RunIsSound

\* A failed run has closed its database and keeps no transaction.
LEMMA GivenUp ==
    ASSUME BenchmarkTypeOK, NEW r \in Runs, RunIsSound(r), result[r] = "running", GiveUp(r)
    PROVE  BenchmarkTypeOK' /\ RunIsSound(r)'
<1>1. BenchmarkTypeOK'
  BY DEF GiveUp, BenchmarkTypeOK, NoStep
<1>2. /\ \A whats : ~IsIn(r, whats)' /\ ~IsPast(r, whats)'
      /\ result'[r] = "failed" /\ batch'[r] = {} /\ UNCHANGED <<kind, matched, table>>
      /\ \A d \in Databases : opened'[d] # r
  BY BenchmarkAssumption DEF GiveUp, IsIn, IsPast, BenchmarkTypeOK, BenchmarkAssumption
<1>3. \A d \in Databases : Own(r, d)' = Own(r, d)
  BY <1>2 DEF Own
<1>4. StepIsSound(r)' /\ DatabaseIsHeld(r)' /\ BatchIsSound(r)' /\ RecordsAreSound(r)'
  BY <1>2, <1>3 DEF RunIsSound, StepIsSound, DatabaseIsHeld, BatchIsSound, RecordsAreSound
<1>5. CountIsSound(r)'
  BY <1>2 DEF RunIsSound, CountIsSound
<1> QED
  BY <1>1, <1>4, <1>5 DEF RunIsSound

\* run_benchmark is called.
LEMMA Started ==
    ASSUME BenchmarkTypeOK, NEW r \in Runs, RunIsSound(r), result[r] = "none",
           NEW k \in Kinds, StartRun(r, k)
    PROVE  BenchmarkTypeOK' /\ RunIsSound(r)'
<1>1. /\ kind' = [kind EXCEPT ![r] = k]
      /\ step' = [step EXCEPT ![r] = Call("open", 0)]
      /\ result' = [result EXCEPT ![r] = "running"]
      /\ UNCHANGED <<matched, batch, opened, table>>
  BY DEF StartRun
<1>2. Call("open", 0) \in StepRecords /\ Call("open", 0).what = "open"
  BY MadeSteps DEF DatabaseCalls
<1>3. BenchmarkTypeOK'
  BY <1>1, <1>2 DEF BenchmarkTypeOK
<1>4. kind'[r] = k /\ result'[r] = "running" /\ step'[r] \in StepRecords /\ step'[r].what = "open"
  BY <1>1, <1>2 DEF BenchmarkTypeOK
<1>5. /\ \A whats : ~IsIn(r, whats)
      /\ \A whats : IsIn(r, whats)' <=> "open" \in whats
      /\ \A whats : IsPast(r, whats)' <=> "open" \notin whats
      /\ "open" \in BeforeCommit
  BY <1>4 DEF IsIn, IsPast, BeforeCommit
<1>6. \A d \in Databases : Own(r, d)' = Own(r, d)
  BY <1>1 DEF Own
<1>7. StepIsSound(r)' /\ DatabaseIsHeld(r)' /\ BatchIsSound(r)' /\ RecordsAreSound(r)'
       /\ CountIsSound(r)'
  <2>1. StepIsSound(r)'
    BY <1>4 DEF StepIsSound
  <2>2. BatchIsSound(r)'
    BY <1>1, <1>5 DEF RunIsSound, BatchIsSound
  <2>3. RecordsAreSound(r)'
    BY <1>4, <1>5, <1>6 DEF RunIsSound, RecordsAreSound
  <2>4. CountIsSound(r)'
    BY <1>1, <1>4, <1>5 DEF RunIsSound, CountIsSound
  <2>5. DatabaseIsHeld(r)'
    BY <1>1, <1>5 DEF RunIsSound, DatabaseIsHeld
  <2> QED
    BY <2>1, <2>2, <2>3, <2>4, <2>5
<1> QED
  BY <1>3, <1>7 DEF RunIsSound

-----------------------------------------------------------------------------
(* The invariant of the benchmarks.                                        *)

LEMMA BenchmarkStarts == BenchmarkInit => BenchmarkIInv
<1> SUFFICES ASSUME BenchmarkInit PROVE BenchmarkIInv
  OBVIOUS
<1>1. BenchmarkTypeOK
  BY FS_EmptySet DEF BenchmarkInit, BenchmarkTypeOK
<1>2. ASSUME NEW r \in Runs PROVE RunIsSound(r)
  <2>1. /\ result[r] = "none" /\ matched[r] = 0 /\ batch[r] = {}
        /\ \A d \in Databases : opened[d] # r /\ Own(r, d) = {}
        /\ \A whats : ~IsIn(r, whats) /\ ~IsPast(r, whats)
    BY BenchmarkAssumption DEF BenchmarkInit, Own, IsIn, IsPast, BenchmarkAssumption
  <2>2. StepIsSound(r) /\ DatabaseIsHeld(r) /\ BatchIsSound(r) /\ RecordsAreSound(r)
    BY <2>1 DEF StepIsSound, DatabaseIsHeld, BatchIsSound, RecordsAreSound
  <2>3. CountIsSound(r)
    BY <2>1 DEF CountIsSound
  <2> QED
    BY <2>2, <2>3 DEF RunIsSound
<1> QED
  BY <1>1, <1>2 DEF BenchmarkIInv

\* A call of the database that succeeds.
LEMMA CallKeeps ==
    ASSUME BenchmarkTypeOK, NEW r \in Runs, RunIsSound(r), CallSucceeds(r)
    PROVE  /\ BenchmarkTypeOK' /\ RunIsSound(r)'
           /\ UNCHANGED kind
           /\ \A q \in Runs \ {r} :
                 /\ step'[q] = step[q] /\ result'[q] = result[q]
                 /\ matched'[q] = matched[q] /\ batch'[q] = batch[q]
                 /\ \A d \in Databases : /\ opened'[d] = q <=> opened[d] = q
                                         /\ Own(q, d)' = Own(q, d)
                                         /\ table[d] \subseteq table'[d]
<1>1. result[r] = "running" /\ Effect(r, step[r]) /\ GoOn(r) /\ UNCHANGED kind
  BY DEF CallSucceeds, IsAt, Current
<1>2. \A q \in Runs \ {r} : step'[q] = step[q] /\ result'[q] = result[q]
  BY <1>1 DEF GoOn, BenchmarkTypeOK
<1>3. \A d \in Databases : table'[d] = table[d] => \A q \in Runs : Own(q, d)' = Own(q, d)
  BY DEF Own
<1>4. CASE step[r].what = "open"
  <2>1. /\ opened[Path(r)] = None /\ opened' = [opened EXCEPT ![Path(r)] = r]
        /\ UNCHANGED <<matched, batch, table>>
    BY <1>1, <1>4 DEF Effect
  <2>2. \A q \in Runs \ {r}, d \in Databases : opened'[d] = q <=> opened[d] = q
    BY <2>1, BenchmarkAssumption DEF BenchmarkTypeOK, BenchmarkAssumption
  <2> QED
    BY <1>1, <1>2, <1>3, <1>4, <2>1, <2>2, OpenStep
<1>5. CASE step[r].what = "put"
  <2>1. /\ \A q \in Runs \ {r} : batch'[q] = batch[q]
        /\ UNCHANGED <<matched, opened, table>>
    BY <1>1, <1>5 DEF Effect, BenchmarkTypeOK
  <2> QED
    BY <1>1, <1>2, <1>3, <1>5, <2>1, PutStep
<1>6. CASE step[r].what = "commit"
  <2>1. /\ \A q \in Runs \ {r} : batch'[q] = batch[q]
        /\ UNCHANGED <<matched, opened>>
    BY <1>1, <1>6 DEF Effect, BenchmarkTypeOK
  <2> QED
    BY <1>1, <1>2, <1>6, <2>1, CommitStep
<1>7. CASE step[r].what = "get"
  <2>1. /\ \A q \in Runs \ {r} : matched'[q] = matched[q]
        /\ UNCHANGED <<batch, opened, table>>
    BY <1>1, <1>7 DEF Effect, BenchmarkTypeOK
  <2> QED
    BY <1>1, <1>2, <1>3, <1>7, <2>1, GetStep
<1>8. CASE step[r].what = "select"
  <2>1. /\ \A q \in Runs \ {r} : matched'[q] = matched[q]
        /\ UNCHANGED <<batch, opened, table>>
    BY <1>1, <1>8 DEF Effect, BenchmarkTypeOK
  <2> QED
    BY <1>1, <1>2, <1>3, <1>8, <2>1, SelectStep
<1>9. CASE step[r].what = "close"
  <2>1. /\ opened' = [opened EXCEPT ![Path(r)] = None]
        /\ UNCHANGED <<matched, batch, table>>
    BY <1>1, <1>9 DEF Effect
  <2>2. BenchmarkTypeOK' /\ RunIsSound(r)' /\ opened[Path(r)] = r
    BY <1>1, <1>9, CloseStep
  <2>3. \A q \in Runs \ {r}, d \in Databases : opened'[d] = q <=> opened[d] = q
    BY <2>1, <2>2, BenchmarkAssumption DEF BenchmarkTypeOK, BenchmarkAssumption
  <2> QED
    BY <1>1, <1>2, <1>3, <2>1, <2>2, <2>3
<1>10. CASE step[r].what \notin {"open", "put", "commit", "get", "select", "close"}
  <2>1. UNCHANGED <<matched, batch, opened, table>>
    BY <1>1, <1>10 DEF Effect
  <2> QED
    BY <1>1, <1>2, <1>3, <1>10, <2>1, QuietStep
<1> QED
  BY <1>4, <1>5, <1>6, <1>7, <1>8, <1>9, <1>10

\* A step of one run keeps what holds of it, and is nothing to the others.
LEMMA RunKeeps ==
    ASSUME BenchmarkTypeOK, NEW r \in Runs, RunIsSound(r), BenchmarkStep(r)
    PROVE  /\ BenchmarkTypeOK' /\ RunIsSound(r)'
           /\ \A q \in Runs \ {r} :
                 /\ kind'[q] = kind[q] /\ step'[q] = step[q] /\ result'[q] = result[q]
                 /\ matched'[q] = matched[q] /\ batch'[q] = batch[q]
                 /\ \A d \in Databases : /\ opened'[d] = q <=> opened[d] = q
                                         /\ Own(q, d)' = Own(q, d)
                                         /\ table[d] \subseteq table'[d]
<1> DEFINE Kept == /\ BenchmarkTypeOK' /\ RunIsSound(r)'
                   /\ \A q \in Runs \ {r} :
                         /\ kind'[q] = kind[q] /\ step'[q] = step[q] /\ result'[q] = result[q]
                         /\ matched'[q] = matched[q] /\ batch'[q] = batch[q]
                         /\ \A d \in Databases : /\ opened'[d] = q <=> opened[d] = q
                                                 /\ Own(q, d)' = Own(q, d)
                                                 /\ table[d] \subseteq table'[d]
<1>1. ASSUME result[r] = "none", NEW k \in Kinds, StartRun(r, k) PROVE Kept
  <2>1. \A q \in Runs \ {r} : kind'[q] = kind[q] /\ step'[q] = step[q] /\ result'[q] = result[q]
    BY <1>1 DEF StartRun, BenchmarkTypeOK
  <2>2. UNCHANGED <<matched, batch, opened, table>>
    BY <1>1 DEF StartRun
  <2>3. \A q \in Runs, d \in Databases : Own(q, d)' = Own(q, d)
    BY <2>2 DEF Own
  <2>4. BenchmarkTypeOK' /\ RunIsSound(r)'
    BY <1>1, Started
  <2> QED
    BY <2>1, <2>2, <2>3, <2>4
<1>2. ASSUME CallSucceeds(r) PROVE Kept
  BY <1>2, CallKeeps
<1>3. ASSUME result[r] = "running", GiveUp(r) PROVE Kept
  <2>1. /\ UNCHANGED <<kind, matched, table>>
        /\ \A q \in Runs \ {r} : /\ step'[q] = step[q] /\ result'[q] = result[q]
                                 /\ batch'[q] = batch[q]
    BY <1>3 DEF GiveUp, BenchmarkTypeOK
  <2>2. \A q \in Runs \ {r}, d \in Databases : opened'[d] = q <=> opened[d] = q
    BY <1>3, BenchmarkAssumption DEF GiveUp, BenchmarkAssumption
  <2>3. \A q \in Runs, d \in Databases : Own(q, d)' = Own(q, d)
    BY <2>1 DEF Own
  <2>4. BenchmarkTypeOK' /\ RunIsSound(r)'
    BY <1>3, GivenUp
  <2> QED
    BY <2>1, <2>2, <2>3, <2>4
<1>4. ASSUME NEW ok \in BOOLEAN, ReportReturns(r, ok) PROVE Kept
  <2>1. /\ result[r] = "running" /\ Current(r).do # "call" /\ GoOn(r)
        /\ UNCHANGED <<kind, matched, batch, opened, table>>
    BY <1>4 DEF ReportReturns, IsAt
  <2>2. step[r].what \notin {"open", "put", "commit", "get", "select", "close"}
    <3>1. step[r] \in StepRecords /\ step[r].do # "call"
      BY <2>1 DEF RunIsSound, StepIsSound, Current
    <3> QED
      BY <3>1 DEF StepRecords, KindOf, DatabaseCalls
  <2>3. \A q \in Runs \ {r} : step'[q] = step[q] /\ result'[q] = result[q]
    BY <2>1 DEF GoOn, BenchmarkTypeOK
  <2>4. \A q \in Runs, d \in Databases : Own(q, d)' = Own(q, d)
    BY <2>1 DEF Own
  <2>5. BenchmarkTypeOK' /\ RunIsSound(r)'
    BY <2>1, <2>2, QuietStep
  <2> QED
    BY <2>1, <2>3, <2>4, <2>5
<1> QED
  BY <1>1, <1>2, <1>3, <1>4 DEF BenchmarkStep, CallFails, ReportFails, IsAt

LEMMA BenchmarkKeeps ==
    ASSUME BenchmarkIInv, NEW r \in Runs, BenchmarkStep(r)
    PROVE  BenchmarkIInv'
<1>1. BenchmarkTypeOK /\ \A q \in Runs : RunIsSound(q)
  BY DEF BenchmarkIInv
<1>2. BenchmarkTypeOK' /\ RunIsSound(r)'
  BY <1>1, RunKeeps
<1>3. ASSUME NEW q \in Runs, q # r PROVE RunIsSound(q)'
  <2>1. /\ kind'[q] = kind[q] /\ step'[q] = step[q] /\ result'[q] = result[q]
        /\ matched'[q] = matched[q] /\ batch'[q] = batch[q]
        /\ \A d \in Databases : /\ opened'[d] = q <=> opened[d] = q
                                /\ Own(q, d)' = Own(q, d)
                                /\ table[d] \subseteq table'[d]
    BY <1>1, <1>3, RunKeeps
  <2> QED
    BY <1>1, <1>2, <2>1, OthersAreSound
<1> QED
  BY <1>2, <1>3 DEF BenchmarkIInv

LEMMA BenchmarkStutters ==
    ASSUME BenchmarkIInv, UNCHANGED benchmarkVars PROVE BenchmarkIInv'
<1>1. UNCHANGED <<kind, step, result, matched, batch, opened, table>>
  BY DEF benchmarkVars
<1>2. BenchmarkTypeOK'
  BY <1>1 DEF BenchmarkIInv, BenchmarkTypeOK
<1>3. \A q \in Runs, d \in Databases : Own(q, d)' = Own(q, d)
  BY <1>1 DEF Own
<1>4. ASSUME NEW q \in Runs PROVE RunIsSound(q)'
  BY <1>1, <1>2, <1>3, OthersAreSound DEF BenchmarkIInv
<1> QED
  BY <1>2, <1>4 DEF BenchmarkIInv

LEMMA BenchmarkIsSafe == BenchmarkIInv => BenchmarkInv
<1> SUFFICES ASSUME BenchmarkIInv, NEW r \in Runs
             PROVE  /\ IsAt(r, "call") /\ Current(r).what = "get"
                          => <<r, Current(r).i>> \in table[Path(r)]
                    /\ result[r] = "ok"
                          => IF kind[r] # "sqlite" THEN matched[r] = expected_sample_count
                             ELSE /\ HighScores({e \in table[Path(r)] : e[1] = r}) <= matched[r]
                                  /\ matched[r] <= HighScores(table[Path(r)])
                    /\ \A d \in Databases :
                          LET own == {e \in table[d] : e[1] = r}
                          IN  own = {} \/ Cardinality(own) = Records
                    /\ batch[r] # {} => opened[Path(r)] = r
  BY DEF BenchmarkInv, LookupsHit, BatchesAreWhole
<1>1. RunIsSound(r) /\ matched[r] \in Nat /\ Records \in Nat
  BY BenchmarkAssumption DEF BenchmarkIInv, BenchmarkTypeOK, BenchmarkAssumption
<1>2. ASSUME IsAt(r, "call"), Current(r).what = "get"
      PROVE  <<r, Current(r).i>> \in table[Path(r)]
  <2>1. IsIn(r, {"get"}) /\ IsPast(r, BeforeCommit) /\ kind[r] # "sqlite" /\ step[r].i \in Nat
    BY <1>1, <1>2 DEF IsAt, Current, IsIn, IsPast, BeforeCommit, RunIsSound, StepIsSound, StepRecords
  <2>2. step[r].i < Records /\ Own(r, Path(r)) = First(r, Records)
    BY <1>1, <2>1 DEF RunIsSound, CountIsSound, RecordsAreSound
  <2>3. <<r, step[r].i>> \in First(r, Records)
    BY <1>1, <2>1, <2>2 DEF First
  <2> QED
    BY <2>2, <2>3 DEF Own, Current
<1>3. ASSUME result[r] = "ok", kind[r] # "sqlite"
      PROVE  matched[r] = expected_sample_count
  <2>1. IsPast(r, BeforeCommit \cup Querying)
    BY <1>3 DEF IsPast
  <2>2. Records <= Stride * matched[r] /\ (matched[r] > 0 => Stride * (matched[r] - 1) < Records)
    BY <1>1, <1>3, <2>1 DEF RunIsSound, CountIsSound
  <2> QED
    BY <1>1, <2>2, ExpectedCount
<1>4. ASSUME result[r] = "ok", kind[r] = "sqlite"
      PROVE  /\ HighScores({e \in table[Path(r)] : e[1] = r}) <= matched[r]
             /\ matched[r] <= HighScores(table[Path(r)])
  <2>1. IsPast(r, BeforeCommit \cup {"ingested", "select"})
    BY <1>4 DEF IsPast
  <2> QED
    BY <1>1, <1>4, <2>1 DEF RunIsSound, CountIsSound, Own
<1>5. ASSUME NEW d \in Databases
      PROVE  Own(r, d) = {} \/ Cardinality(Own(r, d)) = Records
  BY <1>1, FirstCount DEF RunIsSound, RecordsAreSound
<1>6. batch[r] # {} => opened[Path(r)] = r
  <2>1. ASSUME batch[r] # {} PROVE opened[Path(r)] = r
    <3>1. IsIn(r, {"inserted", "put", "commit"})
      BY <1>1, <2>1 DEF RunIsSound, BatchIsSound
    <3>2. IsIn(r, Whats \ {"open", "closed"}) /\ Path(r) \in Databases
      BY <1>1, <3>1, PathIsDatabase DEF IsIn, Whats, BeforeCommit, RunIsSound, StepIsSound
    <3> QED
      BY <1>1, <3>2 DEF RunIsSound, DatabaseIsHeld
  <2> QED
    BY <2>1
<1> QED
  BY <1>2, <1>3, <1>4, <1>5, <1>6 DEF Own

\* Whatever benchmarks run beside it, in one directory or in its own: a lookup hits, a
\* table holds all the records of a run or none, only a run that has its database open
\* has a transaction, and a run that succeeds counted what benches/databases.rs expects.
THEOREM BenchmarkInvariant == BenchmarkSpec => []BenchmarkInv
<1>1. BenchmarkInit => BenchmarkIInv
  BY BenchmarkStarts
<1>2. BenchmarkIInv /\ [BenchmarkNext]_benchmarkVars => BenchmarkIInv'
  BY BenchmarkKeeps, BenchmarkStutters DEF BenchmarkNext
<1>3. BenchmarkIInv => BenchmarkInv
  BY BenchmarkIsSafe
<1> QED
  BY <1>1, <1>2, <1>3, PTL DEF BenchmarkSpec
=============================================================================

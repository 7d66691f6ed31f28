-------------------------- MODULE WhatsAppBenchmark -------------------------
(***************************************************************************)
(* The database benchmarks of the WhatsApp demo scene, src/examples/       *)
(* whatsapp_demoscene.rs: messages that ask for a benchmark are handled by *)
(* tasks of their own, one of which runs it; its progress is thinned out   *)
(* for WhatsApp (BenchmarkProgressReporter).                               *)
(*                                                                         *)
(* Times are ages, in units, that stop growing at ProgressInterval: beyond *)
(* it no comparison of the code tells them apart.                          *)
(***************************************************************************)
EXTENDS DatabaseBenchmark

CONSTANTS ProgressInterval, \* DATABASE_BENCHMARK_PROGRESS_INTERVAL: 60 s
          PairInterval      \* WHATSAPP_PAIR_SEND_INTERVAL: 6 s

ASSUME ReporterAssumption ==
    /\ {PairInterval, ProgressInterval} \subseteq Nat
    /\ 0 < PairInterval /\ PairInterval < ProgressInterval

VARIABLES
    handler, \* where the task of each message stands
    permit,  \* who holds DATABASE_BENCHMARK_SEMAPHORE's permit, or None
    latest, last_sent, sampled_age, sent_age, \* BenchmarkProgressState
    heard,     \* history: the last message of the run that was accepted
    heard_age, \* history: its age
    asked_age  \* history: the age of the last progress message given to send

reporterVars == <<latest, last_sent, sampled_age, sent_age>>
historyVars  == <<heard, heard_age, asked_age>>
whatsappVars == <<benchmarkVars, handler, permit, reporterVars, historyVars>>

Never == ProgressInterval + 1
Ages == 0 .. Never \* Never: there was none
Nothing == Report("nothing", 0)
Failure == Report("failure", 0)
Text(r) == Report(Current(r).what, Current(r).i)

Older(age) == IF age < ProgressInterval THEN age + 1 ELSE age

WhatsAppInit ==
    /\ BenchmarkInit
    /\ handler = [r \in Runs |-> "none"]
    /\ permit = None
    /\ latest = [r \in Runs |-> Nothing]
    /\ last_sent = [r \in Runs |-> Nothing]
    /\ heard = [r \in Runs |-> Nothing]
    /\ sampled_age = [r \in Runs |-> Never]
    /\ sent_age = [r \in Runs |-> Never]
    /\ heard_age = [r \in Runs |-> Never]
    /\ asked_age = [r \in Runs |-> Never]

\* Nobody looks at the ages of a run that does not hold the permit.
Tick ==
    /\ permit # None
    /\ sampled_age' = [sampled_age EXCEPT ![permit] = Older(@)]
    /\ sent_age' = [sent_age EXCEPT ![permit] = Older(@)]
    /\ heard_age' = [heard_age EXCEPT ![permit] = Older(@)]
    /\ asked_age' = [asked_age EXCEPT ![permit] = Older(@)]
    /\ UNCHANGED <<benchmarkVars, handler, permit, latest, last_sent, heard>>

-----------------------------------------------------------------------------
(* run_database_benchmark.                                                 *)

TryAcquire == permit = None

StartBenchmark(r) ==
    /\ handler[r] = "none"
    /\ TryAcquire
    /\ permit' = r
    /\ handler' = [handler EXCEPT ![r] = "running"]
    /\ \E k \in Kinds : StartRun(r, k)
    /\ UNCHANGED <<reporterVars, historyVars>>

\* "Another database benchmark is already running."
Refuse(r) ==
    /\ handler[r] = "none"
    /\ ~TryAcquire
    /\ handler' = [handler EXCEPT ![r] = "refused"]
    /\ UNCHANGED <<benchmarkVars, permit, reporterVars, historyVars>>

\* A step of run_benchmark that is not a report.
RunBenchmark(r) ==
    /\ handler[r] = "running"
    /\ CallSucceeds(r) \/ CallFails(r)
    /\ UNCHANGED <<handler, permit, reporterVars, historyVars>>

-----------------------------------------------------------------------------
(* BenchmarkProgressReporter.  The lock of its state is held from the first *)
(* line to the end of the send: a run has one report under way at a time.   *)

DueAtOnce(r) == TRUE \* (mutant: every message)
Due(r) == sampled_age[r] = Never \/ sampled_age[r] >= ProgressInterval

\* report, up to send_locked; the time is taken before the send.
report(r) ==
    /\ handler[r] = "running"
    /\ IsAt(r, "report") \/ IsAt(r, "note")
    /\ latest' = [latest EXCEPT ![r] = Text(r)]
    /\ IF Due(r)
       THEN /\ handler' = [handler EXCEPT ![r] = "sending"]
            /\ sampled_age' = [sampled_age EXCEPT ![r] = 0]
            /\ asked_age' = [asked_age EXCEPT ![r] = 0]
            /\ UNCHANGED benchmarkVars
       ELSE /\ ReportReturns(r, TRUE)
            /\ UNCHANGED <<handler, sampled_age, asked_age>>
    /\ UNCHANGED <<permit, last_sent, sent_age, heard, heard_age>>

\* run_database_benchmark returns: the permit and the reporter are dropped.
LeakedPermit(r, how) == \* (mutant)
    /\ handler' = [handler EXCEPT ![r] = how]
    /\ permit' = permit
    /\ UNCHANGED <<reporterVars, heard_age, asked_age>>
Return(r, how) ==
    /\ handler' = [handler EXCEPT ![r] = how]
    /\ permit' = None
    /\ latest' = [latest EXCEPT ![r] = Nothing]
    /\ last_sent' = [last_sent EXCEPT ![r] = Nothing]
    /\ sampled_age' = [sampled_age EXCEPT ![r] = Never]
    /\ sent_age' = [sent_age EXCEPT ![r] = Never]
    /\ heard_age' = [heard_age EXCEPT ![r] = Never]
    /\ asked_age' = [asked_age EXCEPT ![r] = Never]

\* finish_success: nothing to send if the latest message was sent.
SentAlready(r) == FALSE \* (mutant: the final message is taken for sent)
latest_unsent(r) == latest[r] # last_sent[r]

finish_success(r) ==
    /\ handler[r] = "running"
    /\ result[r] = "ok"
    /\ IF latest_unsent(r)
       THEN /\ handler' = [handler EXCEPT ![r] = "finishing"]
            /\ UNCHANGED <<permit, reporterVars, heard_age, asked_age>>
       ELSE Return(r, "over")
    /\ UNCHANGED <<benchmarkVars, heard>>

finish_failure(r) ==
    /\ handler[r] = "running"
    /\ result[r] = "failed"
    /\ latest' = [latest EXCEPT ![r] = Failure]
    /\ handler' = [handler EXCEPT ![r] = "finishing"]
    /\ UNCHANGED <<benchmarkVars, permit, last_sent, sampled_age, sent_age, historyVars>>

\* send_locked waits until the last message is old enough, then sends; after it
\* come the benchmark again, or the end of the handler.
pair_send_delay_is_over(r) == sent_age[r] = Never \/ sent_age[r] >= PairInterval

record_sent(r) == /\ last_sent' = [last_sent EXCEPT ![r] = latest[r]]
                  /\ sent_age' = [sent_age EXCEPT ![r] = 0]

Send(r) ==
    /\ handler[r] \in {"sending", "finishing"}
    /\ pair_send_delay_is_over(r)
    /\ heard' = [heard EXCEPT ![r] = latest[r]]
    /\ IF handler[r] = "finishing"
       THEN Return(r, "over") /\ UNCHANGED benchmarkVars
       ELSE /\ handler' = [handler EXCEPT ![r] = "running"]
            /\ ReportReturns(r, TRUE)
            /\ record_sent(r)
            /\ heard_age' = [heard_age EXCEPT ![r] = 0]
            /\ UNCHANGED <<permit, latest, sampled_age, asked_age>>

SendFails(r) ==
    /\ handler[r] \in {"sending", "finishing"}
    /\ pair_send_delay_is_over(r)
    /\ UNCHANGED heard
    /\ IF handler[r] = "finishing"
       THEN Return(r, "untold") /\ UNCHANGED benchmarkVars
       ELSE /\ handler' = [handler EXCEPT ![r] = "running"]
            /\ ReportReturns(r, FALSE) \/ ReportFails(r)
            /\ UNCHANGED <<permit, reporterVars, heard_age, asked_age>>

Handled(r) == RunBenchmark(r) \/ report(r) \/ finish_success(r)
              \/ finish_failure(r) \/ Send(r) \/ SendFails(r)

WhatsAppNext ==
    \/ Tick
    \/ \E r \in Runs : StartBenchmark(r) \/ Refuse(r) \/ Handled(r)

WhatsAppSpec == WhatsAppInit /\ [][WhatsAppNext]_whatsappVars

\* The calls into the databases return, and so do the sends (the client has a
\* timeout of 20 s); time passes.
WhatsAppFairness ==
    /\ WF_whatsappVars(Tick)
    /\ \A r \in Runs : WF_whatsappVars(Handled(r))

-----------------------------------------------------------------------------
WhatsAppTypeOK ==
    /\ handler \in [Runs -> {"none", "refused", "running", "sending",
                             "finishing", "over", "untold"}]
    /\ permit \in Runs \cup {None}
    /\ {sampled_age, sent_age, heard_age, asked_age} \subseteq [Runs -> Ages]

\* "Only one database benchmark runs at a time": whoever has a database open, or
\* is not done with its messages, holds the permit.
OneBenchmark ==
    /\ WhatsAppTypeOK
    /\ \A r \in Runs : handler[r] \in {"running", "sending", "finishing"} <=> permit = r
    /\ \A d \in Databases : opened[d] # None => permit = opened[d]

\* "WhatsApp receives the first progress update ... and the final result": a
\* handler that returned Ok, or the error of a benchmark it could report, has told
\* the user how the run ended, and nobody hears of an end that is not there.
FinalResultIsHeard ==
    \A r \in Runs :
       /\ handler[r] = "over"
             => heard[r] = IF result[r] = "ok" THEN Report("closed", matched[r]) ELSE Failure
       /\ heard[r].what = "closed" => r \notin {opened[d] : d \in Databases}
       /\ heard[r] = Failure => result[r] = "failed"

\* One benchmark at a time, and its result is heard.
ReporterInv == OneBenchmark /\ FinalResultIsHeard

\* "At most one current update per minute", "at least six seconds between" two
\* messages of a run that were sent, whatever time the sends and the database
\* take: the last message before the final one may be young.
SendsAreSpaced ==
    [][\A r \in Runs :
          /\ heard'[r] # heard[r] => heard_age[r] >= PairInterval
          /\ handler[r] = "running" /\ handler'[r] = "sending"
                => asked_age[r] >= ProgressInterval]_whatsappVars

\* WhatsApp's refusal of a note does not cost the ingestion.
IngestionOutlivesItsNotes ==
    [][\A r \in Runs : SendFails(r) /\ batch[r] # {} => batch'[r] = batch[r]]_whatsappVars

\* The messages of a run are few and far between, and cost it nothing.
MessagesDoNoHarm == SendsAreSpaced /\ IngestionOutlivesItsNotes

\* The permit always comes back: the demo can run another benchmark.
BenchmarksEnd == \A r \in Runs : permit = r ~> permit # r
=============================================================================

-------------------------- MODULE TelegramDemoscene --------------------------
(***************************************************************************)
(* The dialog of the Telegram demo scene, src/src/logic/                   *)
(* telegram_demoscene.rs.  Each message or click becomes a job, a sequence *)
(* of calls of the Bot API and, for a benchmark, of run_benchmark; the     *)
(* gateway (TelegramGateway) runs a few of them at a time.  A call fails,  *)
(* and `?` ends the job there.                                             *)
(***************************************************************************)
EXTENDS DatabaseBenchmark

CONSTANT Quotes \* the quotes that plot::demo follows

\* Fewer than eight quotes are replaced by 30 stand-ins (src/src/plot/data.rs); demo
\* pictures them from the third one on.
ASSUME QuotesAssumption == Quotes \in Nat /\ Quotes >= 3

VARIABLES
    asked,   \* what each job was asked to do, or None
    job,     \* "none", "running", "benchmark", "done" or "failed"
    call,    \* the call it is at
    shown,   \* what the job's own message shows
    spinner, \* of the clicked button: "none", "spinning" or "stopped"
    png,     \* what the file /tmp/brl2usd.png shows
    shared   \* history: the jobs that followed the asset beside another

demosceneVars == <<asked, job, call, shown, spinner, png, shared>>
telegramVars == <<benchmarkVars, demosceneVars>>

-----------------------------------------------------------------------------
(* What users send, and what the menu offers.                              *)

main_menu == {"mm:chatid", "mm:followasset", "mm:broadcast", "mm:run", "mm:render",
              "mm:additionalmedia", "mm:heedbenchmark", "mm:sqlitebenchmark",
              "mm:redbbenchmark", "mm:settings", "mm:close"}

\* The commands that do what a button does; all the others, and texts that are
\* none, are answered by one call.
Commands == {"mm:run", "mm:render", "mm:additionalmedia", "mm:followasset",
             "mm:broadcast", "mm:heedbenchmark", "mm:sqlitebenchmark", "mm:redbbenchmark"}
Requests == [by : {"click"}, text : main_menu] \cup [by : {"command"}, text : Commands \cup {"/other"}]

-----------------------------------------------------------------------------
(* The jobs.                                                               *)

ApiCall(do, what, i) == [do |-> do, what |-> what, i |-> i]
Say(what)  == ApiCall("say", what, 0) \* a new message
Edit(what) == ApiCall("edit", what, 0) \* another text or picture in it
Edits(n)   == [i \in 1 .. n |-> ApiCall("edit", "progress", i)]
Picture(j, n) == ApiCall("picture", j, n)

run_long_job     == <<Say("0%")>> \o Edits(6) \o <<Edit("done"), Say("document")>>
render_swap      == <<Say("frame0")>> \o Edits(3) \o <<Edit("complete")>>
additional_media == <<Say("audio"), Say("voice"), Say("video"), Say("sticker")>>
broadcast        == <<Say("analysis"), Say("bulletin")>>

\* demo: from three quotes on, one picture per quote, through one file.
plot(n) == <<ApiCall("write", "png", n), ApiCall("upload", "png", n)>>
follow_asset == [c \in 1 .. 2 * (Quotes - 2) |->
                    IF c % 2 = 1 THEN plot(3 + c \div 2)[1] ELSE plot(2 + c \div 2)[2]]

\* The message that the reports edit, and run_benchmark.
benchmark(k) == <<Say("starting"), ApiCall("benchmark", k, 0)>>

Nothing == Say("nothing")
Unknown == <<Say("BUG! Unknown callback query")>>

Calls(text) ==
    CASE text = "mm:run"             -> run_long_job
      [] text = "mm:render"          -> render_swap
      [] text = "mm:additionalmedia" -> additional_media
      [] text = "mm:chatid"          -> <<Say("chat id")>>
      [] text = "mm:followasset"     -> follow_asset
      [] text = "mm:sqlitebenchmark" -> benchmark("sqlite")
      [] text = "mm:redbbenchmark"   -> benchmark("redb")
      [] text = "mm:heedbenchmark"   -> benchmark("heed")
      [] text = "mm:broadcast"       -> broadcast
      [] text = "mm:close"           -> <<Say("menu closed")>>
      [] text = "/other"             -> <<Say("answer")>>
      [] OTHER                       -> Unknown

AnswerFirst(request) == \* (mutant: the spinner stops before the work)
    (IF request.by = "click" THEN <<ApiCall("answer", "spinner", 0)>> ELSE <<>>) \o Calls(request.text)
process(request) ==
    Calls(request.text)
    \o (IF request.by = "click" THEN <<ApiCall("answer", "spinner", 0)>> ELSE <<>>)

CallOf(j) == process(asked[j])[call[j]]
At(j, do) == job[j] = "running" /\ call[j] <= Len(process(asked[j])) /\ CallOf(j).do = do
Follows(j) == job[j] = "running" /\ asked[j].text = "mm:followasset"

DemosceneInit ==
    /\ BenchmarkInit
    /\ asked = [j \in Runs |-> None]
    /\ job = [j \in Runs |-> "none"]
    /\ call = [j \in Runs |-> 0]
    /\ shown = [j \in Runs |-> Nothing]
    /\ spinner = [j \in Runs |-> "none"]
    /\ png = Nothing
    /\ shared = {}

-----------------------------------------------------------------------------
\* process: the job starts as soon as the gateway takes it up.
Ask(j) ==
    /\ job[j] = "none"
    /\ \E request \in Requests :
          /\ asked' = [asked EXCEPT ![j] = request]
          /\ spinner' = [spinner EXCEPT ![j] = IF request.by = "click" THEN "spinning" ELSE @]
          /\ shared' = LET others == {i \in Runs : Follows(i)}
                       IN  IF request.text = "mm:followasset" /\ others # {}
                           THEN shared \cup others \cup {j} ELSE shared
    /\ job' = [job EXCEPT ![j] = "running"]
    /\ call' = [call EXCEPT ![j] = 1]
    /\ UNCHANGED <<benchmarkVars, shown, png>>

Fails(j) == /\ job' = [job EXCEPT ![j] = "failed"]
            /\ UNCHANGED <<benchmarkVars, asked, call, shown, spinner, png, shared>>

Continue(j) == call' = [call EXCEPT ![j] = @ + 1]

\* A message was sent or edited.
Shows(j) ==
    /\ At(j, "say") \/ At(j, "edit") \/ At(j, "upload")
    /\ \/ /\ Continue(j)
          /\ shown' = [shown EXCEPT ![j] = IF CallOf(j).do = "upload" THEN png ELSE CallOf(j)]
          /\ UNCHANGED <<benchmarkVars, asked, job, spinner, png, shared>>
       \/ Fails(j)

WritesPng(j) ==
    /\ At(j, "write")
    /\ \/ /\ Continue(j)
          /\ png' = Picture(j, CallOf(j).i)
          /\ UNCHANGED <<benchmarkVars, asked, job, shown, spinner, shared>>
       \/ Fails(j)

StopsSpinner(j) ==
    /\ At(j, "answer")
    /\ \/ /\ Continue(j)
          /\ spinner' = [spinner EXCEPT ![j] = "stopped"]
          /\ UNCHANGED <<benchmarkVars, asked, job, shown, png, shared>>
       \/ Fails(j)

Finishes(j) ==
    /\ job[j] = "running"
    /\ call[j] > Len(process(asked[j]))
    /\ job' = [job EXCEPT ![j] = "done"]
    /\ UNCHANGED <<benchmarkVars, asked, call, shown, spinner, png, shared>>

\* A benchmark: every report edits the message.
StartsBenchmark(j) ==
    /\ At(j, "benchmark")
    /\ StartRun(j, CallOf(j).what)
    /\ job' = [job EXCEPT ![j] = "benchmark"]
    /\ UNCHANGED <<asked, call, shown, spinner, png, shared>>

CallsDatabase(j) ==
    /\ job[j] = "benchmark"
    /\ CallSucceeds(j) \/ CallFails(j)
    /\ UNCHANGED demosceneVars

Reports(j) ==
    /\ job[j] = "benchmark"
    /\ IsAt(j, "report") \/ IsAt(j, "note")
    /\ \/ /\ shown' = [shown EXCEPT ![j] = Current(j)]
          /\ ReportReturns(j, TRUE)
       \/ UNCHANGED shown /\ (ReportReturns(j, FALSE) \/ ReportFails(j))
    /\ UNCHANGED <<asked, job, call, spinner, png, shared>>

ErrorIgnored(j) == \* (mutant)
    /\ job[j] = "benchmark" /\ result[j] = "ok"
    /\ Continue(j) /\ job' = [job EXCEPT ![j] = "running"]
    /\ UNCHANGED <<benchmarkVars, asked, shown, spinner, png, shared>>
EndsBenchmark(j) ==
    /\ job[j] = "benchmark"
    /\ result[j] \in {"ok", "failed"}
    /\ IF result[j] = "ok"
       THEN Continue(j) /\ job' = [job EXCEPT ![j] = "running"]
       ELSE job' = [job EXCEPT ![j] = "failed"] /\ UNCHANGED call
    /\ UNCHANGED <<benchmarkVars, asked, shown, spinner, png, shared>>

Works(j) ==
    \/ Shows(j) \/ WritesPng(j) \/ StopsSpinner(j) \/ Finishes(j)
    \/ StartsBenchmark(j) \/ CallsDatabase(j) \/ Reports(j) \/ EndsBenchmark(j)

DemosceneNext == \E j \in Runs : Ask(j) \/ Works(j)

DemosceneSpec == DemosceneInit /\ [][DemosceneNext]_telegramVars

\* Calls of the Bot API and of the databases return, by a timeout if need be.
DemosceneFairness == \A j \in Runs : WF_telegramVars(Works(j))

-----------------------------------------------------------------------------
\* The spinner of a button stops only when all the work behind it has succeeded, and
\* what the user sees by then is the end of it: a benchmark's last report, although
\* edits during the ingestion may have been lost.
EndOf(j) == LET calls == Calls(asked[j].text) IN calls[Len(calls)]
SpinnerStopsAtTheEnd ==
    \A j \in Runs :
       /\ spinner[j] = "stopped"
             => CASE EndOf(j).do = "benchmark" -> shown[j] = Report("closed", matched[j])
                  [] EndOf(j).do = "say"       -> shown[j] = EndOf(j)
                  [] OTHER                     -> TRUE
       /\ job[j] = "done" => spinner[j] # "spinning"
       /\ job[j] = "failed" => spinner[j] # "stopped"

\* A chat that follows the asset sees the picture of its own last quote, as long as
\* nobody else follows it: the picture goes through one file.
OwnPictureUnlessShared ==
    \A j \in Runs :
       (job[j] = "done" /\ asked[j].text = "mm:followasset" /\ j \notin shared)
          => shown[j] = Picture(j, Quotes)

\* What users are shown: the end of the work, and their own picture.
DemosceneInv == SpinnerStopsAtTheEnd /\ OwnPictureUnlessShared

\* A job ends, and frees its place in the gateway, also one that waits for a
\* database that another one has open.
JobsEnd == \A j \in Runs : job[j] = "running" ~> job[j] \in {"done", "failed"}
=============================================================================

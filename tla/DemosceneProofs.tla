--------------------------- MODULE DemosceneProofs --------------------------
(***************************************************************************)
(* What TLAPS proves of the dialog of the Telegram demo scene, for every   *)
(* number of jobs, and of quotes that a chat follows.                      *)
(***************************************************************************)
EXTENDS TelegramDemoscene, BenchmarkProofs

-----------------------------------------------------------------------------
(* A job of the demo scene: what holds at which call.                      *)

BenchmarkTexts == {"mm:heedbenchmark", "mm:sqlitebenchmark", "mm:redbbenchmark"}
Clicked(j) == asked[j].by = "click"

\* The calls of a job before it stops its spinner.
Work(j) == Len(Calls(asked[j].text))

JobTypeOK ==
    /\ job \in [Runs -> {"none", "running", "benchmark", "done", "failed"}]
    /\ call \in [Runs -> Nat]
    /\ spinner \in [Runs -> {"none", "spinning", "stopped"}]
    /\ DOMAIN asked = Runs /\ DOMAIN shown = Runs
    /\ \A j \in Runs : job[j] # "none" =>
          /\ asked[j] \in Requests
          /\ call[j] \in 1 .. Work(j) + 2
          /\ Clicked(j) \/ call[j] <= Work(j) + 1

\* The spinner stops after the work, in the job's last call.
SpinnerFollowsCall(j) ==
    /\ spinner[j] = IF job[j] = "none" \/ ~Clicked(j) THEN "none"
                    ELSE IF call[j] = Work(j) + 2 THEN "stopped" ELSE "spinning"
    /\ job[j] = "done" => call[j] = Work(j) + (IF Clicked(j) THEN 2 ELSE 1)
    /\ job[j] = "failed" => call[j] < Work(j) + (IF Clicked(j) THEN 2 ELSE 1)

\* A job for a benchmark calls run_benchmark once, and goes on when it has succeeded.
BenchmarkFollowsCall(j) ==
    /\ job[j] = "none" => result[j] = "none"
    /\ job[j] # "none" =>
          /\ asked[j].text \notin BenchmarkTexts => result[j] = "none" /\ job[j] # "benchmark"
          /\ asked[j].text \in BenchmarkTexts =>
                /\ job[j] = "running" /\ call[j] <= 2 => result[j] = "none"
                /\ job[j] = "benchmark" => call[j] = 2 /\ result[j] # "none"
                /\ call[j] > 2 => result[j] = "ok"
                /\ result[j] = "ok" => shown[j] = Report("closed", matched[j])

\* After the work of other jobs, its last call is shown.
EndIsShown(j) ==
    job[j] # "none" /\ call[j] > Work(j) /\ EndOf(j).do = "say" => shown[j] = EndOf(j)

\* The file has the picture that a job wrote until it has uploaded it, and its message
\* the last one it uploaded, unless another job follows the asset too.
PictureIsOwn(j) ==
    job[j] \in {"running", "done"} /\ asked[j].text = "mm:followasset" /\ j \notin shared =>
        /\ job[j] = "running" /\ call[j] <= Work(j) /\ call[j] % 2 = 0
              => png = Picture(j, 2 + call[j] \div 2)
        /\ call[j] > Work(j) => shown[j] = Picture(j, Quotes)

FollowersShare ==
    \A i, j \in Runs : Follows(i) /\ Follows(j) /\ i # j => {i, j} \subseteq shared

JobIsSound(j) == /\ SpinnerFollowsCall(j)
                 /\ BenchmarkFollowsCall(j)
                 /\ EndIsShown(j)
                 /\ PictureIsOwn(j)

DemosceneIInv == /\ BenchmarkIInv
                 /\ JobTypeOK
                 /\ FollowersShare
                 /\ \A j \in Runs : JobIsSound(j)

-----------------------------------------------------------------------------
(* The calls of a job.                                                     *)

Words == {"0%", "done", "document", "frame0", "complete", "progress", "audio", "voice", "video",
          "sticker", "analysis", "bulletin", "chat id", "menu closed", "answer",
          "BUG! Unknown callback query"}
Messages  == [do : {"say", "edit"}, what : Words, i : Nat]
Plots     == [do : {"write", "upload"}, what : {"png"}, i : Nat]
RunsOfIt  == [do : {"say", "benchmark"}, what : Kinds \cup {"starting"}, i : {0}]
Answer    == ApiCall("answer", "spinner", 0)
WorkCalls == Messages \cup Plots \cup RunsOfIt
Texts     == main_menu \cup Commands \cup {"/other"}

LEMMA OneMore ==
    ASSUME NEW T, NEW s \in Seq(T), NEW t \in Seq(T), s # <<>>
    PROVE  s \o t \in Seq(T) /\ s \o t # <<>>
  OBVIOUS

LEMMA OneToFour ==
    ASSUME NEW T, NEW a \in T, NEW b \in T, NEW c \in T, NEW d \in T
    PROVE  /\ <<a>> \in Seq(T) /\ <<a>> # <<>>
           /\ <<a, b>> \in Seq(T) /\ <<a, b>> # <<>>
           /\ <<a, b, c, d>> \in Seq(T) /\ <<a, b, c, d>> # <<>>
  OBVIOUS

\* A message and its edits, or a few messages.
LEMMA MessageCalls ==
    ASSUME NEW text \in Texts \ (BenchmarkTexts \cup {"mm:followasset"})
    PROVE  Calls(text) \in Seq(Messages) /\ Calls(text) # <<>>
<1>1. \A w \in Words : Say(w) \in Messages /\ Edit(w) \in Messages
  BY DEF Say, Edit, ApiCall, Messages
<1>0. \A v, w \in Words : <<Say(v)>> \in Seq(Messages) /\ <<Edit(v)>> \in Seq(Messages)
                          /\ <<Edit(v), Say(w)>> \in Seq(Messages)
  BY <1>1, OneToFour
<1>2. \A n \in Nat : Edits(n) \in Seq(Messages)
  <2>1. ASSUME NEW n \in Nat PROVE Edits(n) \in Seq(Messages)
    <3>1. \A i \in 1 .. n : ApiCall("edit", "progress", i) \in Messages
      BY DEF ApiCall, Messages, Words
    <3> QED
      BY <3>1 DEF Edits
  <2> QED
    BY <2>1
<1>3. run_long_job \in Seq(Messages) /\ run_long_job # <<>>
  <2>1. <<Say("0%")>> \in Seq(Messages) /\ <<Edit("done"), Say("document")>> \in Seq(Messages)
    BY <1>0 DEF Words
  <2>2. <<Say("0%")>> \o Edits(6) \in Seq(Messages) /\ <<Say("0%")>> \o Edits(6) # <<>>
    BY <1>2, <2>1, OneMore
  <2> QED
    BY <2>1, <2>2, OneMore DEF run_long_job
<1>4. render_swap \in Seq(Messages) /\ render_swap # <<>>
  <2>1. <<Say("frame0")>> \in Seq(Messages) /\ <<Edit("complete")>> \in Seq(Messages)
    BY <1>0 DEF Words
  <2>2. <<Say("frame0")>> \o Edits(3) \in Seq(Messages) /\ <<Say("frame0")>> \o Edits(3) # <<>>
    BY <1>2, <2>1, OneMore
  <2> QED
    BY <2>1, <2>2, OneMore DEF render_swap
<1>5. additional_media \in Seq(Messages) /\ additional_media # <<>>
  BY <1>1, OneToFour DEF additional_media, Words
<1>6. broadcast \in Seq(Messages) /\ broadcast # <<>>
  BY <1>1, OneToFour DEF broadcast, Words
<1>7. \A w \in Words : <<Say(w)>> \in Seq(Messages) /\ <<Say(w)>> # <<>>
  BY <1>1
<1>8. /\ Calls("mm:run") = run_long_job /\ Calls("mm:render") = render_swap
      /\ Calls("mm:additionalmedia") = additional_media /\ Calls("mm:broadcast") = broadcast
      /\ Calls("mm:chatid") = <<Say("chat id")>> /\ Calls("mm:close") = <<Say("menu closed")>>
      /\ Calls("/other") = <<Say("answer")>>
      /\ Calls("mm:settings") = <<Say("BUG! Unknown callback query")>>
  BY DEF Calls, Unknown
<1>9. text \in {"mm:run", "mm:render", "mm:additionalmedia", "mm:broadcast", "mm:chatid", "mm:close",
                "/other", "mm:settings"}
  BY DEF Texts, main_menu, Commands, BenchmarkTexts
<1> QED
  BY <1>3, <1>4, <1>5, <1>6, <1>7, <1>8, <1>9 DEF Words

\* A picture per quote, through the file.
LEMMA FollowCalls ==
    LET calls == Calls("mm:followasset") IN
    /\ calls \in Seq(Plots) /\ Len(calls) = 2 * (Quotes - 2) /\ Len(calls) \in Nat \ {0}
    /\ \A c \in 1 .. Len(calls) :
          /\ c % 2 = 1 => calls[c].do = "write" /\ calls[c].i = 3 + c \div 2
          /\ c % 2 = 0 => calls[c].do = "upload"
<1> DEFINE n == 2 * (Quotes - 2)
<1>1. n \in Nat \ {0}
  BY QuotesAssumption DEF QuotesAssumption
<1>2. Calls("mm:followasset") = follow_asset
  BY DEF Calls
<1>3. follow_asset = [c \in 1 .. n |-> IF c % 2 = 1 THEN plot(3 + c \div 2)[1]
                                       ELSE plot(2 + c \div 2)[2]]
  BY DEF follow_asset
<1>4. \A m \in Nat : /\ plot(m)[1] = ApiCall("write", "png", m)
                     /\ plot(m)[2] = ApiCall("upload", "png", m)
  BY DEF plot
<1>5. \A m \in Nat : ApiCall("write", "png", m) \in Plots /\ ApiCall("upload", "png", m) \in Plots
  BY DEF ApiCall, Plots
<1> HIDE DEF n
<1>6. \A c \in 1 .. n : /\ 3 + c \div 2 \in Nat /\ 2 + c \div 2 \in Nat
                        /\ c % 2 \in {0, 1}
  BY <1>1
<1>7. \A c \in 1 .. n : /\ c % 2 = 1 => follow_asset[c] = ApiCall("write", "png", 3 + c \div 2)
                        /\ c % 2 = 0 => follow_asset[c] = ApiCall("upload", "png", 2 + c \div 2)
  BY <1>3, <1>4, <1>6
<1>8. follow_asset \in Seq(Plots) /\ Len(follow_asset) = n
  BY <1>1, <1>3, <1>4, <1>5, <1>6
<1> QED
  BY <1>1, <1>2, <1>7, <1>8 DEF ApiCall, n

\* The message that the reports will edit, and run_benchmark.
LEMMA BenchmarkCalls ==
    ASSUME NEW text \in BenchmarkTexts
    PROVE  LET calls == Calls(text) IN
           /\ calls \in Seq(RunsOfIt) /\ Len(calls) = 2
           /\ calls[1].do = "say" /\ calls[2].do = "benchmark" /\ calls[2].what \in Kinds
<1>1. PICK k \in Kinds : Calls(text) = benchmark(k)
  <2>1. /\ Calls("mm:heedbenchmark") = benchmark("heed")
        /\ Calls("mm:sqlitebenchmark") = benchmark("sqlite")
        /\ Calls("mm:redbbenchmark") = benchmark("redb")
    BY DEF Calls
  <2> QED
    BY <2>1 DEF BenchmarkTexts, Kinds
<1>2. Say("starting") \in RunsOfIt /\ ApiCall("benchmark", k, 0) \in RunsOfIt
  BY DEF Say, ApiCall, RunsOfIt
<1>3. benchmark(k) \in Seq(RunsOfIt) /\ Len(benchmark(k)) = 2
  BY <1>2 DEF benchmark
<1> QED
  BY <1>1, <1>3 DEF benchmark, Say, ApiCall

\* The calls of a request: its work, and the answer to a click.
LEMMA CallsOfRequest ==
    ASSUME NEW request \in Requests
    PROVE  LET work == Calls(request.text)
               all == process(request)
           IN  /\ request.text \in Texts
               /\ Len(work) \in Nat \ {0}
               /\ Len(all) = Len(work) + (IF request.by = "click" THEN 1 ELSE 0)
               /\ \A c \in 1 .. Len(work) : all[c] = work[c] /\ work[c] \in WorkCalls
               /\ request.by = "click" => all[Len(work) + 1] = Answer
<1> DEFINE work == Calls(request.text)
<1>1. request.text \in Texts
  BY DEF Requests, Texts
<1>2. work \in Seq(WorkCalls) /\ Len(work) \in Nat \ {0}
  <2>1. CASE request.text \in BenchmarkTexts
    BY <2>1, BenchmarkCalls DEF WorkCalls
  <2>2. CASE request.text = "mm:followasset"
    BY <2>2, FollowCalls DEF WorkCalls
  <2>3. CASE request.text \notin BenchmarkTexts \cup {"mm:followasset"}
    BY <1>1, <2>3, MessageCalls DEF WorkCalls
  <2> QED
    BY <2>1, <2>2, <2>3
<1> HIDE DEF work
<1>3. CASE request.by = "click"
  <2>1. process(request) = work \o <<Answer>>
    BY <1>3 DEF process, work, Answer
  <2> QED
    BY <1>1, <1>2, <1>3, <2>1 DEF work
<1>4. CASE request.by # "click"
  <2>1. process(request) = work \o <<>>
    BY <1>4 DEF process, work
  <2> QED
    BY <1>1, <1>2, <1>4, <2>1 DEF work
<1> QED
  BY <1>3, <1>4

-----------------------------------------------------------------------------
(* What the steps of a job keep.                                           *)

\* The call that a job is at.
LEMMA CallsAt ==
    ASSUME JobTypeOK, NEW j \in Runs, NEW do, At(j, do)
    PROVE  /\ job[j] = "running" /\ asked[j] \in Requests /\ asked[j].text \in Texts
           /\ Work(j) \in Nat \ {0} /\ call[j] \in 1 .. Work(j) + 1
           /\ do = "answer" <=> call[j] = Work(j) + 1
           /\ do = "answer" => Clicked(j)
           /\ do # "answer" => CallOf(j) = Calls(asked[j].text)[call[j]]
           /\ do \in {"write", "upload"} =>
                 /\ asked[j].text = "mm:followasset"
                 /\ call[j] % 2 = (IF do = "write" THEN 1 ELSE 0)
                 /\ do = "write" => CallOf(j).i = 3 + call[j] \div 2
           /\ do = "benchmark" => /\ asked[j].text \in BenchmarkTexts
                                  /\ call[j] = 2 /\ CallOf(j).what \in Kinds
           /\ do # "benchmark" /\ asked[j].text \in BenchmarkTexts => call[j] # 2
<1> DEFINE text == asked[j].text
<1>1. job[j] = "running" /\ asked[j] \in Requests /\ call[j] \in 1 .. Len(process(asked[j]))
      /\ CallOf(j).do = do
  BY DEF At, JobTypeOK
<1>2. /\ text \in Texts /\ Work(j) \in Nat \ {0}
      /\ Len(process(asked[j])) = Work(j) + (IF Clicked(j) THEN 1 ELSE 0)
      /\ \A c \in 1 .. Work(j) : /\ process(asked[j])[c] = Calls(text)[c]
                                 /\ Calls(text)[c] \in WorkCalls
      /\ Clicked(j) => process(asked[j])[Work(j) + 1] = Answer
  BY <1>1, CallsOfRequest DEF Work, Clicked
<1>3. \A c \in WorkCalls : c.do # "answer"
  BY DEF WorkCalls, Messages, Plots, RunsOfIt
<1>4. /\ call[j] \in 1 .. Work(j) + 1
      /\ call[j] = Work(j) + 1 => Clicked(j) /\ CallOf(j) = Answer
      /\ call[j] # Work(j) + 1 => CallOf(j) = Calls(text)[call[j]] /\ CallOf(j) \in WorkCalls
  BY <1>1, <1>2 DEF CallOf
<1>5. Answer.do = "answer"
  BY DEF Answer, ApiCall
<1>6. do = "answer" <=> call[j] = Work(j) + 1
  BY <1>1, <1>3, <1>4, <1>5
<1>7. ASSUME do # "answer", text = "mm:followasset"
      PROVE  /\ do \in {"write", "upload"} /\ call[j] % 2 = (IF do = "write" THEN 1 ELSE 0)
             /\ do = "write" => CallOf(j).i = 3 + call[j] \div 2
  <2>1. call[j] \in 1 .. Work(j) /\ call[j] % 2 \in {0, 1}
    BY <1>2, <1>4, <1>6, <1>7
  <2> QED
    BY <1>1, <1>4, <1>6, <1>7, <2>1, FollowCalls DEF Work
<1>8. ASSUME do # "answer", text \in BenchmarkTexts
      PROVE  /\ do \in {"say", "benchmark"} /\ (do = "benchmark" <=> call[j] = 2)
             /\ do = "benchmark" => CallOf(j).what \in Kinds
  <2>1. call[j] \in {1, 2}
    BY <1>2, <1>4, <1>6, <1>8, BenchmarkCalls DEF Work
  <2> QED
    BY <1>1, <1>4, <1>6, <1>8, <2>1, BenchmarkCalls
<1>9. ASSUME do # "answer", text \notin BenchmarkTexts \cup {"mm:followasset"}
      PROVE  do \in {"say", "edit"}
  <2>1. Calls(text) \in Seq(Messages) /\ call[j] \in 1 .. Len(Calls(text))
    BY <1>2, <1>4, <1>6, <1>9, MessageCalls DEF Work
  <2>2. CallOf(j) \in Messages
    BY <1>4, <1>6, <1>9, <2>1
  <2> QED
    BY <1>1, <2>2 DEF Messages
<1>10. text \in BenchmarkTexts => Work(j) = 2
  BY BenchmarkCalls DEF Work
<1>11. "mm:followasset" \notin BenchmarkTexts
  BY DEF BenchmarkTexts
<1> QED
  BY <1>1, <1>2, <1>4, <1>6, <1>7, <1>8, <1>9, <1>10, <1>11

\* What a job keeps through the steps of others: the file is written only by jobs
\* that follow the asset.
LEMMA OtherJobIsSound ==
    ASSUME NEW j \in Runs, JobIsSound(j),
           asked'[j] = asked[j], job'[j] = job[j], call'[j] = call[j], shown'[j] = shown[j],
           spinner'[j] = spinner[j], result'[j] = result[j], matched'[j] = matched[j],
           shared \subseteq shared', png' = png \/ ~Follows(j) \/ j \in shared
    PROVE  JobIsSound(j)'
<1>1. Work(j)' = Work(j) /\ Clicked(j)' = Clicked(j) /\ EndOf(j)' = EndOf(j)
  BY DEF Work, Clicked, EndOf
<1>2. SpinnerFollowsCall(j)'
  BY <1>1 DEF JobIsSound, SpinnerFollowsCall
<1>3. BenchmarkFollowsCall(j)'
  BY DEF JobIsSound, BenchmarkFollowsCall
<1>4. EndIsShown(j)'
  BY <1>1 DEF JobIsSound, EndIsShown
<1>5. PictureIsOwn(j)'
  BY <1>1 DEF JobIsSound, PictureIsOwn, Follows
<1> QED
  BY <1>2, <1>3, <1>4, <1>5 DEF JobIsSound

\* A step of a job that was asked.
LEMMA StepOfJob ==
    ASSUME DemosceneIInv, NEW j \in Runs, job[j] # "none", UNCHANGED <<asked, shared>>,
           job' \in [Runs -> {"none", "running", "benchmark", "done", "failed"}],
           call' \in [Runs -> Nat], spinner' \in [Runs -> {"none", "spinning", "stopped"}],
           DOMAIN shown' = Runs,
           \A i \in Runs \ {j} :
              /\ job'[i] = job[i] /\ call'[i] = call[i] /\ shown'[i] = shown[i]
              /\ spinner'[i] = spinner[i] /\ result'[i] = result[i] /\ matched'[i] = matched[i],
           job'[j] # "none", job'[j] = "running" => job[j] = "running" \/ asked[j].text \in BenchmarkTexts,
           call'[j] \in 1 .. Work(j) + 2, Clicked(j) \/ call'[j] <= Work(j) + 1,
           png' = png \/ Follows(j), JobIsSound(j)'
    PROVE  JobTypeOK' /\ FollowersShare' /\ \A i \in Runs : JobIsSound(i)'
<1>1. \A i \in Runs : Work(i)' = Work(i) /\ Clicked(i)' = Clicked(i)
  BY DEF Work, Clicked
<1>2. JobTypeOK'
  BY <1>1 DEF DemosceneIInv, JobTypeOK
<1>3. \A i \in Runs : Follows(i)' => Follows(i)
  BY DEF Follows, BenchmarkTexts
<1>4. FollowersShare'
  BY <1>3 DEF DemosceneIInv, FollowersShare
<1>5. ASSUME NEW i \in Runs, i # j PROVE JobIsSound(i)'
  <2>1. png' = png \/ ~Follows(i) \/ i \in shared
    BY <1>5 DEF DemosceneIInv, FollowersShare
  <2> QED
    BY <1>5, <2>1, OtherJobIsSound DEF DemosceneIInv
<1> QED
  BY <1>2, <1>4, <1>5

DemosceneKept == JobTypeOK' /\ FollowersShare' /\ \A i \in Runs : JobIsSound(i)'

LEMMA AskKeeps ==
    ASSUME DemosceneIInv, NEW j \in Runs, Ask(j) PROVE DemosceneKept
<1>1. PICK request \in Requests :
          /\ asked' = [asked EXCEPT ![j] = request]
          /\ spinner' = [spinner EXCEPT ![j] = IF request.by = "click" THEN "spinning" ELSE @]
          /\ shared' = LET others == {i \in Runs : Follows(i)}
                       IN  IF request.text = "mm:followasset" /\ others # {}
                           THEN shared \cup others \cup {j} ELSE shared
  BY DEF Ask
<1>2. /\ job[j] = "none" /\ job' = [job EXCEPT ![j] = "running"]
      /\ call' = [call EXCEPT ![j] = 1]
      /\ UNCHANGED <<benchmarkVars, shown, png>>
  BY DEF Ask
<1>3. UNCHANGED <<result, matched>>
  BY <1>2 DEF benchmarkVars
<1>4. /\ asked'[j] = request /\ job'[j] = "running" /\ call'[j] = 1
      /\ \A i \in Runs \ {j} : /\ asked'[i] = asked[i] /\ job'[i] = job[i] /\ call'[i] = call[i]
                               /\ spinner'[i] = spinner[i]
      /\ spinner'[j] = IF request.by = "click" THEN "spinning" ELSE "none"
      /\ shared \subseteq shared'
  BY <1>1, <1>2 DEF DemosceneIInv, JobTypeOK, JobIsSound, SpinnerFollowsCall
<1>5. /\ \A i \in Runs \ {j} : Work(i)' = Work(i) /\ Clicked(i)' = Clicked(i)
      /\ Work(j)' \in Nat \ {0} /\ (Clicked(j)' <=> request.by = "click")
  BY <1>4, CallsOfRequest DEF Work, Clicked
<1>6. JobTypeOK'
  <2>1. /\ job' \in [Runs -> {"none", "running", "benchmark", "done", "failed"}]
        /\ call' \in [Runs -> Nat]
        /\ spinner' \in [Runs -> {"none", "spinning", "stopped"}]
        /\ DOMAIN asked' = Runs /\ DOMAIN shown' = Runs
    BY <1>1, <1>2, <1>4 DEF DemosceneIInv, JobTypeOK
  <2>2. ASSUME NEW i \in Runs, job'[i] # "none"
        PROVE  /\ asked'[i] \in Requests
               /\ call'[i] \in 1 .. Work(i)' + 2
               /\ Clicked(i)' \/ call'[i] <= Work(i)' + 1
    BY <1>4, <1>5, <2>2 DEF DemosceneIInv, JobTypeOK
  <2> QED
    BY <2>1, <2>2 DEF JobTypeOK
<1>7. FollowersShare'
  <2>1. ASSUME NEW i \in Runs, NEW k \in Runs, Follows(i)', Follows(k)', i # k, i # j
        PROVE  {i, k} \subseteq shared'
    <3>1. Follows(i) /\ (k # j => Follows(k))
      BY <1>4, <2>1 DEF Follows
    <3>2. k = j => request.text = "mm:followasset"
      BY <1>4, <2>1 DEF Follows
    <3> QED
      BY <1>1, <1>4, <2>1, <3>1, <3>2 DEF DemosceneIInv, FollowersShare
  <2> QED
    BY <2>1 DEF FollowersShare
<1>8. ASSUME NEW i \in Runs, i # j PROVE JobIsSound(i)'
  BY <1>2, <1>3, <1>4, <1>8, OtherJobIsSound DEF DemosceneIInv
<1>9. JobIsSound(j)'
  <2>1. SpinnerFollowsCall(j)'
    <3>1. call'[j] # Work(j)' + 2
      BY <1>4, <1>5
    <3> QED
      BY <1>4, <1>5, <3>1 DEF SpinnerFollowsCall
  <2>2. BenchmarkFollowsCall(j)'
    BY <1>2, <1>3, <1>4 DEF DemosceneIInv, JobIsSound, BenchmarkFollowsCall
  <2>3. EndIsShown(j)'
    BY <1>4, <1>5 DEF EndIsShown
  <2>4. PictureIsOwn(j)'
    BY <1>4, <1>5 DEF PictureIsOwn
  <2> QED
    BY <2>1, <2>2, <2>3, <2>4 DEF JobIsSound
<1> QED
  BY <1>6, <1>7, <1>8, <1>9 DEF DemosceneKept

\* A call that fails ends the job, before its end.
LEMMA FailKeeps ==
    ASSUME DemosceneIInv, NEW j \in Runs, NEW do, At(j, do), Fails(j) PROVE DemosceneKept
<1>1. /\ job' = [job EXCEPT ![j] = "failed"]
      /\ UNCHANGED <<asked, call, shown, spinner, png, shared, result, matched>>
  BY DEF Fails, benchmarkVars
<1>2. /\ job[j] = "running" /\ asked[j] \in Requests /\ call[j] \in 1 .. Work(j) + 1
      /\ Work(j) \in Nat \ {0} /\ (call[j] = Work(j) + 1 => Clicked(j))
  BY CallsAt DEF DemosceneIInv
<1>3. /\ job'[j] = "failed" /\ job' \in [Runs -> {"none", "running", "benchmark", "done", "failed"}]
      /\ \A i \in Runs \ {j} : job'[i] = job[i]
  BY <1>1 DEF DemosceneIInv, JobTypeOK
<1>4. Work(j)' = Work(j) /\ Clicked(j)' = Clicked(j) /\ EndOf(j)' = EndOf(j)
  BY <1>1 DEF Work, Clicked, EndOf
<1>5. JobIsSound(j)'
  <2>1. SpinnerFollowsCall(j)'
    <3>1. call[j] < Work(j) + (IF Clicked(j) THEN 2 ELSE 1)
      BY <1>2
    <3>2. spinner[j] = IF ~Clicked(j) THEN "none"
                       ELSE IF call[j] = Work(j) + 2 THEN "stopped" ELSE "spinning"
      BY <1>2 DEF DemosceneIInv, JobIsSound, SpinnerFollowsCall
    <3> QED
      BY <1>1, <1>3, <1>4, <3>1, <3>2 DEF SpinnerFollowsCall
  <2>2. BenchmarkFollowsCall(j)'
    BY <1>1, <1>2, <1>3 DEF DemosceneIInv, JobIsSound, BenchmarkFollowsCall
  <2>3. EndIsShown(j)' /\ PictureIsOwn(j)'
    BY <1>1, <1>2, <1>3, <1>4 DEF DemosceneIInv, JobIsSound, EndIsShown, PictureIsOwn
  <2> QED
    BY <2>1, <2>2, <2>3 DEF JobIsSound
<1> QED
  BY <1>1, <1>2, <1>3, <1>5, StepOfJob DEF DemosceneKept, DemosceneIInv, JobTypeOK

\* A message is sent or edited.
LEMMA ShowKeeps ==
    ASSUME DemosceneIInv, NEW j \in Runs, Shows(j) PROVE DemosceneKept
<1>1. PICK do \in {"say", "edit", "upload"} : At(j, do)
  BY DEF Shows
<1>2. CASE Fails(j)
  BY <1>1, <1>2, FailKeeps
<1>3. CASE ~Fails(j)
  <2>1. /\ Continue(j)
        /\ shown' = [shown EXCEPT ![j] = IF CallOf(j).do = "upload" THEN png ELSE CallOf(j)]
        /\ UNCHANGED <<asked, job, spinner, png, shared, result, matched>>
    BY <1>3 DEF Shows, benchmarkVars
  <2>2. /\ job[j] = "running" /\ asked[j] \in Requests /\ call[j] \in 1 .. Work(j)
        /\ Work(j) \in Nat \ {0} /\ CallOf(j) = Calls(asked[j].text)[call[j]]
        /\ do = "upload" => asked[j].text = "mm:followasset" /\ call[j] % 2 = 0
        /\ asked[j].text \in BenchmarkTexts => call[j] # 2
        /\ CallOf(j).do = do
    BY <1>1, CallsAt DEF DemosceneIInv, At
  <2>3. /\ call'[j] = call[j] + 1 /\ call' \in [Runs -> Nat]
        /\ shown'[j] = (IF do = "upload" THEN png ELSE CallOf(j)) /\ DOMAIN shown' = Runs
        /\ \A i \in Runs \ {j} : shown'[i] = shown[i] /\ call'[i] = call[i]
    BY <2>1, <2>2 DEF DemosceneIInv, JobTypeOK, Continue
  <2>4. Work(j)' = Work(j) /\ (Clicked(j)' <=> Clicked(j)) /\ EndOf(j)' = EndOf(j)
    BY <2>1 DEF Work, Clicked, EndOf
  <2>5. JobIsSound(j)'
    <3>1. SpinnerFollowsCall(j)'
      <4>1. spinner[j] = IF ~Clicked(j) THEN "none" ELSE "spinning"
        BY <2>2 DEF DemosceneIInv, JobIsSound, SpinnerFollowsCall
      <4>2. call'[j] # Work(j) + 2
        BY <2>2, <2>3
      <4> QED
        BY <2>1, <2>2, <2>4, <4>1, <4>2 DEF SpinnerFollowsCall
    <3>2. BenchmarkFollowsCall(j)'
      <4>1. asked[j].text \in BenchmarkTexts => Work(j) = 2 /\ call[j] = 1 /\ call'[j] = 2
        BY <2>2, <2>3, BenchmarkCalls DEF Work
      <4>2. /\ asked[j].text \notin BenchmarkTexts => result[j] = "none"
            /\ asked[j].text \in BenchmarkTexts => result[j] = "none"
        BY <2>2, <4>1 DEF DemosceneIInv, JobIsSound, BenchmarkFollowsCall
      <4> QED
        BY <2>1, <2>2, <4>1, <4>2 DEF BenchmarkFollowsCall
    <3>3. EndIsShown(j)'
      <4>1. ASSUME call'[j] > Work(j), EndOf(j).do = "say" PROVE shown'[j] = EndOf(j)
        <5>1. CallOf(j) = EndOf(j)
          BY <2>2, <2>3, <4>1 DEF EndOf, Work
        <5> QED
          BY <2>2, <2>3, <4>1, <5>1
      <4> QED
        BY <2>4, <4>1 DEF EndIsShown
    <3>4. PictureIsOwn(j)'
      <4>1. ASSUME asked[j].text = "mm:followasset", j \notin shared
            PROVE  /\ call'[j] % 2 = 1
                   /\ call'[j] > Work(j) => shown'[j] = Picture(j, Quotes)
        <5>1. do = "upload" /\ Work(j) = 2 * (Quotes - 2)
          <6>1. CallOf(j).do \in {"write", "upload"}
            <7>1. CallOf(j) \in Plots
              BY <2>2, <4>1, FollowCalls DEF Work
            <7> QED
              BY <7>1 DEF Plots
          <6> QED
            BY <2>2, <4>1, <6>1, FollowCalls DEF Work
        <5>2. png = Picture(j, 2 + call[j] \div 2)
          BY <2>2, <4>1, <5>1 DEF DemosceneIInv, JobIsSound, PictureIsOwn
        <5>3. call'[j] % 2 = 1
          BY <2>2, <2>3, <5>1
        <5>4. call'[j] > Work(j) => 2 + call[j] \div 2 = Quotes
          <6>1. Quotes \in Nat
            BY QuotesAssumption DEF QuotesAssumption
          <6> QED
            BY <2>2, <2>3, <5>1, <6>1
        <5> QED
          BY <2>3, <5>1, <5>2, <5>3, <5>4
      <4> QED
        BY <2>1, <2>4, <4>1 DEF PictureIsOwn
    <3> QED
      BY <3>1, <3>2, <3>3, <3>4 DEF JobIsSound
  <2> QED
    BY <2>1, <2>2, <2>3, <2>5, StepOfJob DEF DemosceneKept, DemosceneIInv, JobTypeOK
<1> QED
  BY <1>2, <1>3

\* The picture of the next quote is written to the file.
LEMMA WriteKeeps ==
    ASSUME DemosceneIInv, NEW j \in Runs, WritesPng(j) PROVE DemosceneKept
<1>1. At(j, "write")
  BY DEF WritesPng
<1>2. CASE Fails(j)
  BY <1>1, <1>2, FailKeeps
<1>3. CASE ~Fails(j)
  <2>1. /\ Continue(j) /\ png' = Picture(j, CallOf(j).i)
        /\ UNCHANGED <<asked, job, shown, spinner, shared, result, matched>>
    BY <1>3 DEF WritesPng, benchmarkVars
  <2>2. /\ job[j] = "running" /\ asked[j] \in Requests /\ call[j] \in 1 .. Work(j)
        /\ Work(j) \in Nat \ {0} /\ asked[j].text = "mm:followasset"
        /\ call[j] % 2 = 1 /\ CallOf(j).i = 3 + call[j] \div 2
    BY <1>1, CallsAt DEF DemosceneIInv
  <2>3. /\ call'[j] = call[j] + 1 /\ call' \in [Runs -> Nat]
        /\ \A i \in Runs \ {j} : call'[i] = call[i]
    BY <2>1, <2>2 DEF DemosceneIInv, JobTypeOK, Continue
  <2>4. Work(j)' = Work(j) /\ (Clicked(j)' <=> Clicked(j)) /\ EndOf(j)' = EndOf(j)
    BY <2>1 DEF Work, Clicked, EndOf
  <2>5. /\ Work(j) % 2 = 0 /\ EndOf(j).do = "upload" /\ call'[j] <= Work(j)
        /\ 3 + call[j] \div 2 = 2 + call'[j] \div 2
    <3>1. Work(j) = 2 * (Quotes - 2) /\ Quotes \in Nat
      BY <2>2, FollowCalls, QuotesAssumption DEF Work, QuotesAssumption
    <3>2. Work(j) % 2 = 0
      BY <3>1
    <3>3. EndOf(j).do = "upload"
      BY <2>2, <3>2, FollowCalls DEF EndOf, Work
    <3> QED
      BY <2>2, <2>3, <3>2, <3>3
  <2>6. JobIsSound(j)'
    <3>1. SpinnerFollowsCall(j)'
      <4>1. spinner[j] = IF ~Clicked(j) THEN "none" ELSE "spinning"
        BY <2>2 DEF DemosceneIInv, JobIsSound, SpinnerFollowsCall
      <4>2. call'[j] # Work(j) + 2
        BY <2>2, <2>3
      <4> QED
        BY <2>1, <2>2, <2>4, <4>1, <4>2 DEF SpinnerFollowsCall
    <3>2. BenchmarkFollowsCall(j)'
      BY <2>1, <2>2 DEF DemosceneIInv, JobIsSound, BenchmarkFollowsCall, BenchmarkTexts
    <3>3. EndIsShown(j)'
      BY <2>4, <2>5 DEF EndIsShown
    <3>4. PictureIsOwn(j)'
      <4>1. ~(call'[j] > Work(j)) /\ png' = Picture(j, 2 + call'[j] \div 2)
        BY <2>1, <2>2, <2>3, <2>5
      <4> QED
        BY <2>4, <4>1 DEF PictureIsOwn
    <3> QED
      BY <3>1, <3>2, <3>3, <3>4 DEF JobIsSound
  <2> QED
    BY <2>1, <2>2, <2>3, <2>6, StepOfJob DEF DemosceneKept, DemosceneIInv, JobTypeOK, Follows
<1> QED
  BY <1>2, <1>3

\* The click is answered, after all the work.
LEMMA AnswerKeeps ==
    ASSUME DemosceneIInv, NEW j \in Runs, StopsSpinner(j) PROVE DemosceneKept
<1>1. At(j, "answer")
  BY DEF StopsSpinner
<1>2. CASE Fails(j)
  BY <1>1, <1>2, FailKeeps
<1>3. CASE ~Fails(j)
  <2>1. /\ Continue(j) /\ spinner' = [spinner EXCEPT ![j] = "stopped"]
        /\ UNCHANGED <<asked, job, shown, png, shared, result, matched>>
    BY <1>3 DEF StopsSpinner, benchmarkVars
  <2>2. /\ job[j] = "running" /\ asked[j] \in Requests /\ call[j] = Work(j) + 1
        /\ Work(j) \in Nat \ {0} /\ Clicked(j)
    BY <1>1, CallsAt DEF DemosceneIInv
  <2>3. /\ call'[j] = Work(j) + 2 /\ call' \in [Runs -> Nat]
        /\ \A i \in Runs \ {j} : call'[i] = call[i] /\ spinner'[i] = spinner[i]
        /\ spinner'[j] = "stopped" /\ spinner' \in [Runs -> {"none", "spinning", "stopped"}]
    BY <2>1, <2>2 DEF DemosceneIInv, JobTypeOK, Continue
  <2>4. Work(j)' = Work(j) /\ (Clicked(j)' <=> Clicked(j)) /\ EndOf(j)' = EndOf(j)
    BY <2>1 DEF Work, Clicked, EndOf
  <2>5. JobIsSound(j)'
    <3>1. SpinnerFollowsCall(j)'
      BY <2>1, <2>2, <2>3, <2>4 DEF SpinnerFollowsCall
    <3>2. BenchmarkFollowsCall(j)'
      <4>1. asked[j].text \in BenchmarkTexts => Work(j) = 2
        BY BenchmarkCalls DEF Work
      <4> QED
        BY <2>1, <2>2, <2>3, <4>1 DEF DemosceneIInv, JobIsSound, BenchmarkFollowsCall
    <3>3. EndIsShown(j)' /\ PictureIsOwn(j)'
      <4>1. call[j] > Work(j) /\ ~(call'[j] <= Work(j))
        BY <2>2, <2>3
      <4> QED
        BY <2>1, <2>2, <2>4, <4>1 DEF DemosceneIInv, JobIsSound, EndIsShown, PictureIsOwn
    <3> QED
      BY <3>1, <3>2, <3>3 DEF JobIsSound
  <2> QED
    BY <2>1, <2>2, <2>3, <2>5, StepOfJob DEF DemosceneKept, DemosceneIInv, JobTypeOK
<1> QED
  BY <1>2, <1>3

LEMMA FinishKeeps ==
    ASSUME DemosceneIInv, NEW j \in Runs, Finishes(j) PROVE DemosceneKept
<1>1. /\ job[j] = "running" /\ call[j] > Len(process(asked[j]))
      /\ job' = [job EXCEPT ![j] = "done"]
      /\ UNCHANGED <<asked, call, shown, spinner, png, shared, result, matched>>
  BY DEF Finishes, benchmarkVars
<1>2. /\ asked[j] \in Requests /\ call[j] \in 1 .. Work(j) + 2 /\ (Clicked(j) \/ call[j] <= Work(j) + 1)
  BY <1>1 DEF DemosceneIInv, JobTypeOK
<1>3. /\ Work(j) \in Nat \ {0}
      /\ call[j] = Work(j) + (IF Clicked(j) THEN 2 ELSE 1)
  <2>1. Len(process(asked[j])) = Work(j) + (IF Clicked(j) THEN 1 ELSE 0) /\ Work(j) \in Nat \ {0}
    BY <1>2, CallsOfRequest DEF Work, Clicked
  <2> QED
    BY <1>1, <1>2, <2>1
<1>4. /\ job'[j] = "done" /\ job' \in [Runs -> {"none", "running", "benchmark", "done", "failed"}]
      /\ \A i \in Runs \ {j} : job'[i] = job[i]
  BY <1>1 DEF DemosceneIInv, JobTypeOK
<1>5. Work(j)' = Work(j) /\ (Clicked(j)' <=> Clicked(j)) /\ EndOf(j)' = EndOf(j)
  BY <1>1 DEF Work, Clicked, EndOf
<1>6. JobIsSound(j)'
  <2>1. SpinnerFollowsCall(j)'
    BY <1>1, <1>3, <1>4, <1>5 DEF DemosceneIInv, JobIsSound, SpinnerFollowsCall
  <2>2. BenchmarkFollowsCall(j)'
    BY <1>1, <1>4 DEF DemosceneIInv, JobIsSound, BenchmarkFollowsCall
  <2>3. EndIsShown(j)' /\ PictureIsOwn(j)'
    BY <1>1, <1>4, <1>5 DEF DemosceneIInv, JobIsSound, EndIsShown, PictureIsOwn
  <2> QED
    BY <2>1, <2>2, <2>3 DEF JobIsSound
<1> QED
  BY <1>1, <1>2, <1>4, <1>6, StepOfJob DEF DemosceneKept, DemosceneIInv, JobTypeOK

\* run_benchmark is called.
LEMMA StartKeeps ==
    ASSUME DemosceneIInv, NEW j \in Runs, StartsBenchmark(j)
    PROVE  BenchmarkStep(j) /\ DemosceneKept
<1>1. /\ StartRun(j, CallOf(j).what) /\ job' = [job EXCEPT ![j] = "benchmark"]
      /\ UNCHANGED <<asked, call, shown, spinner, png, shared>>
  BY DEF StartsBenchmark
<1>2. /\ job[j] = "running" /\ asked[j] \in Requests /\ Work(j) \in Nat \ {0}
      /\ asked[j].text \in BenchmarkTexts /\ call[j] = 2 /\ CallOf(j).what \in Kinds
  BY CallsAt DEF DemosceneIInv, StartsBenchmark
<1>3. result[j] = "none" /\ Work(j) = 2
  <2>1. Work(j) = 2
    BY <1>2, BenchmarkCalls DEF Work
  <2> QED
    BY <1>2, <2>1 DEF DemosceneIInv, JobIsSound, BenchmarkFollowsCall
<1>4. BenchmarkStep(j)
  BY <1>1, <1>2, <1>3 DEF BenchmarkStep
<1>5. /\ result'[j] = "running" /\ matched' = matched
      /\ \A i \in Runs \ {j} : result'[i] = result[i]
  BY <1>1 DEF StartRun, DemosceneIInv, BenchmarkIInv, BenchmarkTypeOK
<1>6. /\ job'[j] = "benchmark" /\ job' \in [Runs -> {"none", "running", "benchmark", "done", "failed"}]
      /\ \A i \in Runs \ {j} : job'[i] = job[i]
  BY <1>1 DEF DemosceneIInv, JobTypeOK
<1>7. Work(j)' = Work(j) /\ (Clicked(j)' <=> Clicked(j)) /\ EndOf(j)' = EndOf(j)
  BY <1>1 DEF Work, Clicked, EndOf
<1>8. JobIsSound(j)'
  <2>1. SpinnerFollowsCall(j)'
    BY <1>1, <1>2, <1>6, <1>7 DEF DemosceneIInv, JobIsSound, SpinnerFollowsCall
  <2>2. BenchmarkFollowsCall(j)'
    BY <1>1, <1>2, <1>5, <1>6 DEF BenchmarkFollowsCall
  <2>3. EndIsShown(j)' /\ PictureIsOwn(j)'
    BY <1>1, <1>2, <1>6, <1>7 DEF DemosceneIInv, JobIsSound, EndIsShown, PictureIsOwn
  <2> QED
    BY <2>1, <2>2, <2>3 DEF JobIsSound
<1>9. call[j] \in 1 .. Work(j) + 2 /\ (Clicked(j) \/ call[j] <= Work(j) + 1)
  BY <1>2, <1>3
<1>10. DemosceneKept
  BY <1>1, <1>2, <1>5, <1>6, <1>8, <1>9, StepOfJob DEF DemosceneKept, DemosceneIInv, JobTypeOK
<1> QED
  BY <1>4, <1>10

\* A step of run_benchmark, which may show a report: the job stays where it is, and
\* when the run has succeeded, what it shows is the last report.
LEMMA RunStepKeeps ==
    ASSUME DemosceneIInv, NEW j \in Runs, job[j] = "benchmark", BenchmarkStep(j),
           UNCHANGED <<asked, job, call, spinner, png, shared>>,
           result[j] = "running", result'[j] # "none",
           DOMAIN shown' = Runs, \A i \in Runs \ {j} : shown'[i] = shown[i],
           result'[j] = "ok" => shown'[j] = Report("closed", matched'[j])
    PROVE  DemosceneKept
<1>1. \A i \in Runs \ {j} : result'[i] = result[i] /\ matched'[i] = matched[i]
  BY RunKeeps DEF DemosceneIInv, BenchmarkIInv
<1>2. /\ asked[j] \in Requests /\ asked[j].text \in BenchmarkTexts /\ call[j] = 2
      /\ Work(j) = 2
  <2>1. asked[j] \in Requests /\ asked[j].text \in BenchmarkTexts /\ call[j] = 2
    BY DEF DemosceneIInv, JobTypeOK, JobIsSound, BenchmarkFollowsCall
  <2> QED
    BY <2>1, BenchmarkCalls DEF Work
<1>3. Work(j)' = Work(j) /\ (Clicked(j)' <=> Clicked(j)) /\ EndOf(j)' = EndOf(j)
  BY DEF Work, Clicked, EndOf
<1>4. JobIsSound(j)'
  <2>1. SpinnerFollowsCall(j)'
    BY <1>3 DEF DemosceneIInv, JobIsSound, SpinnerFollowsCall
  <2>2. BenchmarkFollowsCall(j)'
    BY <1>2 DEF BenchmarkFollowsCall
  <2>3. EndIsShown(j)' /\ PictureIsOwn(j)'
    BY <1>2, <1>3 DEF EndIsShown, PictureIsOwn
  <2> QED
    BY <2>1, <2>2, <2>3 DEF JobIsSound
<1>5. call[j] \in 1 .. Work(j) + 2 /\ (Clicked(j) \/ call[j] <= Work(j) + 1)
  BY <1>2
<1> QED
  BY <1>1, <1>2, <1>4, <1>5, StepOfJob DEF DemosceneKept, DemosceneIInv, JobTypeOK

LEMMA DatabaseCallKeeps ==
    ASSUME DemosceneIInv, NEW j \in Runs, CallsDatabase(j)
    PROVE  BenchmarkStep(j) /\ DemosceneKept
<1>1. /\ job[j] = "benchmark" /\ (CallSucceeds(j) \/ CallFails(j))
      /\ UNCHANGED <<asked, job, call, shown, spinner, png, shared>>
  BY DEF CallsDatabase, demosceneVars
<1>2. BenchmarkStep(j)
  BY <1>1 DEF BenchmarkStep
<1>3. result[j] = "running" /\ step[j].do = "call"
  BY <1>1 DEF CallSucceeds, CallFails, IsAt, Current
<1>4. step[j].what # "closed"
  <2>1. step[j] \in StepRecords
    BY <1>3 DEF DemosceneIInv, BenchmarkIInv, RunIsSound, StepIsSound
  <2> QED
    BY <1>3, <2>1 DEF StepRecords, KindOf, DatabaseCalls
<1>5. result'[j] \in {"running", "failed"}
  BY <1>1, <1>3, <1>4 DEF CallSucceeds, CallFails, GoOn, GiveUp, DemosceneIInv, BenchmarkIInv, BenchmarkTypeOK
<1> QED
  BY <1>1, <1>2, <1>3, <1>5, RunStepKeeps DEF DemosceneIInv, JobTypeOK

LEMMA ReportKeeps ==
    ASSUME DemosceneIInv, NEW j \in Runs, Reports(j)
    PROVE  BenchmarkStep(j) /\ DemosceneKept
<1>1. /\ job[j] = "benchmark" /\ UNCHANGED <<asked, job, call, spinner, png, shared>>
      /\ \/ shown' = [shown EXCEPT ![j] = Current(j)] /\ ReportReturns(j, TRUE)
         \/ UNCHANGED shown /\ (ReportReturns(j, FALSE) \/ ReportFails(j))
  BY DEF Reports
<1>2. BenchmarkStep(j)
  BY <1>1 DEF BenchmarkStep
<1>3. DOMAIN shown' = Runs /\ \A i \in Runs \ {j} : shown'[i] = shown[i]
  BY <1>1 DEF DemosceneIInv, JobTypeOK
<1>4. result[j] = "running"
  BY <1>1 DEF ReportReturns, ReportFails, IsAt
<1>5. /\ result \in [Runs -> {"none", "running", "ok", "failed"}]
      /\ step[j] \in StepRecords /\ (step[j].what = "closed" => step[j].i = matched[j])
  BY <1>4 DEF DemosceneIInv, BenchmarkIInv, BenchmarkTypeOK, RunIsSound, StepIsSound
<1>6. CASE ReportFails(j)
  <2>1. result'[j] = "failed"
    BY <1>5, <1>6 DEF ReportFails, GiveUp
  <2> QED
    BY <1>1, <1>2, <1>3, <1>4, <2>1, RunStepKeeps
<1>7. CASE shown' = [shown EXCEPT ![j] = Current(j)] /\ ReportReturns(j, TRUE)
  <2>1. GoOn(j) /\ UNCHANGED matched /\ shown'[j] = step[j]
    BY <1>7 DEF ReportReturns, Current, DemosceneIInv, JobTypeOK
  <2>2. result'[j] \in {"running", "ok"} /\ (result'[j] = "ok" => step[j].what = "closed")
    BY <1>4, <1>5, <2>1 DEF GoOn
  <2>3. step[j].what = "closed" => step[j] = Report("closed", matched[j])
    <3>1. step[j].what = "closed" => step[j].do = "report"
      BY <1>5 DEF StepRecords, KindOf, DatabaseCalls
    <3> QED
      BY <1>5, <3>1 DEF StepRecords, Report
  <2> QED
    BY <1>1, <1>2, <1>3, <1>4, <2>1, <2>2, <2>3, RunStepKeeps
<1>8. CASE UNCHANGED shown /\ ReportReturns(j, FALSE)
  <2>1. GoOn(j) /\ step[j].do = "note"
    BY <1>8 DEF ReportReturns, IsAt, Current
  <2>2. step[j].what # "closed"
    BY <1>5, <2>1 DEF StepRecords, KindOf, DatabaseCalls
  <2>3. result'[j] = "running"
    BY <1>4, <1>5, <2>1, <2>2 DEF GoOn
  <2> QED
    BY <1>1, <1>2, <1>3, <1>4, <2>3, RunStepKeeps
<1> QED
  BY <1>1, <1>6, <1>7, <1>8

\* run_benchmark has returned: with an error, `?` ends the job.
LEMMA EndKeeps ==
    ASSUME DemosceneIInv, NEW j \in Runs, EndsBenchmark(j) PROVE DemosceneKept
<1>1. /\ job[j] = "benchmark"
      /\ \/ result[j] = "ok" /\ Continue(j) /\ job' = [job EXCEPT ![j] = "running"]
         \/ result[j] = "failed" /\ job' = [job EXCEPT ![j] = "failed"] /\ UNCHANGED call
      /\ UNCHANGED <<asked, shown, spinner, png, shared, result, matched>>
  BY DEF EndsBenchmark, benchmarkVars
<1>2. /\ asked[j] \in Requests /\ asked[j].text \in BenchmarkTexts /\ call[j] = 2 /\ Work(j) = 2
  <2>1. asked[j] \in Requests /\ asked[j].text \in BenchmarkTexts /\ call[j] = 2
    BY <1>1 DEF DemosceneIInv, JobTypeOK, JobIsSound, BenchmarkFollowsCall
  <2> QED
    BY <2>1, BenchmarkCalls DEF Work
<1>3. /\ call' \in [Runs -> Nat] /\ job' \in [Runs -> {"none", "running", "benchmark", "done", "failed"}]
      /\ \A i \in Runs \ {j} : job'[i] = job[i] /\ call'[i] = call[i]
      /\ \/ result[j] = "ok" /\ call'[j] = 3 /\ job'[j] = "running"
         \/ result[j] = "failed" /\ call'[j] = 2 /\ job'[j] = "failed"
  BY <1>1, <1>2 DEF DemosceneIInv, JobTypeOK, Continue
<1>4. Work(j)' = Work(j) /\ (Clicked(j)' <=> Clicked(j)) /\ EndOf(j)' = EndOf(j)
  BY <1>1 DEF Work, Clicked, EndOf
<1>5. JobIsSound(j)'
  <2>1. SpinnerFollowsCall(j)'
    BY <1>1, <1>2, <1>3, <1>4 DEF DemosceneIInv, JobIsSound, SpinnerFollowsCall
  <2>2. BenchmarkFollowsCall(j)'
    BY <1>1, <1>2, <1>3 DEF DemosceneIInv, JobIsSound, BenchmarkFollowsCall
  <2>3. EndIsShown(j)' /\ PictureIsOwn(j)'
    <3>1. EndOf(j).do = "benchmark" /\ asked[j].text # "mm:followasset"
      BY <1>2, BenchmarkCalls DEF EndOf, BenchmarkTexts
    <3> QED
      BY <1>1, <1>4, <3>1 DEF EndIsShown, PictureIsOwn
  <2> QED
    BY <2>1, <2>2, <2>3 DEF JobIsSound
<1>6. call'[j] \in 1 .. Work(j) + 2 /\ (Clicked(j) \/ call'[j] <= Work(j) + 1)
  BY <1>2, <1>3
<1> QED
  BY <1>1, <1>2, <1>3, <1>5, <1>6, StepOfJob DEF DemosceneKept, DemosceneIInv, JobTypeOK

-----------------------------------------------------------------------------
(* The invariants of the demo scene.                                       *)

LEMMA DemosceneStarts == DemosceneInit => DemosceneIInv
<1> SUFFICES ASSUME DemosceneInit PROVE DemosceneIInv
  OBVIOUS
<1>1. BenchmarkIInv
  BY BenchmarkStarts DEF DemosceneInit
<1>2. \A j \in Runs : job[j] = "none" /\ spinner[j] = "none" /\ result[j] = "none"
  BY DEF DemosceneInit, BenchmarkInit
<1>3. JobTypeOK /\ FollowersShare
  BY DEF DemosceneInit, JobTypeOK, FollowersShare, Follows
<1>4. \A j \in Runs : JobIsSound(j)
  BY <1>2 DEF JobIsSound, SpinnerFollowsCall, BenchmarkFollowsCall, EndIsShown, PictureIsOwn
<1> QED
  BY <1>1, <1>3, <1>4 DEF DemosceneIInv

LEMMA DemosceneStep == DemosceneIInv /\ [DemosceneNext]_telegramVars => DemosceneIInv'
<1> SUFFICES ASSUME DemosceneIInv, [DemosceneNext]_telegramVars PROVE DemosceneIInv'
  OBVIOUS
<1> USE DEF DemosceneIInv
<1>1. ASSUME NEW j \in Runs, Ask(j) PROVE DemosceneIInv'
  BY <1>1, AskKeeps, BenchmarkStutters DEF Ask, DemosceneKept
<1>2. ASSUME NEW j \in Runs, Shows(j) PROVE DemosceneIInv'
  BY <1>2, ShowKeeps, BenchmarkStutters DEF Shows, Fails, DemosceneKept
<1>3. ASSUME NEW j \in Runs, WritesPng(j) PROVE DemosceneIInv'
  BY <1>3, WriteKeeps, BenchmarkStutters DEF WritesPng, Fails, DemosceneKept
<1>4. ASSUME NEW j \in Runs, StopsSpinner(j) PROVE DemosceneIInv'
  BY <1>4, AnswerKeeps, BenchmarkStutters DEF StopsSpinner, Fails, DemosceneKept
<1>5. ASSUME NEW j \in Runs, Finishes(j) PROVE DemosceneIInv'
  BY <1>5, FinishKeeps, BenchmarkStutters DEF Finishes, DemosceneKept
<1>6. ASSUME NEW j \in Runs, StartsBenchmark(j) PROVE DemosceneIInv'
  BY <1>6, StartKeeps, BenchmarkKeeps DEF DemosceneKept
<1>7. ASSUME NEW j \in Runs, CallsDatabase(j) PROVE DemosceneIInv'
  BY <1>7, DatabaseCallKeeps, BenchmarkKeeps DEF DemosceneKept
<1>8. ASSUME NEW j \in Runs, Reports(j) PROVE DemosceneIInv'
  BY <1>8, ReportKeeps, BenchmarkKeeps DEF DemosceneKept
<1>9. ASSUME NEW j \in Runs, EndsBenchmark(j) PROVE DemosceneIInv'
  BY <1>9, EndKeeps, BenchmarkStutters DEF EndsBenchmark, DemosceneKept
<1>10. CASE UNCHANGED telegramVars
  <2>1. UNCHANGED <<benchmarkVars, asked, job, call, shown, spinner, png, shared>>
    BY <1>10 DEF telegramVars, demosceneVars
  <2>2. UNCHANGED <<result, matched>>
    BY <2>1 DEF benchmarkVars
  <2>3. BenchmarkIInv'
    BY <2>1, BenchmarkStutters
  <2>4. \A j \in Runs : Work(j)' = Work(j) /\ (Clicked(j)' <=> Clicked(j))
                        /\ (Follows(j)' <=> Follows(j))
    BY <2>1 DEF Work, Clicked, Follows
  <2>5. JobTypeOK' /\ FollowersShare'
    BY <2>1, <2>4 DEF JobTypeOK, FollowersShare
  <2>6. \A j \in Runs : JobIsSound(j)'
    BY <2>1, <2>2, OtherJobIsSound
  <2> QED
    BY <2>3, <2>5, <2>6
<1> QED
  BY <1>1, <1>2, <1>3, <1>4, <1>5, <1>6, <1>7, <1>8, <1>9, <1>10 DEF DemosceneNext, Works

LEMMA DemosceneIsSafe == DemosceneIInv => DemosceneInv
<1> SUFFICES ASSUME DemosceneIInv PROVE DemosceneInv
  OBVIOUS
<1>1. ASSUME NEW j \in Runs
      PROVE  /\ spinner[j] = "stopped"
                   => CASE EndOf(j).do = "benchmark" -> shown[j] = Report("closed", matched[j])
                        [] EndOf(j).do = "say"       -> shown[j] = EndOf(j)
                        [] OTHER                     -> TRUE
             /\ job[j] = "done" => spinner[j] # "spinning"
             /\ job[j] = "failed" => spinner[j] # "stopped"
  <2>1. job[j] # "none" => asked[j] \in Requests /\ Work(j) \in Nat \ {0}
    BY CallsOfRequest DEF DemosceneIInv, JobTypeOK, Work
  <2>2. SpinnerFollowsCall(j) /\ BenchmarkFollowsCall(j) /\ EndIsShown(j)
    BY DEF DemosceneIInv, JobIsSound
  <2>3. spinner[j] = "stopped" => job[j] # "none" /\ Clicked(j) /\ call[j] = Work(j) + 2
    BY <2>2 DEF SpinnerFollowsCall
  <2>4. spinner[j] = "stopped" /\ EndOf(j).do = "say" => shown[j] = EndOf(j)
    BY <2>1, <2>2, <2>3 DEF EndIsShown
  <2>5. ASSUME spinner[j] = "stopped", EndOf(j).do = "benchmark"
        PROVE  shown[j] = Report("closed", matched[j])
    <3>1. asked[j].text \in BenchmarkTexts
      <4>1. asked[j].text \in Texts
        BY <2>1, <2>3, <2>5, CallsOfRequest
      <4>2. CASE asked[j].text = "mm:followasset"
        <5>1. EndOf(j) \in Plots
          BY <4>2, FollowCalls DEF EndOf
        <5> QED
          BY <2>5, <5>1 DEF Plots
      <4>3. CASE asked[j].text \in Texts \ (BenchmarkTexts \cup {"mm:followasset"})
        <5>1. EndOf(j) \in Messages
          BY <4>3, MessageCalls DEF EndOf
        <5> QED
          BY <2>5, <5>1 DEF Messages
      <4> QED
        BY <4>1, <4>2, <4>3
    <3>2. Work(j) = 2
      BY <3>1, BenchmarkCalls DEF Work
    <3>3. result[j] = "ok"
      BY <2>2, <2>3, <2>5, <3>1, <3>2 DEF BenchmarkFollowsCall
    <3> QED
      BY <2>2, <2>3, <2>5, <3>1, <3>3 DEF BenchmarkFollowsCall
  <2>6. (job[j] = "done" => spinner[j] # "spinning") /\ (job[j] = "failed" => spinner[j] # "stopped")
    BY <2>1, <2>2 DEF SpinnerFollowsCall
  <2> QED
    BY <2>4, <2>5, <2>6
<1>2. ASSUME NEW j \in Runs, job[j] = "done", asked[j].text = "mm:followasset", j \notin shared
      PROVE  shown[j] = Picture(j, Quotes)
  <2>1. asked[j] \in Requests /\ Work(j) \in Nat \ {0}
    BY <1>2, CallsOfRequest DEF DemosceneIInv, JobTypeOK, Work
  <2>2. call[j] > Work(j)
    BY <1>2, <2>1 DEF DemosceneIInv, JobIsSound, SpinnerFollowsCall
  <2> QED
    BY <1>2, <2>2 DEF DemosceneIInv, JobIsSound, PictureIsOwn
<1> QED
  BY <1>1, <1>2 DEF DemosceneInv, SpinnerStopsAtTheEnd, OwnPictureUnlessShared

LEMMA DemosceneIsInductive == DemosceneSpec => []DemosceneIInv
  BY DemosceneStarts, DemosceneStep, PTL DEF DemosceneSpec

\* The dialog calls run_benchmark once for a job, and its steps are steps of the
\* benchmarks or leave them alone: the demo scene implements BenchmarkSpec, and what
\* holds of the benchmarks holds in it.
THEOREM DemosceneRunsBenchmarks == DemosceneSpec => BenchmarkSpec
<1>1. DemosceneInit => BenchmarkInit
  BY DEF DemosceneInit
<1>2. DemosceneIInv /\ [DemosceneNext]_telegramVars => [BenchmarkNext]_benchmarkVars
  <2> SUFFICES ASSUME DemosceneIInv, [DemosceneNext]_telegramVars
               PROVE  BenchmarkNext \/ UNCHANGED benchmarkVars
    OBVIOUS
  <2>1. CASE UNCHANGED telegramVars
    BY <2>1 DEF telegramVars
  <2>2. ASSUME NEW j \in Runs, StartsBenchmark(j) \/ CallsDatabase(j) \/ Reports(j)
        PROVE  BenchmarkNext
    BY <2>2, StartKeeps, DatabaseCallKeeps, ReportKeeps DEF BenchmarkNext
  <2>3. ASSUME NEW j \in Runs,
               Ask(j) \/ Shows(j) \/ WritesPng(j) \/ StopsSpinner(j) \/ Finishes(j) \/ EndsBenchmark(j)
        PROVE  UNCHANGED benchmarkVars
    BY <2>3 DEF Ask, Shows, WritesPng, StopsSpinner, Finishes, EndsBenchmark, Fails
  <2> QED
    BY <2>1, <2>2, <2>3 DEF DemosceneNext, Works
<1> QED
  BY <1>1, <1>2, DemosceneIsInductive, PTL DEF DemosceneSpec, BenchmarkSpec

\* The spinner of a button stops only when all the work behind it has succeeded and its
\* end is shown, and a chat that nobody else follows the asset beside sees its own last
\* picture.
THEOREM DemosceneInvariant == DemosceneSpec => []DemosceneInv
  BY DemosceneIsSafe, DemosceneIsInductive, PTL
=============================================================================

--------------------------- MODULE BroadcastBuilder --------------------------
(***************************************************************************)
(* examples/broadcast_builder.rs: one run of the program that has Gemini   *)
(* analyse a bulletin.  It downloads a PDF, asks Gemini, again after a     *)
(* while if Gemini is busy, takes the answer out of the parts of the first *)
(* candidate, and shows it if it is valid.                                 *)
(***************************************************************************)
EXTENDS Integers, Sequences, SequencesExt, FiniteSets

CONSTANTS MaxAttempts, \* MAX_GEMINI_ATTEMPTS: 8
          RetryAfters, \* the seconds a Retry-After header may give; 0: none
          Texts,       \* texts of a part; "whole", "head" and "tail" are JSON, or
                       \* the halves of one
          MaxParts     \* bound: the parts of a candidate

ASSUME BroadcastAssumption ==
    /\ MaxAttempts \in Nat \ {0}
    /\ RetryAfters \subseteq Nat /\ 0 \in RetryAfters
    /\ MaxParts \in Nat

VARIABLES
    phase,    \* "start", "download", "request", "posted", "wait", "answer",
              \* "shown" or "failed"
    pdf,      \* the body of the download, or "none"
    attempts, \* POSTs that were made
    delay,    \* the seconds to wait before the next one
    asked_for,\* history: what the last Retry-After asked for
    answer,   \* the envelope of the 2xx
    analysis  \* what is shown

broadcastVars == <<phase, pdf, attempts, delay, asked_for, answer, analysis>>

\* A body too large, empty or without "%PDF-" near its start is no PDF.
Downloads == {"pdf", "large pdf", "empty", "page"}
HttpStatuses == {"2xx", "408", "429", "5xx", "4xx"}

\* A candidate: how it finished, and its parts; a thought has a text too.
Parts == [thought : BOOLEAN, text : Texts \cup {"blank"}]
Candidates == [finish : {"STOP", "MAX_TOKENS", "not supplied"}, parts : BoundedSeq(Parts, MaxParts)]
NoCandidate == [finish |-> "none", parts |-> <<>>]

\* What the structured output may be: sound, or with one fault.
Faults == {"none", "code fence", "over 4096", "score out of 0..1"}

BroadcastInit ==
    /\ phase = "start" /\ pdf = "none" /\ attempts = 0 /\ delay = 0 /\ asked_for = 0
    /\ answer = NoCandidate /\ analysis = <<>>

Fail == phase' = "failed" /\ UNCHANGED <<pdf, attempts, delay, asked_for, answer, analysis>>

-----------------------------------------------------------------------------
\* main: the key, parse_arguments and the client come before any traffic.
Start == /\ phase = "start"
         /\ \/ phase' = "download" /\ UNCHANGED <<pdf, attempts, delay, asked_for, answer, analysis>>
            \/ Fail

validate_pdf(body) == body = "pdf"

\* download_pdf, of a 2xx or not, and validate_pdf.
Download == /\ phase = "download"
            /\ \/ \E body \in Downloads :
                     /\ pdf' = body
                     /\ phase' = IF validate_pdf(body) THEN "request" ELSE "failed"
                     /\ UNCHANGED <<attempts, delay, asked_for, answer, analysis>>
               \/ Fail

is_retryable_status(status) == status \in {"408", "429", "5xx"}

HeaderOnly(attempt, retry_after) == \* (mutant: the header replaces the backoff)
    IF retry_after # 0 THEN retry_after ELSE 2^(attempt - 1)
backoff_delay_seconds(attempt, retry_after) ==
    LET backoff == 2^(attempt - 1) IN IF retry_after > backoff THEN retry_after ELSE backoff

LastAttempt == attempts = MaxAttempts

\* One POST and its answer; SendPost counts it; without an answer the run fails.
SendPost == /\ phase = "request"
            /\ attempts' = attempts + 1
            /\ phase' = "posted"
            /\ UNCHANGED <<pdf, delay, asked_for, answer, analysis>>

Succeeds == /\ phase = "posted"
            /\ answer' \in Candidates \cup {NoCandidate}
            /\ phase' = "answer"
            /\ UNCHANGED <<pdf, attempts, delay, asked_for, analysis>>

Retries == /\ phase = "posted"
           /\ \E status \in HttpStatuses \ {"2xx"}, retry_after \in RetryAfters :
                 IF ~is_retryable_status(status) \/ LastAttempt THEN Fail
                 ELSE /\ delay' = backoff_delay_seconds(attempts, retry_after)
                      /\ asked_for' = retry_after
                      /\ phase' = "wait"
                      /\ UNCHANGED <<pdf, attempts, answer, analysis>>

NoAnswer == phase = "posted" /\ Fail \* a transport error or a timeout

Waited == /\ phase = "wait"
          /\ phase' = "request"
          /\ UNCHANGED <<pdf, attempts, delay, asked_for, answer, analysis>>

-----------------------------------------------------------------------------
\* The text parts of the candidate, in order, without the thoughts.
extract_generated_text(candidate) ==
    LET parts == candidate.parts
        said[n \in 0 .. Len(parts)] ==
            IF n = 0 THEN <<>>
            ELSE IF parts[n].thought THEN said[n - 1]
            ELSE Append(said[n - 1], parts[n].text)
    IN  said[Len(parts)]

IsAnalysis(text) == SelectSeq(text, LAMBDA t : t # "blank") \in {<<"whole">>, <<"head", "tail">>}
FinishedNormally(candidate) == candidate.finish \in {"STOP", "not supplied"}

\* analyze_pdf, from the body of the 2xx on; the sanitised HTML is thrown away, and
\* the fault is one of what Gemini wrote.
Validated(fault) == fault = "none"
Analyze == /\ phase = "answer"
           /\ \E fault \in Faults :
                 IF answer # NoCandidate /\ FinishedNormally(answer)
                    /\ IsAnalysis(extract_generated_text(answer)) /\ Validated(fault)
                 THEN /\ phase' = "shown"
                      /\ analysis' = extract_generated_text(answer)
                      /\ UNCHANGED <<pdf, attempts, delay, asked_for, answer>>
                 ELSE Fail

BroadcastNext == Start \/ Download \/ SendPost \/ Succeeds \/ Retries \/ NoAnswer \/ Waited \/ Analyze
BroadcastSpec == BroadcastInit /\ [][BroadcastNext]_broadcastVars
BroadcastFairness == WF_broadcastVars(BroadcastNext)

-----------------------------------------------------------------------------
\* Before the n-th POST the run waited for twice as long as before the last one, and
\* at least for what Gemini asked; there are at most eight POSTs, and all of them
\* carry a PDF within Gemini's limits (broadcast_builder.rs:407 and :473).
RetriesBackOff ==
    /\ attempts <= MaxAttempts
    /\ attempts > 0 => pdf = "pdf"
    /\ phase = "wait" => delay >= 2^(attempts - 1) /\ delay >= asked_for

\* What is shown is what Gemini said, all of it and nothing of its thoughts, from a
\* candidate that was not cut short (broadcast_builder.rs:532).
OnlyTheAnswerIsShown ==
    phase = "shown" =>
        /\ answer.finish # "MAX_TOKENS"
        /\ \A i \in DOMAIN answer.parts :
              answer.parts[i].thought \/ \E k \in DOMAIN analysis : analysis[k] = answer.parts[i].text
        /\ Len(analysis) = Cardinality({i \in DOMAIN answer.parts : ~answer.parts[i].thought})

\* The requests are spaced and few, and the answer is shown as it was given.
BroadcastInv == RetriesBackOff /\ OnlyTheAnswerIsShown

\* A run that began to download ends, with the summary or an error, however often
\* Gemini is busy.
BroadcastEnds == phase = "download" ~> phase \in {"shown", "failed"}
=============================================================================

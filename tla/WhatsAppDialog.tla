---------------------------- MODULE WhatsAppDialog ---------------------------
(***************************************************************************)
(* The dialog of the WhatsApp demo scene, src/examples/                    *)
(* whatsapp_demoscene.rs: handle_message answers each message in a task of *)
(* its own, with the action that response_for finds for it.  Benchmarks go *)
(* on in the module WhatsAppBenchmark.                                     *)
(***************************************************************************)
EXTENDS Integers, Sequences

CONSTANTS Messages, \* inbound messages
          Pole,     \* 90 degrees, in units of 100 m of latitude
          NoContent

ASSUME DialogAssumption == Pole \in Nat

VARIABLES
    offered,  \* the choices that were shown to the user so far
    input,    \* the content of each message
    task,     \* "none", "read", "typing", "acting", "done" or "failed"
    replies   \* the replies to each message that were accepted, in order

dialogVars == <<offered, input, task, replies>>

-----------------------------------------------------------------------------
(* The drafts: what they show, and the choices they offer.                 *)

Draft(name, choices) == [name |-> name, offers |-> choices]

menu_draft == Draft("menu", {"demo:list", "demo:location", "demo:inspect"})
list_draft == Draft("list", {"demo:menu", "demo:formatting", "demo:media", "demo:reaction",
                             "demo:quote", "demo:location", "demo:location-request",
                             "demo:cta", "demo:inspect", "demo:benchmarks"})
BenchmarkChoices == {"demo:benchmark:sqlite", "demo:benchmark:redb", "demo:benchmark:heed"}
database_benchmarks_draft == Draft("benchmarks", BenchmarkChoices \cup {"demo:list"})
template_demo_payload == Draft("template", {"demo:list", "demo:location", "demo:inspect"})
embedded_media_drafts ==
    [i \in 1 .. 5 |-> Draft(<<"image", "audio", "voice", "video", "sticker">>[i], {})]

\* A point 100 m south, but not beyond the pole.
BeyondThePole(latitude) == latitude - 1 \* (mutant: without max(-90.0))
Southwards(latitude) == IF latitude - 1 < -Pole THEN -Pole ELSE latitude - 1
OnTheMap(latitude) == latitude \in -Pole .. Pole

-----------------------------------------------------------------------------
(* response_for: the drafts that answer a message, or an error, or a       *)
(* benchmark.  A typed word is the choice it stands for.                   *)

Commands == menu_draft.offers \cup list_draft.offers \cup database_benchmarks_draft.offers
           \cup {"demo:echo"}
Contents == [kind : {"click", "text"}, command : Commands \cup {"other"}]
            \cup [kind : {"location"}, latitude : (-Pole - 1) .. (Pole + 1)]
            \cup [kind : {"image"}]

Plain(name) == <<Draft(name, {})>>

response_for(content) ==
    IF content.kind = "location"
    THEN IF OnTheMap(content.latitude)
         THEN <<[name |-> "shifted", latitude |-> Southwards(content.latitude)]>> ELSE NoContent
    ELSE IF content.kind = "image" THEN Plain("no text")
    ELSE CASE content.command = "demo:menu"       -> <<menu_draft>>
           [] content.command = "demo:list"       -> <<list_draft>>
           [] content.command = "demo:benchmarks" -> <<database_benchmarks_draft>>
           [] content.command = "demo:media"      -> embedded_media_drafts
           [] content.command \in BenchmarkChoices -> <<>>
           [] content.command \in {"demo:formatting", "demo:reaction", "demo:quote",
                  "demo:location", "demo:location-request", "demo:cta", "demo:inspect",
                  "demo:echo"}                    -> Plain(content.command)
           [] OTHER                               -> Plain("echo")

DialogInit ==
    /\ offered = {}
    /\ input = [m \in Messages |-> NoContent]
    /\ task = [m \in Messages |-> "none"]
    /\ replies = [m \in Messages |-> <<>>]

-----------------------------------------------------------------------------
\* A message comes in and gets a task: a click on a choice that was offered, by a
\* template too, or anything a user can write.
Incoming(m) ==
    /\ task[m] = "none"
    /\ \E content \in Contents :
          /\ content.kind = "click"
                => content.command \in offered \cup template_demo_payload.offers
          /\ input' = [input EXCEPT ![m] = content]
    /\ task' = [task EXCEPT ![m] = "read"]
    /\ UNCHANGED <<offered, replies>>

\* set_read and set_replying may fail: nobody minds.
Indicate(m) ==
    /\ task[m] \in {"read", "typing"}
    /\ task' = [task EXCEPT ![m] = IF @ = "read" THEN "typing" ELSE "acting"]
    /\ UNCHANGED <<offered, input, replies>>

\* execute_demo_action: `?` after each reply, or each error.
Offers(draft) == IF draft.name = "shifted" THEN {} ELSE draft.offers
Reply(m) ==
    LET drafts == response_for(input[m])
        draft == drafts[Len(replies[m]) + 1]
    IN  /\ task[m] = "acting"
        /\ drafts # NoContent
        /\ Len(replies[m]) < Len(drafts)
        /\ replies' = [replies EXCEPT ![m] = Append(@, draft)]
        /\ offered' = offered \cup Offers(draft)
        /\ UNCHANGED <<input, task>>

ReplyFails(m) ==
    LET drafts == response_for(input[m])
    IN  /\ task[m] = "acting"
        /\ drafts # NoContent => Len(replies[m]) < Len(drafts)
        /\ task' = [task EXCEPT ![m] = "failed"]
        /\ UNCHANGED <<offered, input, replies>>

Done(m) ==
    LET drafts == response_for(input[m])
    IN  /\ task[m] = "acting"
        /\ drafts # NoContent
        /\ Len(replies[m]) = Len(drafts)
        /\ task' = [task EXCEPT ![m] = "done"]
        /\ UNCHANGED <<offered, input, replies>>

HandleMessage(m) == Indicate(m) \/ Reply(m) \/ ReplyFails(m) \/ Done(m)
DialogNext == \E m \in Messages : Incoming(m) \/ HandleMessage(m)
DialogSpec == DialogInit /\ [][DialogNext]_dialogVars

-----------------------------------------------------------------------------
\* Every choice that a draft, or the template, shows is one that response_for
\* knows: whatever a user clicks, the answer is not the echo of an unknown text.
OffersAreUnderstood ==
    \A m \in Messages :
       input[m] # NoContent /\ input[m].kind = "click" => response_for(input[m]) # Plain("echo")

\* A shared location is answered by a point on the map that is not north of it, and
\* not answered at all if it is not on the map.
ShiftStaysOnTheMap ==
    \A m \in Messages :
       input[m] # NoContent /\ input[m].kind = "location" =>
          IF OnTheMap(input[m].latitude)
          THEN \A i \in DOMAIN replies[m] :
                  OnTheMap(replies[m][i].latitude) /\ replies[m][i].latitude <= input[m].latitude
          ELSE replies[m] = <<>>

\* What is offered is understood, and what is shared is answered on the map.
DialogInv == OffersAreUnderstood /\ ShiftStaysOnTheMap
=============================================================================

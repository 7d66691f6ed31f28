--------------------------- MODULE WhatsAppRequests --------------------------
(***************************************************************************)
(* The signed webhook of the WhatsApp demo scene: handle_signed_webhook of *)
(* src/examples/whatsapp_demoscene.rs, and the deliveries of Meta, which   *)
(* repeats a POST until it sees a status 200.                              *)
(*                                                                         *)
(* A body is a sequence of changes (the entries around them play no part), *)
(* each with its statuses and its messages; a field is Absent or a list.   *)
(* The WebhookService of whatsapp-business-rs is external: it refuses a    *)
(* body it cannot parse, and starts a task for each item of another.       *)
(***************************************************************************)
EXTENDS Integers, Sequences, SequencesExt

CONSTANTS Bodies,        \* the bodies that Meta, or somebody else, sends
          MaxDeliveries, \* bound of this model: the deliveries of a body
          Absent

StatusItems  == {"sent", "no_id"}
MessageItems == {"text", "button", "bad_button"}
ASSUME RequestsAssumption ==
    /\ Bodies \subseteq [json : BOOLEAN, object : {"whatsapp_business_account", "page", "none"},
                        changes : Seq([statuses : {Absent} \cup Seq(StatusItems),
                                       messages : {Absent} \cup Seq(MessageItems)])]
    /\ Absent \notin Seq(MessageItems \cup {"interactive"})

VARIABLES
    request,    \* the request being delivered
    deliveries, \* how often it was delivered
    status,     \* the status of the last answer, 0 before it
    accepted,   \* how many answers were 200
    logged,     \* the statuses that log_status_updates printed: for each 200
                \* that it was called for, the list of each change
    dispatched  \* the items that the service started tasks for, likewise

requestVars == <<request, deliveries, status, accepted, logged, dispatched>>

Senders == {"signed", "unsigned", "too_large"}

IsJson(body) == body.json
Field(change, name) == IF change[name] = Absent THEN <<>> ELSE change[name]
Items(changes) ==
    [i \in DOMAIN changes |-> Field(changes[i], "statuses") \o Field(changes[i], "messages")]
Statuses(changes) == [i \in DOMAIN changes |-> Field(changes[i], "statuses")]
HasStatuses(changes) == \E i \in DOMAIN changes : Statuses(changes)[i] # <<>>

RequestsInit ==
    /\ request \in [body : Bodies, sender : Senders]
    /\ deliveries = 0
    /\ status = 0
    /\ accepted = 0
    /\ logged = <<>>
    /\ dispatched = <<>>

-----------------------------------------------------------------------------
\* "messages" decides, in any change; a change without statuses, and a status
\* without its id, leave the body to the service as well.
StatusesAnywhere(body) == \* (mutant: messages beside them do not matter)
    /\ IsJson(body)
    /\ body.object = "whatsapp_business_account"
    /\ HasStatuses(body.changes)
status_updates_if_only(body) ==
    /\ IsJson(body)
    /\ body.object = "whatsapp_business_account"
    /\ \A i \in DOMAIN body.changes :
          /\ body.changes[i].messages = Absent
          /\ body.changes[i].statuses # Absent
          /\ "no_id" \notin ToSet(Statuses(body.changes)[i])
    /\ HasStatuses(body.changes)

\* The callback of a template button in the shape of an interactive one.
Adapted(message) == IF message = "button" THEN "interactive" ELSE message
AllAdapted(messages) == [i \in DOMAIN messages |-> Adapted(messages[i])]

InvalidCallback(body) ==
    /\ IsJson(body)
    /\ \E i \in DOMAIN body.changes :
          "bad_button" \in ToSet(Field(body.changes[i], "messages"))

AdaptedChange(change) ==
    IF change.messages = Absent THEN change
    ELSE [change EXCEPT !.messages = AllAdapted(change.messages)]
normalize_template_quick_reply_callbacks(body) ==
    IF ~IsJson(body) THEN body
    ELSE [body EXCEPT !.changes =
            [i \in DOMAIN body.changes |-> AdaptedChange(body.changes[i])]]

\* The service (external): it understands no template button, and may find fault
\* with a status, whose model asks for fields that Meta leaves out.
Parses(body) ==
    /\ IsJson(body)
    /\ \A i \in DOMAIN body.changes :
          /\ "no_id" \notin ToSet(Field(body.changes[i], "statuses"))
          /\ {"button", "bad_button"} \cap ToSet(Field(body.changes[i], "messages")) = {}

Answer(code) == status' = code /\ UNCHANGED <<accepted, logged, dispatched>>

Service(body) ==
    \/ /\ Parses(body)
       /\ status' = 200
       /\ accepted' = accepted + 1
       /\ dispatched' = Append(dispatched, Items(body.changes))
       /\ UNCHANGED logged
    \/ /\ ~Parses(body) \/ HasStatuses(body.changes)
       /\ Answer(500)

handle_signed_webhook ==
    CASE request.sender = "too_large" -> Answer(413)
      [] request.sender = "unsigned" -> Answer(401)
      [] OTHER ->
           IF status_updates_if_only(request.body)
           THEN /\ status' = 200
                /\ accepted' = accepted + 1
                /\ logged' = Append(logged, Statuses(request.body.changes))
                /\ UNCHANGED dispatched
           ELSE IF InvalidCallback(request.body)
           THEN Answer(400)
           ELSE Service(normalize_template_quick_reply_callbacks(request.body))

\* Meta sends the body again when it was refused, or when the answer was lost.
Deliver ==
    /\ deliveries < MaxDeliveries
    /\ deliveries' = deliveries + 1
    /\ handle_signed_webhook
    /\ UNCHANGED request

RequestsNext == Deliver
RequestsSpec == RequestsInit /\ [][RequestsNext]_requestVars

-----------------------------------------------------------------------------
\* What Meta meant: the items of each change, with the answers of template buttons
\* in the shape that the service understands.
Meant(changes) ==
    [i \in DOMAIN changes |->
        Field(changes[i], "statuses") \o AllAdapted(Field(changes[i], "messages"))]

\* What was acknowledged was seen, every item of the body once per acknowledgement
\* and in its order, by the log or by the service, which gets all of a body with a
\* message in it; what was refused, Meta's repetitions included, was not seen at
\* all.  A body so never comes to half of its effects.
AcknowledgedMeansSeen ==
    LET changes == request.body.changes
        hasMessages == \E i \in DOMAIN changes : Field(changes[i], "messages") # <<>>
    IN  /\ Len(logged) + Len(dispatched) = accepted
        /\ ToSet(logged) \cup ToSet(dispatched) \subseteq {Meant(changes)}
        /\ accepted # 0 => request.sender = "signed"
        /\ hasMessages => logged = <<>>

\* A well-formed body is never refused for its template buttons, wherever they
\* are: Meta's repetitions of it would never end.
ButtonsAreUnderstood ==
    /\ request.sender = "signed" /\ status = 500 /\ IsJson(request.body)
          => HasStatuses(request.body.changes)
    /\ status = 400
          => \E i \in DOMAIN request.body.changes :
                "bad_button" \in ToSet(Field(request.body.changes[i], "messages"))

\* Bodies take effect whole, once per acknowledgement, and buttons stop none of them.
RequestsInv == AcknowledgedMeansSeen /\ ButtonsAreUnderstood
=============================================================================

----------------------------- MODULE MCExamples -----------------------------
\* The two programs of examples/: the parts of the WhatsApp demo scene, which share no
\* state, and the broadcast builder.  A behaviour exercises one of them.
EXTENDS WhatsAppBenchmark, WhatsAppServer, WhatsAppRequests, WhatsAppDialog,
        BroadcastBuilder

VARIABLE part
mcVars == <<part, whatsappVars, serverVars, requestVars, dialogVars, broadcastVars>>

MCLists(lists) == {Absent, <<>>} \cup lists
MCChanges == [statuses : MCLists({<<"sent">>, <<"no_id">>}),
              messages : MCLists({<<"text">>, <<"button">>, <<"text", "button">>,
                                  <<"button", "bad_button">>})]
MCBodies == {[json |-> FALSE, object |-> "none", changes |-> <<>>]}
            \cup [json : {TRUE}, object : {"whatsapp_business_account", "page"},
                  changes : BoundedSeq(MCChanges, 2)]

\* What a part is like where another one is exercised.
QuietServer ==
    /\ mode = "help" /\ outcome = "ok" /\ have = {} /\ at = 1 /\ sent = 0
    /\ bound = FALSE /\ server = "none" /\ shutdown = FALSE
    /\ registration = "none" /\ answered = FALSE
    /\ conn = [p \in Peers |-> "away"]

QuietBroadcast ==
    /\ phase = "failed" /\ pdf = "none" /\ attempts = 0 /\ delay = 0 /\ asked_for = 0
    /\ answer = NoCandidate /\ analysis = <<>>

MCInit ==
    /\ part \in {"benchmark", "server", "requests", "dialog", "broadcast"}
    /\ WhatsAppInit
    /\ IF part = "server" THEN ServerInit ELSE QuietServer
    /\ RequestsInit
    /\ part # "requests" => ~request.body.json /\ request.sender = "unsigned"
    /\ DialogInit
    /\ IF part = "broadcast" THEN BroadcastInit ELSE QuietBroadcast

MCNext ==
    \/ /\ part = "benchmark" /\ WhatsAppNext
       /\ \A r, s \in Runs : None \in {kind'[r], kind'[s]} \/ kind'[r] = kind'[s]
       /\ UNCHANGED <<part, serverVars, requestVars, dialogVars, broadcastVars>>
    \/ /\ part = "server" /\ ServerNext
       /\ UNCHANGED <<part, whatsappVars, requestVars, dialogVars, broadcastVars>>
    \/ /\ part = "requests" /\ RequestsNext
       /\ UNCHANGED <<part, whatsappVars, serverVars, dialogVars, broadcastVars>>
    \/ /\ part = "broadcast" /\ BroadcastNext
       /\ UNCHANGED <<part, whatsappVars, serverVars, requestVars, dialogVars>>
    \/ /\ part = "dialog" /\ DialogNext
       /\ UNCHANGED <<part, whatsappVars, serverVars, requestVars, broadcastVars>>

MCSpec == MCInit /\ [][MCNext]_mcVars /\ WhatsAppFairness /\ ServerFairness
          /\ BroadcastFairness

\* Every part comes to its end: the permit of a benchmark comes back, a decided
\* registration returns, a download is shown or fails.
EveryPartEnds == BenchmarksEnd /\ RegistrationEnds /\ BroadcastEnds
=============================================================================

---------------------------- MODULE WhatsAppServer ---------------------------
(***************************************************************************)
(* The program of the WhatsApp demo scene, src/examples/                   *)
(* whatsapp_demoscene.rs: main, its modes, its settings, the webhook       *)
(* server and the registration of the webhook at Meta.                     *)
(*                                                                         *)
(* A mode is the list of its steps: a step needs settings (Config), sends  *)
(* something, or belongs to the server.  Meta, the peers of the listener   *)
(* and axum's server are external.                                         *)
(***************************************************************************)
EXTENDS Integers, Sequences

CONSTANTS Meta,      \* the peer that brings the verification challenge
          Strangers  \* the other peers

VARIABLES
    mode,         \* parse_mode
    have,         \* the settings that are there
    at,           \* the step of main
    outcome,       \* "none", or how main returned
    sent,         \* the requests to Meta that send something, so far
    bound,        \* the listener is bound
    server,       \* "none", "accepting", "closing" or "stopped"
    shutdown,     \* the shutdown signal was given
    conn,         \* the connection of each peer
    registration, \* "none", "asked", or its outcome
    answered      \* Meta's challenge was answered as it expects

serverVars == <<mode, have, at, outcome, sent, bound, server, shutdown, conn,
                registration, answered>>

Peers == Strangers \cup {Meta}
Modes == {"send", "send-template", "send-batch", "serve",
          "register-webhook", "serve-and-register", "help"}
Settings == {"token", "phone", "recipient", "template", "app_id", "secret",
             "verify", "url", "certificate", "key"}

-----------------------------------------------------------------------------
(* The steps of the modes.                                                 *)

Need(settings) == [do |-> "need", settings |-> settings]
Do(what)       == [do |-> what, settings |-> {}]

whatsapp_client == <<Need({"token"}), Do("connect")>>
outbound == <<Need({"phone", "recipient"})>>
app_client == <<Need({"app_id", "verify", "url"}), Need({"secret"}), Do("connect")>>

\* The text, six drafts and five media of send_demos, one after the other.
send_demos == outbound \o [i \in 1 .. 12 |-> Do("send")]
send_template_demo == outbound \o <<Need({"template"}), Need({"token"}), Do("send")>>
send_batch_demo == outbound \o <<Do("send")>>

Listening(needed) ==
    [i \in DOMAIN needed |-> Need({needed[i]})] \o <<Do("load_tls"), Do("bind")>>
register_webhook == <<Need({"app_id", "verify", "url"}), Do("register")>>

register_webhook_with_temporary_server ==
    Listening(<<"verify", "url">>) \o <<Do("spawn")>> \o register_webhook
    \o <<Do("shut_down"), Do("join")>>

serve_webhook(registers) ==
    Listening(<<"verify", "secret", "url">>) \o <<Do("spawn")>>
    \o (IF registers THEN register_webhook \o <<Do("shut_down_if_refused")>> ELSE <<>>)
    \o <<Do("join")>>

StepsOf(m) ==
    CASE m = "send"               -> whatsapp_client \o send_demos
      [] m = "send-template"      -> send_template_demo
      [] m = "send-batch"         -> whatsapp_client \o send_batch_demo
      [] m = "serve"              -> whatsapp_client \o serve_webhook(FALSE)
      [] m = "register-webhook"   -> app_client \o register_webhook_with_temporary_server
      [] m = "serve-and-register" -> whatsapp_client \o app_client \o serve_webhook(TRUE)
      [] m = "help"               -> <<>>

MainAt(what) == outcome = "none" /\ at <= Len(StepsOf(mode)) /\ StepsOf(mode)[at].do = what
Advance == at' = at + 1 /\ UNCHANGED outcome

\* `?`: the client and the listener of main are dropped with it.
Exit(how) ==
    /\ outcome' = how
    /\ bound' = (bound /\ server \notin {"none", "stopped"})
    /\ UNCHANGED at

ServerInit ==
    /\ mode \in Modes
    /\ have \in {Settings} \cup {Settings \ {s} : s \in Settings}
                \cup {Settings \ {"certificate", "key"}}
    /\ at = 1
    /\ outcome = "none"
    /\ sent = 0
    /\ bound = FALSE
    /\ server = "none"
    /\ shutdown = FALSE
    /\ conn = [p \in Peers |-> "away"]
    /\ registration = "none"
    /\ answered = FALSE

-----------------------------------------------------------------------------
(* main.                                                                   *)

world == <<sent, server, shutdown, conn, registration, answered>>

HasSettings ==
    /\ MainAt("need")
    /\ StepsOf(mode)[at].settings \subseteq have
    /\ Advance
    /\ UNCHANGED <<mode, have, bound, world>>

LacksSettings ==
    /\ MainAt("need")
    /\ ~(StepsOf(mode)[at].settings \subseteq have)
    /\ Exit("misconfigured")
    /\ UNCHANGED <<mode, have, world>>

\* webhook_tls_config: both files or neither.  The files may be unreadable.
LoadTls ==
    /\ MainAt("load_tls")
    /\ \/ /\ "certificate" \in have <=> "key" \in have
          /\ Advance
          /\ UNCHANGED bound
       \/ /\ {"certificate", "key"} \cap have # {}
          /\ Exit("misconfigured")
    /\ UNCHANGED <<mode, have, world>>

Connect ==
    /\ MainAt("connect")
    /\ (Advance /\ UNCHANGED bound) \/ Exit("failed")
    /\ UNCHANGED <<mode, have, world>>

SendDemo ==
    /\ MainAt("send")
    /\ \/ Advance /\ sent' = sent + 1 /\ UNCHANGED bound
       \/ Exit("failed") /\ UNCHANGED sent
    /\ UNCHANGED <<mode, have, server, shutdown, conn, registration, answered>>

Bind ==
    /\ MainAt("bind")
    /\ \/ bound' = TRUE /\ Advance
       \/ Exit("failed")
    /\ UNCHANGED <<mode, have, world>>

\* The task of the server, or main itself, which waits for the server at "join".
Spawn ==
    /\ MainAt("spawn")
    /\ server' = "accepting"
    /\ Advance
    /\ UNCHANGED <<mode, have, bound, sent, shutdown, conn, registration, answered>>

\* register_webhook returns; a refusal of it is returned by main only after the
\* server has stopped.
Register ==
    /\ MainAt("register")
    /\ \/ /\ registration = "none"
          /\ registration' = "asked"
          /\ UNCHANGED at
       \/ /\ registration \in {"ok", "refused"}
          /\ at' = at + 1
          /\ UNCHANGED registration
    /\ UNCHANGED <<mode, have, outcome, bound, sent, server, shutdown, conn, answered>>

GivesSignal == MainAt("shut_down") \/ registration = "refused"
ShutDown ==
    /\ \/ MainAt("shut_down")
       \/ MainAt("shut_down_if_refused")
    /\ shutdown' = GivesSignal
    /\ Advance
    /\ UNCHANGED <<mode, have, bound, sent, server, conn, registration, answered>>

NotAwaited == TRUE \* (mutant: the JoinHandle is dropped)
Joined == server = "stopped"
Join ==
    /\ MainAt("join")
    /\ Joined
    /\ Exit(IF registration = "refused" THEN "failed" ELSE "ok")
    /\ UNCHANGED <<mode, have, world>>

Finish ==
    /\ outcome = "none"
    /\ at > Len(StepsOf(mode))
    /\ Exit("ok")
    /\ UNCHANGED <<mode, have, world>>

Main == HasSettings \/ LacksSettings \/ LoadTls \/ Connect \/ SendDemo \/ Bind
        \/ Spawn \/ Register \/ ShutDown \/ Join \/ Finish

-----------------------------------------------------------------------------
(* Meta (external) brings a challenge to the public URL before it accepts  *)
(* the registration, and the client gives it 20 s.                         *)

MetaAccepts ==
    /\ registration = "asked"
    /\ answered
    /\ registration' = "ok"
    /\ UNCHANGED <<mode, have, at, outcome, bound, sent, server, shutdown, conn, answered>>

MetaRefuses ==
    /\ registration = "asked"
    /\ registration' = "refused"
    /\ UNCHANGED <<mode, have, at, outcome, bound, sent, server, shutdown, conn, answered>>

-----------------------------------------------------------------------------
(* The server.  A bound listener queues connections; axum accepts them one *)
(* at a time, through a TLS handshake (TlsListener) when there is TLS, and *)
(* serves those it accepted side by side.                                  *)

Tls == "key" \in have

Connects(p) ==
    /\ bound
    /\ server # "stopped"
    /\ conn[p] = "away"
    /\ p = Meta => registration = "asked" /\ ~answered
    /\ conn' = [conn EXCEPT ![p] = "queued"]
    /\ UNCHANGED <<mode, have, at, outcome, bound, sent, server, shutdown, registration, answered>>

CanAccept(p) == conn[p] = "queued" /\ \A q \in Peers : conn[q] # "handshake"
accept(p) ==
    /\ server = "accepting"
    /\ CanAccept(p)
    /\ conn' = [conn EXCEPT ![p] = IF Tls THEN "handshake" ELSE "request"]
    /\ UNCHANGED <<mode, have, at, outcome, bound, sent, server, shutdown, registration, answered>>

\* The handshake ends, or fails, or lasts 10 s.
HandshakeEnds(p) ==
    /\ conn[p] = "handshake"
    /\ conn' = [conn EXCEPT ![p] = "request"]
    /\ UNCHANGED <<mode, have, at, outcome, bound, sent, server, shutdown, registration, answered>>

HandshakeFails(p) ==
    /\ conn[p] = "handshake"
    /\ conn' = [conn EXCEPT ![p] = "away"]
    /\ UNCHANGED <<mode, have, at, outcome, bound, sent, server, shutdown, registration, answered>>

verify_webhook_challenge(query) ==
    CASE query.mode # "subscribe"    -> 400
      [] query.token # "ours"        -> 403
      [] ~query.challenge            -> 400
      [] OTHER                       -> 200

\* Meta's query holds the token that register_webhook gave it; an answered request
\* ends the connection, and so does a peer that goes away.
MetaQuery == [mode |-> "subscribe", token |-> "ours", challenge |-> TRUE]
RequestEnds(p) ==
    /\ conn[p] = "request"
    /\ conn' = [conn EXCEPT ![p] = "away"]
    /\ \/ p = Meta /\ answered' = (verify_webhook_challenge(MetaQuery) = 200)
       \/ UNCHANGED answered
    /\ UNCHANGED <<mode, have, at, outcome, bound, sent, server, shutdown, registration>>

\* with_graceful_shutdown: the signal interrupts a handshake, closes the listener,
\* and lets the requests end.
Closes ==
    /\ server = "accepting"
    /\ shutdown
    /\ server' = "closing"
    /\ bound' = FALSE
    /\ conn' = [p \in Peers |-> IF conn[p] = "request" THEN "request" ELSE "away"]
    /\ UNCHANGED <<mode, have, at, outcome, sent, shutdown, registration, answered>>

Stops ==
    /\ server = "closing"
    /\ \A p \in Peers : conn[p] = "away"
    /\ server' = "stopped"
    /\ UNCHANGED <<mode, have, at, outcome, bound, sent, shutdown, conn, registration, answered>>

Server == Closes \/ Stops

Served(p) == Connects(p) \/ accept(p) \/ HandshakeEnds(p) \/ HandshakeFails(p) \/ RequestEnds(p)

ServerNext == Main \/ MetaAccepts \/ MetaRefuses \/ Server \/ \E p \in Peers : Served(p)

ServerSpec == ServerInit /\ [][ServerNext]_serverVars

\* main and the server's task run; Meta or the timeout of the client decides; a
\* request that was begun is ended by its peer or by the network.
ServerFairness ==
    /\ WF_serverVars(Main)
    /\ WF_serverVars(MetaAccepts \/ MetaRefuses)
    /\ WF_serverVars(Server)
    /\ \A p \in Peers : WF_serverVars(HandshakeFails(p) \/ HandshakeEnds(p) \/ RequestEnds(p))

-----------------------------------------------------------------------------
\* A missing setting is found before anything reaches Meta or the network, in
\* every mode: no message is sent, no port is taken, nothing is registered.
FoundBeforeAnyEffect ==
    outcome = "misconfigured"
       => sent = 0 /\ ~bound /\ server = "none" /\ registration = "none"

\* The server does not outlive main, and main does not return while a request is
\* being answered; main's verdict on the registration is Meta's.
ServerEndsWithMain ==
    outcome # "none" =>
       /\ server \in {"none", "stopped"}
       /\ ~bound
       /\ \A p \in Peers : conn[p] = "away"
       /\ registration # "none" => outcome = IF registration = "ok" THEN "ok" ELSE "failed"

\* A webhook is registered only with a server that answered the challenge, and a
\* registered "serve-and-register" goes on serving.
RegisteredMeansServed ==
    registration = "ok" =>
       /\ answered
       /\ mode = "serve-and-register" => server = "accepting" /\ bound /\ outcome = "none"

\* No effect before every setting is found, no server left behind, none missing.
ServerInv == FoundBeforeAnyEffect /\ ServerEndsWithMain /\ RegisteredMeansServed

\* Once the registration is decided, register-webhook returns, and so does a
\* refused serve-and-register: no stalled handshake or request holds it for good.
RegistrationEnds ==
    (registration = "ok" /\ mode = "register-webhook") \/ registration = "refused"
       ~> outcome # "none"
=============================================================================

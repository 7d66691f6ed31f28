--------------------------- MODULE ExamplesProofs ---------------------------
(***************************************************************************)
(* What TLAPS proves of the programs of examples/: the WhatsApp demo       *)
(* scene's main and server, for every number of peers, its dialog, for     *)
(* every number of messages, the requests of its webhook, for every body   *)
(* of the shape RequestsAssumption gives, and its benchmarks with their    *)
(* messages, for every number of runs and every pair of intervals; the     *)
(* broadcast builder, for every number of attempts and every set of        *)
(* answers.                                                                *)
(***************************************************************************)
EXTENDS WhatsAppServer, WhatsAppRequests, WhatsAppDialog, WhatsAppBenchmark,
        BenchmarkProofs, BroadcastBuilder,
        SequenceTheorems, FiniteSetTheorems, WellFoundedInduction, TLAPS

-----------------------------------------------------------------------------
(* The steps of main: where the server is bound and what comes after that. *)

Deeds == {"need", "connect", "send", "load_tls", "bind", "spawn", "register", "shut_down",
          "shut_down_if_refused", "join"}

Registers(m) == m \in {"register-webhook", "serve-and-register"}
Serves(m)    == Registers(m) \/ m = "serve"
AppSettings  == {"app_id", "verify", "url"}

AppAt(m)  == IF m = "serve-and-register" THEN 3 ELSE 1
BindAt(m) == IF m = "serve-and-register" THEN 10 ELSE 7
JoinAt(m) == IF Registers(m) THEN BindAt(m) + 5 ELSE BindAt(m) + 2

Steps == [do : Deeds, settings : SUBSET Settings]

LEMMA MadeDeeds ==
    /\ \A settings \in SUBSET Settings :
          Need(settings) \in Steps /\ Need(settings).do = "need" /\ Need(settings).settings = settings
    /\ \A deed \in Deeds : Do(deed) \in Steps /\ Do(deed).do = deed
<1>1. "need" \in Deeds /\ {} \in SUBSET Settings
  BY DEF Deeds
<1> QED
  BY <1>1 DEF Need, Do, Steps

\* The list u is list s and then list t.
IsConcat(s, t, u) ==
    /\ u \in Seq(Steps) /\ Len(u) = Len(s) + Len(t)
    /\ \A i \in 1 .. Len(s) : u[i] = s[i]
    /\ \A i \in Nat, j \in 1 .. Len(t) : i = Len(s) + j => u[i] = t[j]

LEMMA ConcatSteps ==
    ASSUME NEW s \in Seq(Steps), NEW t \in Seq(Steps)
    PROVE  IsConcat(s, t, s \o t)
<1>1. /\ s \o t \in Seq(Steps) /\ Len(s \o t) = Len(s) + Len(t)
      /\ \A i \in 1 .. Len(s) + Len(t) :
            (s \o t)[i] = IF i <= Len(s) THEN s[i] ELSE t[i - Len(s)]
  BY ConcatProperties
<1>2. Len(s) \in Nat /\ Len(t) \in Nat
  OBVIOUS
<1> QED
  BY <1>1, <1>2 DEF IsConcat

LEMMA PairOfSteps ==
    ASSUME NEW v \in Deeds, NEW w \in Deeds
    PROVE  LET s == <<Do(v), Do(w)>> IN
           s \in Seq(Steps) /\ Len(s) = 2 /\ s[1].do = v /\ s[2].do = w
<1> DEFINE a == Do(v)
           b == Do(w)
<1>1. a \in Steps /\ a.do = v /\ b \in Steps /\ b.do = w
  BY MadeDeeds
<1> HIDE DEF a, b
<1>2. <<a, b>> \in Seq(Steps) /\ Len(<<a, b>>) = 2 /\ <<a, b>>[1] = a /\ <<a, b>>[2] = b
  BY <1>1
<1> QED
  BY <1>1, <1>2 DEF a, b

LEMMA ClientSteps ==
    /\ whatsapp_client \in Seq(Steps) /\ Len(whatsapp_client) = 2
    /\ whatsapp_client[1].do = "need" /\ whatsapp_client[2].do = "connect"
    /\ app_client \in Seq(Steps) /\ Len(app_client) = 3
    /\ app_client[1].do = "need" /\ app_client[2].do = "need" /\ app_client[3].do = "connect"
    /\ app_client[1].settings = AppSettings
<1>1. {"token"} \in SUBSET Settings /\ AppSettings \in SUBSET Settings /\ {"secret"} \in SUBSET Settings
  BY DEF Settings, AppSettings
<1>2. "connect" \in Deeds
  BY DEF Deeds
<1> DEFINE t == Need({"token"})
           a == Need(AppSettings)
           s == Need({"secret"})
           c == Do("connect")
<1>3. t \in Steps /\ a \in Steps /\ s \in Steps /\ c \in Steps
      /\ t.do = "need" /\ a.do = "need" /\ s.do = "need" /\ c.do = "connect" /\ a.settings = AppSettings
  BY <1>1, <1>2, MadeDeeds
<1>4. whatsapp_client = <<t, c>> /\ app_client = <<a, s, c>>
  BY DEF whatsapp_client, app_client, AppSettings
<1> HIDE DEF t, a, s, c
<1> QED
  BY <1>3, <1>4

LEMMA ListeningSteps ==
    ASSUME NEW needed \in Seq(Settings)
    PROVE  LET steps == Listening(needed) IN
           /\ steps \in Seq(Steps) /\ Len(steps) = Len(needed) + 2
           /\ \A i \in 1 .. Len(needed) : steps[i].do = "need"
           /\ \A i \in Nat : /\ i = Len(needed) + 1 => steps[i].do = "load_tls"
                             /\ i = Len(needed) + 2 => steps[i].do = "bind"
<1> DEFINE needs == [i \in DOMAIN needed |-> Need({needed[i]})]
           tail == <<Do("load_tls"), Do("bind")>>
<1>1. \A i \in DOMAIN needed : Need({needed[i]}) \in Steps /\ Need({needed[i]}).do = "need"
  <2>1. ASSUME NEW i \in DOMAIN needed PROVE {needed[i]} \in SUBSET Settings
    OBVIOUS
  <2> QED
    BY <2>1, MadeDeeds
<1>2. /\ needs \in Seq(Steps) /\ Len(needs) = Len(needed)
      /\ \A i \in 1 .. Len(needed) : needs[i].do = "need"
  <2> DEFINE n == Len(needed)
             need(i) == Need({needed[i]})
  <2>1. n \in Nat /\ DOMAIN needed = 1 .. n /\ needs = [i \in 1 .. n |-> need(i)]
    OBVIOUS
  <2>2. \A i \in 1 .. n : need(i) \in Steps /\ need(i).do = "need"
    BY <1>1, <2>1
  <2> HIDE DEF n, need, needs
  <2>3. needs \in Seq(Steps) /\ Len(needs) = n /\ \A i \in 1 .. n : needs[i] = need(i)
    BY <2>1, <2>2
  <2> QED
    BY <2>2, <2>3 DEF n
<1>3. "load_tls" \in Deeds /\ "bind" \in Deeds
  BY DEF Deeds
<1>4. /\ tail \in Seq(Steps) /\ Len(tail) = 2
      /\ tail[1].do = "load_tls" /\ tail[2].do = "bind"
  BY <1>3, PairOfSteps
<1> HIDE DEF needs, tail
<1>5. Listening(needed) = needs \o tail
  BY DEF Listening, needs, tail
<1>6. Len(needed) \in Nat
  OBVIOUS
<1>7. IsConcat(needs, tail, needs \o tail)
  BY <1>2, <1>4, ConcatSteps
<1> QED
  BY <1>2, <1>4, <1>5, <1>6, <1>7 DEF IsConcat

LEMMA ShortSteps ==
    /\ register_webhook \in Seq(Steps) /\ Len(register_webhook) = 2
    /\ register_webhook[1].do = "need" /\ register_webhook[1].settings = AppSettings
    /\ register_webhook[2].do = "register"
    /\ outbound \in Seq(Steps) /\ Len(outbound) = 1 /\ outbound[1].do = "need"
    /\ \A deed \in Deeds : /\ <<Do(deed)>> \in Seq(Steps) /\ Len(<<Do(deed)>>) = 1
                           /\ <<Do(deed)>>[1].do = deed
<1>1. {"phone", "recipient"} \in SUBSET Settings /\ AppSettings \in SUBSET Settings
  BY DEF Settings, AppSettings
<1>2. "register" \in Deeds
  BY DEF Deeds
<1> DEFINE a == Need(AppSettings)
           o == Need({"phone", "recipient"})
           r == Do("register")
<1>3. a \in Steps /\ o \in Steps /\ r \in Steps
      /\ a.do = "need" /\ o.do = "need" /\ r.do = "register" /\ a.settings = AppSettings
  BY <1>1, <1>2, MadeDeeds
<1>4. register_webhook = <<a, r>> /\ outbound = <<o>>
  BY DEF register_webhook, outbound, AppSettings
<1> HIDE DEF a, o, r
<1>5. /\ register_webhook \in Seq(Steps) /\ Len(register_webhook) = 2
      /\ register_webhook[1].do = "need" /\ register_webhook[1].settings = AppSettings
      /\ register_webhook[2].do = "register"
      /\ outbound \in Seq(Steps) /\ Len(outbound) = 1 /\ outbound[1].do = "need"
  BY <1>3, <1>4
<1>6. ASSUME NEW deed \in Deeds
      PROVE  <<Do(deed)>> \in Seq(Steps) /\ Len(<<Do(deed)>>) = 1 /\ <<Do(deed)>>[1].do = deed
  BY MadeDeeds
<1> QED
  BY <1>5, <1>6

\* The server that waits for the registration.
LEMMA TemporaryServerSteps ==
    LET s == register_webhook_with_temporary_server IN
    /\ s \in Seq(Steps) /\ Len(s) = 9
    /\ s[1].do = "need" /\ s[2].do = "need" /\ s[3].do = "load_tls" /\ s[4].do = "bind"
    /\ s[5].do = "spawn" /\ s[6].do = "need" /\ s[6].settings = AppSettings
    /\ s[7].do = "register" /\ s[8].do = "shut_down" /\ s[9].do = "join"
<1> DEFINE needed == <<"verify", "url">>
           a == Listening(needed)
           s == <<Do("spawn")>>
           b == a \o s
           c == b \o register_webhook
           e == <<Do("shut_down"), Do("join")>>
           f == c \o e
<1>1. needed \in Seq(Settings) /\ Len(needed) = 2
  BY DEF Settings
<1>2. s \in Seq(Steps) /\ Len(s) = 1 /\ s[1].do = "spawn"
  BY ShortSteps DEF Deeds
<1>3. e \in Seq(Steps) /\ Len(e) = 2 /\ e[1].do = "shut_down" /\ e[2].do = "join"
  BY PairOfSteps DEF Deeds
<1>4. f = register_webhook_with_temporary_server
  BY DEF register_webhook_with_temporary_server
<1> HIDE DEF needed, a, b, c, e, f, s
<1>5. a \in Seq(Steps) /\ Len(a) = 4
      /\ a[1].do = "need" /\ a[2].do = "need" /\ a[3].do = "load_tls" /\ a[4].do = "bind"
  <2>1. /\ a \in Seq(Steps) /\ Len(a) = Len(needed) + 2
        /\ \A i \in 1 .. Len(needed) : a[i].do = "need"
        /\ \A i \in Nat : /\ i = Len(needed) + 1 => a[i].do = "load_tls"
                          /\ i = Len(needed) + 2 => a[i].do = "bind"
    BY <1>1, ListeningSteps DEF a
  <2> QED
    BY <1>1, <2>1
<1>6. IsConcat(a, s, b)
  BY <1>2, <1>5, ConcatSteps DEF b
<1>7. b \in Seq(Steps) /\ Len(b) = 5 /\ b[1].do = "need" /\ b[2].do = "need" /\ b[3].do = "load_tls"
      /\ b[4].do = "bind" /\ b[5].do = "spawn"
  BY <1>2, <1>5, <1>6 DEF IsConcat
<1>8. register_webhook \in Seq(Steps) /\ Len(register_webhook) = 2
  BY ShortSteps
<1>9. IsConcat(b, register_webhook, c)
  BY <1>7, <1>8, ConcatSteps DEF c
<1>10. /\ c \in Seq(Steps) /\ Len(c) = 7 /\ \A i \in 1 .. 5 : c[i] = b[i]
       /\ c[6] = register_webhook[1] /\ c[7] = register_webhook[2]
  BY <1>7, <1>8, <1>9 DEF IsConcat
<1>11. IsConcat(c, e, f)
  BY <1>3, <1>10, ConcatSteps DEF f
<1>12. /\ f \in Seq(Steps) /\ Len(f) = 9 /\ \A i \in 1 .. 7 : f[i] = c[i]
       /\ f[8] = e[1] /\ f[9] = e[2]
  BY <1>3, <1>10, <1>11 DEF IsConcat
<1> QED
  BY <1>3, <1>4, <1>7, <1>10, <1>12, ShortSteps

\* The server that goes on, with a registration or without.
LEMMA ServerSteps ==
    /\ LET s == serve_webhook(FALSE) IN
       /\ s \in Seq(Steps) /\ Len(s) = 7
       /\ s[1].do = "need" /\ s[2].do = "need" /\ s[3].do = "need" /\ s[4].do = "load_tls"
       /\ s[5].do = "bind" /\ s[6].do = "spawn" /\ s[7].do = "join"
    /\ LET s == serve_webhook(TRUE) IN
       /\ s \in Seq(Steps) /\ Len(s) = 10
       /\ s[1].do = "need" /\ s[2].do = "need" /\ s[3].do = "need" /\ s[4].do = "load_tls"
       /\ s[5].do = "bind" /\ s[6].do = "spawn"
       /\ s[7].do = "need" /\ s[7].settings = AppSettings /\ s[8].do = "register"
       /\ s[9].do = "shut_down_if_refused" /\ s[10].do = "join"
<1> DEFINE needed == <<"verify", "secret", "url">>
           a == Listening(needed)
           s == <<Do("spawn")>>
           b == a \o s
           w == <<Do("shut_down_if_refused")>>
           c == register_webhook \o w
           e == <<Do("join")>>
           d == b \o <<>>
           f == d \o e
           g == b \o c
           h == g \o e
<1>1. needed \in Seq(Settings) /\ Len(needed) = 3
  BY DEF Settings
<1>2. /\ s \in Seq(Steps) /\ Len(s) = 1 /\ s[1].do = "spawn"
      /\ w \in Seq(Steps) /\ Len(w) = 1 /\ w[1].do = "shut_down_if_refused"
      /\ e \in Seq(Steps) /\ Len(e) = 1 /\ e[1].do = "join"
  BY ShortSteps DEF Deeds
<1>3. f = serve_webhook(FALSE) /\ h = serve_webhook(TRUE)
  BY DEF serve_webhook
<1>4. d = b
  <2>1. b \in Seq(Steps)
    <3>1. a \in Seq(Steps)
      BY <1>1, ListeningSteps
    <3> HIDE DEF a
    <3> QED
      BY <1>2, <3>1
  <2> QED
    BY <2>1, ConcatEmptySeq
<1> HIDE DEF needed, a, b, c, d, e, f, g, h, s, w
<1>5. a \in Seq(Steps) /\ Len(a) = 5 /\ a[1].do = "need" /\ a[2].do = "need" /\ a[3].do = "need"
      /\ a[4].do = "load_tls" /\ a[5].do = "bind"
  <2>1. /\ a \in Seq(Steps) /\ Len(a) = Len(needed) + 2
        /\ \A i \in 1 .. Len(needed) : a[i].do = "need"
        /\ \A i \in Nat : /\ i = Len(needed) + 1 => a[i].do = "load_tls"
                          /\ i = Len(needed) + 2 => a[i].do = "bind"
    BY <1>1, ListeningSteps DEF a
  <2> QED
    BY <1>1, <2>1
<1>6. IsConcat(a, s, b)
  BY <1>2, <1>5, ConcatSteps DEF b
<1>7. b \in Seq(Steps) /\ Len(b) = 6 /\ b[1].do = "need" /\ b[2].do = "need" /\ b[3].do = "need"
      /\ b[4].do = "load_tls" /\ b[5].do = "bind" /\ b[6].do = "spawn"
  BY <1>2, <1>5, <1>6 DEF IsConcat
<1>8. register_webhook \in Seq(Steps) /\ Len(register_webhook) = 2
  BY ShortSteps
<1>9. IsConcat(register_webhook, w, c)
  BY <1>2, <1>8, ConcatSteps DEF c
<1>10. c \in Seq(Steps) /\ Len(c) = 3 /\ c[1] = register_webhook[1] /\ c[2] = register_webhook[2]
       /\ c[3].do = "shut_down_if_refused"
  BY <1>2, <1>8, <1>9 DEF IsConcat
<1>11. IsConcat(b, c, g)
  BY <1>7, <1>10, ConcatSteps DEF g
<1>12. g \in Seq(Steps) /\ Len(g) = 9 /\ (\A i \in 1 .. 6 : g[i] = b[i])
       /\ g[7] = c[1] /\ g[8] = c[2] /\ g[9] = c[3]
  BY <1>7, <1>10, <1>11 DEF IsConcat
<1>13. IsConcat(g, e, h) /\ IsConcat(b, e, f)
  <2>1. IsConcat(g, e, h)
    BY <1>2, <1>12, ConcatSteps DEF h
  <2>2. IsConcat(b, e, b \o e)
    BY <1>2, <1>7, ConcatSteps
  <2>3. f = b \o e
    BY <1>4 DEF f
  <2> QED
    BY <2>1, <2>2, <2>3
<1>14. h \in Seq(Steps) /\ Len(h) = 10 /\ (\A i \in 1 .. 9 : h[i] = g[i]) /\ h[10] = e[1]
  BY <1>2, <1>12, <1>13 DEF IsConcat
<1>15. f \in Seq(Steps) /\ Len(f) = 7 /\ (\A i \in 1 .. 6 : f[i] = b[i]) /\ f[7] = e[1]
  BY <1>2, <1>7, <1>13 DEF IsConcat
<1>16. f[1].do = "need" /\ f[2].do = "need" /\ f[3].do = "need" /\ f[4].do = "load_tls"
       /\ f[5].do = "bind" /\ f[6].do = "spawn" /\ f[7].do = "join"
  BY <1>2, <1>7, <1>15
<1>17. h[1].do = "need" /\ h[2].do = "need" /\ h[3].do = "need" /\ h[4].do = "load_tls"
       /\ h[5].do = "bind" /\ h[6].do = "spawn" /\ h[7] = c[1] /\ h[8] = c[2] /\ h[9] = c[3]
       /\ h[10].do = "join"
  BY <1>2, <1>7, <1>12, <1>14
<1>18. c[1].do = "need" /\ c[1].settings = AppSettings /\ c[2].do = "register"
       /\ c[3].do = "shut_down_if_refused"
  BY <1>10, ShortSteps
<1>19. h[7].do = "need" /\ h[7].settings = AppSettings /\ h[8].do = "register"
       /\ h[9].do = "shut_down_if_refused"
  BY <1>17, <1>18
<1>20. Len(f) = 7 /\ f \in Seq(Steps) /\ Len(h) = 10 /\ h \in Seq(Steps)
  BY <1>14, <1>15
<1> QED
  BY <1>3, <1>16, <1>17, <1>19, <1>20

\* The messages of a demo come after its settings.
LEMMA SendingSteps ==
    /\ \A s \in {send_demos, send_template_demo, send_batch_demo} :
          /\ s \in Seq(Steps)
          /\ \A i \in 1 .. Len(s) :
                /\ s[i].do \in {"need", "send"}
                /\ s[i].do = "send" => \A j \in i .. Len(s) : s[j].do = "send"
<1>1. outbound \in Seq(Steps) /\ Len(outbound) = 1 /\ outbound[1].do = "need"
  BY ShortSteps
<1>2. Do("send") \in Steps /\ Do("send").do = "send"
  BY MadeDeeds DEF Deeds
<1> DEFINE Sends(s, n) == /\ s \in Seq(Steps)
                          /\ \A i \in 1 .. Len(s) : s[i].do = IF i <= n THEN "need" ELSE "send"
<1>3. Sends(send_demos, 1)
  <2> DEFINE t == [i \in 1 .. 12 |-> Do("send")]
  <2>1. t \in Seq(Steps) /\ Len(t) = 12 /\ \A i \in 1 .. 12 : t[i].do = "send"
    BY <1>2
  <2>2. send_demos = outbound \o t
    BY DEF send_demos
  <2> HIDE DEF t
  <2>3. IsConcat(outbound, t, send_demos)
    BY <1>1, <2>1, <2>2, ConcatSteps
  <2>4. ASSUME NEW i \in 1 .. 13, i # 1 PROVE send_demos[i].do = "send"
    <3>1. i - 1 \in 1 .. 12 /\ i \in Nat /\ i = 1 + (i - 1)
      BY <2>4
    <3> QED
      BY <1>1, <2>1, <2>3, <3>1 DEF IsConcat
  <2>5. send_demos[1].do = "need" /\ Len(send_demos) = 13 /\ send_demos \in Seq(Steps)
    BY <1>1, <2>1, <2>3 DEF IsConcat
  <2> QED
    BY <2>4, <2>5
<1>4. Sends(send_template_demo, 3)
  <2> DEFINE n == Need({"template"})
             k == Need({"token"})
             d == Do("send")
             t == <<n, k, d>>
  <2>1. {"template"} \in SUBSET Settings /\ {"token"} \in SUBSET Settings
    BY DEF Settings
  <2>2. n \in Steps /\ n.do = "need" /\ k \in Steps /\ k.do = "need" /\ d \in Steps /\ d.do = "send"
    BY <1>2, <2>1, MadeDeeds
  <2>3. send_template_demo = outbound \o t
    BY DEF send_template_demo
  <2> HIDE DEF n, k, d
  <2>4. t \in Seq(Steps) /\ Len(t) = 3 /\ t[1].do = "need" /\ t[2].do = "need" /\ t[3].do = "send"
    BY <2>2
  <2> HIDE DEF t
  <2>5. IsConcat(outbound, t, send_template_demo)
    BY <1>1, <2>3, <2>4, ConcatSteps
  <2>6. /\ send_template_demo \in Seq(Steps) /\ Len(send_template_demo) = 4
        /\ send_template_demo[1].do = "need" /\ send_template_demo[2] = t[1]
        /\ send_template_demo[3] = t[2] /\ send_template_demo[4] = t[3]
    BY <1>1, <2>4, <2>5 DEF IsConcat
  <2> QED
    BY <2>4, <2>6
<1>5. Sends(send_batch_demo, 1)
  <2> DEFINE t == <<Do("send")>>
  <2>1. t \in Seq(Steps) /\ Len(t) = 1 /\ t[1].do = "send"
    BY <1>2
  <2>2. send_batch_demo = outbound \o t
    BY DEF send_batch_demo
  <2> HIDE DEF t
  <2>3. IsConcat(outbound, t, send_batch_demo)
    BY <1>1, <2>1, <2>2, ConcatSteps
  <2>4. /\ send_batch_demo \in Seq(Steps) /\ Len(send_batch_demo) = 2
        /\ send_batch_demo[1].do = "need" /\ send_batch_demo[2].do = "send"
    BY <1>1, <2>1, <2>3 DEF IsConcat
  <2> QED
    BY <2>4
<1>6. ASSUME NEW s, NEW n \in Nat, Sends(s, n)
      PROVE  /\ s \in Seq(Steps)
             /\ \A i \in 1 .. Len(s) :
                   /\ s[i].do \in {"need", "send"}
                   /\ s[i].do = "send" => \A j \in i .. Len(s) : s[j].do = "send"
  BY <1>6
<1> HIDE DEF Sends
<1> QED
  BY <1>3, <1>4, <1>5, <1>6

\* A mode without a server: what it sends is the end of its steps.
LEMMA QuietModes ==
    ASSUME NEW m \in Modes, ~Serves(m)
    PROVE  LET s == StepsOf(m) IN
           /\ s \in Seq(Steps)
           /\ \A i \in 1 .. Len(s) :
                 /\ s[i].do \in {"need", "connect", "send"}
                 /\ s[i].do = "send" => \A k \in 1 .. Len(s) : k >= i => s[k].do = "send"
<1> DEFINE Good(s) == /\ s \in Seq(Steps)
                      /\ \A i \in 1 .. Len(s) :
                            /\ s[i].do \in {"need", "connect", "send"}
                            /\ s[i].do = "send" => \A k \in 1 .. Len(s) : k >= i => s[k].do = "send"
<1>1. ASSUME NEW t \in {send_demos, send_template_demo, send_batch_demo}
      PROVE  Good(t) /\ Good(whatsapp_client \o t)
  <2>1. /\ t \in Seq(Steps) /\ Len(t) \in Nat
        /\ \A i \in 1 .. Len(t) : /\ t[i].do \in {"need", "send"}
                                  /\ t[i].do = "send" => \A k \in i .. Len(t) : t[k].do = "send"
    BY SendingSteps
  <2>2. /\ whatsapp_client \in Seq(Steps) /\ Len(whatsapp_client) = 2
        /\ whatsapp_client[1].do = "need" /\ whatsapp_client[2].do = "connect"
    BY ClientSteps
  <2> DEFINE u == whatsapp_client \o t
  <2>3. IsConcat(whatsapp_client, t, u)
    BY <2>1, <2>2, ConcatSteps
  <2> HIDE DEF u
  <2>4. /\ u \in Seq(Steps) /\ Len(u) = 2 + Len(t)
        /\ u[1].do = "need" /\ u[2].do = "connect"
    BY <2>1, <2>2, <2>3 DEF IsConcat
  <2>5. ASSUME NEW i \in 1 .. Len(u), i > 2
        PROVE  u[i] = t[i - 2] /\ i - 2 \in 1 .. Len(t)
    <3>1. i - 2 \in 1 .. Len(t) /\ i \in Nat /\ i = 2 + (i - 2)
      BY <2>1, <2>4, <2>5
    <3> QED
      BY <2>2, <2>3, <3>1 DEF IsConcat
  <2>6. ASSUME NEW i \in 1 .. Len(u)
        PROVE  /\ u[i].do \in {"need", "connect", "send"}
               /\ u[i].do = "send" => \A k \in 1 .. Len(u) : k >= i => u[k].do = "send"
    <3>1. CASE i \in {1, 2}
      BY <2>4, <3>1
    <3>2. CASE i > 2
      <4>1. u[i] = t[i - 2] /\ i - 2 \in 1 .. Len(t)
        BY <2>5, <3>2
      <4>2. ASSUME u[i].do = "send", NEW k \in 1 .. Len(u), k >= i PROVE u[k].do = "send"
        <5>1. k > 2 /\ k - 2 \in (i - 2) .. Len(t) /\ u[k] = t[k - 2]
          BY <2>1, <2>4, <2>5, <3>2, <4>2
        <5> QED
          BY <2>1, <4>1, <4>2, <5>1
      <4> QED
        BY <2>1, <4>1, <4>2
    <3> QED
      BY <2>4, <3>1, <3>2
  <2>7. Good(t)
    BY <2>1
  <2> QED
    BY <2>4, <2>6, <2>7 DEF u
<1>2. Good(<<>>)
  BY EmptySeq
<1> HIDE DEF Good
<1>3. /\ StepsOf("send") = whatsapp_client \o send_demos
      /\ StepsOf("send-template") = send_template_demo
      /\ StepsOf("send-batch") = whatsapp_client \o send_batch_demo
      /\ StepsOf("help") = <<>>
  BY DEF StepsOf
<1>4. m \in {"send", "send-template", "send-batch", "help"}
  BY DEF Modes, Serves, Registers
<1>5. Good(StepsOf(m))
  BY <1>1, <1>2, <1>3, <1>4
<1> QED
  BY <1>5 DEF Good

\* A mode with a server.
LEMMA ServingModes ==
    ASSUME NEW m \in Modes, Serves(m)
    PROVE  LET s == StepsOf(m)
               b == BindAt(m)
           IN  /\ s \in Seq(Steps) /\ Len(s) = JoinAt(m)
               /\ \A i \in 1 .. Len(s) :
                     /\ i < b => s[i].do \in {"need", "connect", "load_tls"}
                     /\ i = b => s[i].do = "bind"
                     /\ i = b + 1 => s[i].do = "spawn"
                     /\ i = JoinAt(m) => s[i].do = "join"
                     /\ Registers(m) =>
                           /\ i \in {AppAt(m), b + 2} => s[i].do = "need" /\ s[i].settings = AppSettings
                           /\ i = b + 3 => s[i].do = "register"
                           /\ i = b + 4 => s[i].do = IF m = "register-webhook" THEN "shut_down"
                                                     ELSE "shut_down_if_refused"
<1>1. CASE m = "serve"
  <2> DEFINE t == serve_webhook(FALSE)
             u == whatsapp_client \o t
  <2>1. /\ t \in Seq(Steps) /\ Len(t) = 7
        /\ t[1].do = "need" /\ t[2].do = "need" /\ t[3].do = "need" /\ t[4].do = "load_tls"
        /\ t[5].do = "bind" /\ t[6].do = "spawn" /\ t[7].do = "join"
    BY ServerSteps
  <2>2. /\ whatsapp_client \in Seq(Steps) /\ Len(whatsapp_client) = 2
        /\ whatsapp_client[1].do = "need" /\ whatsapp_client[2].do = "connect"
    BY ClientSteps
  <2>3. StepsOf(m) = u
    BY <1>1 DEF StepsOf
  <2> HIDE DEF t, u
  <2>4. IsConcat(whatsapp_client, t, u)
    BY <2>1, <2>2, ConcatSteps DEF u
  <2>5. u \in Seq(Steps) /\ Len(u) = 9 /\ u[1].do = "need" /\ u[2].do = "connect"
    BY <2>1, <2>2, <2>4 DEF IsConcat
  <2>6. u[3] = t[1] /\ u[4] = t[2] /\ u[5] = t[3] /\ u[6] = t[4] /\ u[7] = t[5] /\ u[8] = t[6]
        /\ u[9] = t[7]
    BY <2>1, <2>2, <2>4 DEF IsConcat
  <2>7. ~Registers(m) /\ BindAt(m) = 7 /\ JoinAt(m) = 9
    BY <1>1 DEF Registers, BindAt, JoinAt
  <2> QED
    BY <2>1, <2>3, <2>5, <2>6, <2>7
<1>2. CASE m = "register-webhook"
  <2> DEFINE t == register_webhook_with_temporary_server
             u == app_client \o t
  <2>1. /\ t \in Seq(Steps) /\ Len(t) = 9
        /\ t[1].do = "need" /\ t[2].do = "need" /\ t[3].do = "load_tls" /\ t[4].do = "bind"
        /\ t[5].do = "spawn" /\ t[6].do = "need" /\ t[6].settings = AppSettings
        /\ t[7].do = "register" /\ t[8].do = "shut_down" /\ t[9].do = "join"
    BY TemporaryServerSteps
  <2>2. /\ app_client \in Seq(Steps) /\ Len(app_client) = 3
        /\ app_client[1].do = "need" /\ app_client[2].do = "need" /\ app_client[3].do = "connect"
        /\ app_client[1].settings = AppSettings
    BY ClientSteps
  <2>3. StepsOf(m) = u
    BY <1>2 DEF StepsOf
  <2> HIDE DEF t, u
  <2>4. IsConcat(app_client, t, u)
    BY <2>1, <2>2, ConcatSteps DEF u
  <2>5. u \in Seq(Steps) /\ Len(u) = 12 /\ u[1] = app_client[1] /\ u[2] = app_client[2]
        /\ u[3] = app_client[3]
    BY <2>1, <2>2, <2>4 DEF IsConcat
  <2>6. u[4] = t[1] /\ u[5] = t[2] /\ u[6] = t[3] /\ u[7] = t[4] /\ u[8] = t[5]
    BY <2>1, <2>2, <2>4 DEF IsConcat
  <2>7. u[9] = t[6] /\ u[10] = t[7] /\ u[11] = t[8] /\ u[12] = t[9]
    BY <2>1, <2>2, <2>4 DEF IsConcat
  <2>8. Registers(m) /\ BindAt(m) = 7 /\ JoinAt(m) = 12 /\ AppAt(m) = 1
    BY <1>2 DEF Registers, BindAt, JoinAt, AppAt
  <2>9. u[1].do = "need" /\ u[1].settings = AppSettings /\ u[2].do = "need" /\ u[3].do = "connect"
        /\ u[4].do = "need" /\ u[5].do = "need" /\ u[6].do = "load_tls" /\ u[7].do = "bind"
        /\ u[8].do = "spawn" /\ u[9].do = "need" /\ u[9].settings = AppSettings
        /\ u[10].do = "register" /\ u[11].do = "shut_down" /\ u[12].do = "join"
    BY <2>1, <2>2, <2>5, <2>6, <2>7
  <2>10. u \in Seq(Steps) /\ Len(u) = 12
    BY <2>5
  <2>11. ASSUME NEW i \in 1 .. 12, i < 7 PROVE u[i].do \in {"need", "connect", "load_tls"}
    <3>1. i \in {1, 2, 3, 4, 5, 6}
      BY <2>11
    <3> QED
      BY <2>9, <3>1
  <2>12. /\ \A i \in 1 .. 12 : i < BindAt(m) => u[i].do \in {"need", "connect", "load_tls"}
         /\ u[BindAt(m)].do = "bind" /\ u[JoinAt(m)].do = "join"
         /\ u[AppAt(m)].do = "need" /\ u[AppAt(m)].settings = AppSettings
         /\ \A i \in 1 .. 12 :
               /\ i = BindAt(m) + 1 => u[i].do = "spawn"
               /\ i = BindAt(m) + 2 => u[i].do = "need" /\ u[i].settings = AppSettings
               /\ i = BindAt(m) + 3 => u[i].do = "register"
               /\ i = BindAt(m) + 4 => u[i].do = "shut_down"
    BY <2>8, <2>9, <2>11
  <2>13. ASSUME NEW i \in 1 .. 12
         PROVE  /\ i < BindAt(m) => u[i].do \in {"need", "connect", "load_tls"}
                /\ i = BindAt(m) => u[i].do = "bind"
                /\ i = BindAt(m) + 1 => u[i].do = "spawn"
                /\ i = JoinAt(m) => u[i].do = "join"
                /\ Registers(m) =>
                      /\ i \in {AppAt(m), BindAt(m) + 2}
                            => u[i].do = "need" /\ u[i].settings = AppSettings
                      /\ i = BindAt(m) + 3 => u[i].do = "register"
                      /\ i = BindAt(m) + 4 => u[i].do = IF m = "register-webhook" THEN "shut_down"
                                                       ELSE "shut_down_if_refused"
    BY <1>2, <2>8, <2>12
  <2> QED
    BY <2>3, <2>8, <2>10, <2>13
<1>3. CASE m = "serve-and-register"
  <2> DEFINE t == serve_webhook(TRUE)
             c == whatsapp_client \o app_client
             u == c \o t
  <2>1. /\ t \in Seq(Steps) /\ Len(t) = 10
        /\ t[1].do = "need" /\ t[2].do = "need" /\ t[3].do = "need" /\ t[4].do = "load_tls"
        /\ t[5].do = "bind" /\ t[6].do = "spawn"
        /\ t[7].do = "need" /\ t[7].settings = AppSettings /\ t[8].do = "register"
        /\ t[9].do = "shut_down_if_refused" /\ t[10].do = "join"
    BY ServerSteps
  <2>2. /\ app_client \in Seq(Steps) /\ Len(app_client) = 3
        /\ app_client[1].do = "need" /\ app_client[2].do = "need" /\ app_client[3].do = "connect"
        /\ app_client[1].settings = AppSettings
        /\ whatsapp_client \in Seq(Steps) /\ Len(whatsapp_client) = 2
        /\ whatsapp_client[1].do = "need" /\ whatsapp_client[2].do = "connect"
    BY ClientSteps
  <2>3. StepsOf(m) = u
    BY <1>3 DEF StepsOf
  <2> HIDE DEF t, c, u
  <2>4. IsConcat(whatsapp_client, app_client, c)
    BY <2>2, ConcatSteps DEF c
  <2>5. /\ c \in Seq(Steps) /\ Len(c) = 5
        /\ c[1].do = "need" /\ c[2].do = "connect" /\ c[3] = app_client[1]
        /\ c[4].do = "need" /\ c[5].do = "connect"
    BY <2>2, <2>4 DEF IsConcat
  <2>6. IsConcat(c, t, u)
    BY <2>1, <2>5, ConcatSteps DEF u
  <2>7. u \in Seq(Steps) /\ Len(u) = 15 /\ u[1] = c[1] /\ u[2] = c[2] /\ u[3] = c[3] /\ u[4] = c[4]
        /\ u[5] = c[5]
    BY <2>1, <2>5, <2>6 DEF IsConcat
  <2>8. u[6] = t[1] /\ u[7] = t[2] /\ u[8] = t[3] /\ u[9] = t[4] /\ u[10] = t[5] /\ u[11] = t[6]
    BY <2>1, <2>5, <2>6 DEF IsConcat
  <2>9. u[12] = t[7] /\ u[13] = t[8] /\ u[14] = t[9] /\ u[15] = t[10]
    BY <2>1, <2>5, <2>6 DEF IsConcat
  <2>10. Registers(m) /\ BindAt(m) = 10 /\ JoinAt(m) = 15 /\ AppAt(m) = 3
    BY <1>3 DEF Registers, BindAt, JoinAt, AppAt
  <2>11. u[1].do = "need" /\ u[2].do = "connect" /\ u[3].do = "need" /\ u[3].settings = AppSettings
         /\ u[4].do = "need" /\ u[5].do = "connect" /\ u[6].do = "need" /\ u[7].do = "need"
         /\ u[8].do = "need" /\ u[9].do = "load_tls" /\ u[10].do = "bind" /\ u[11].do = "spawn"
    BY <2>1, <2>2, <2>5, <2>7, <2>8
  <2>12. u[12].do = "need" /\ u[12].settings = AppSettings /\ u[13].do = "register"
         /\ u[14].do = "shut_down_if_refused" /\ u[15].do = "join"
    BY <2>1, <2>9
  <2>13. u \in Seq(Steps) /\ Len(u) = 15
    BY <2>7
  <2>14. ASSUME NEW i \in 1 .. 15, i < 10 PROVE u[i].do \in {"need", "connect", "load_tls"}
    <3>1. i \in {1, 2, 3, 4, 5, 6, 7, 8, 9}
      BY <2>14
    <3> QED
      BY <2>11, <3>1
  <2>15. /\ \A i \in 1 .. 15 : i < BindAt(m) => u[i].do \in {"need", "connect", "load_tls"}
         /\ u[BindAt(m)].do = "bind" /\ u[JoinAt(m)].do = "join"
         /\ u[AppAt(m)].do = "need" /\ u[AppAt(m)].settings = AppSettings
         /\ \A i \in 1 .. 15 :
               /\ i = BindAt(m) + 1 => u[i].do = "spawn"
               /\ i = BindAt(m) + 2 => u[i].do = "need" /\ u[i].settings = AppSettings
               /\ i = BindAt(m) + 3 => u[i].do = "register"
               /\ i = BindAt(m) + 4 => u[i].do = "shut_down_if_refused"
    BY <2>10, <2>11, <2>12, <2>14
  <2>16. ASSUME NEW i \in 1 .. 15
         PROVE  /\ i < BindAt(m) => u[i].do \in {"need", "connect", "load_tls"}
                /\ i = BindAt(m) => u[i].do = "bind"
                /\ i = BindAt(m) + 1 => u[i].do = "spawn"
                /\ i = JoinAt(m) => u[i].do = "join"
                /\ Registers(m) =>
                      /\ i \in {AppAt(m), BindAt(m) + 2}
                            => u[i].do = "need" /\ u[i].settings = AppSettings
                      /\ i = BindAt(m) + 3 => u[i].do = "register"
                      /\ i = BindAt(m) + 4 => u[i].do = IF m = "register-webhook" THEN "shut_down"
                                                       ELSE "shut_down_if_refused"
    BY <1>3, <2>10, <2>15
  <2> QED
    BY <2>3, <2>10, <2>13, <2>16
<1> QED
  BY <1>1, <1>2, <1>3 DEF Serves, Registers

-----------------------------------------------------------------------------
(* The server: the inductive invariant.                                    *)

ServerTypeOK ==
    /\ mode \in Modes
    /\ at \in Nat \ {0}
    /\ sent \in Nat
    /\ bound \in BOOLEAN /\ shutdown \in BOOLEAN /\ answered \in BOOLEAN
    /\ outcome \in {"none", "misconfigured", "failed", "ok"}
    /\ server \in {"none", "accepting", "closing", "stopped"}
    /\ registration \in {"none", "asked", "ok", "refused"}
    /\ conn \in [Peers -> {"away", "queued", "handshake", "request"}]

\* Before the listener is bound nothing is there.
QuietBeforeBind ==
    ~Serves(mode) \/ at <= BindAt(mode) =>
        /\ ~bound /\ server = "none" /\ ~shutdown /\ registration = "none"
        /\ \A p \in Peers : conn[p] = "away"

\* The server from there on, and the signal.
ServerFollowsMain ==
    Serves(mode) =>
        /\ at <= JoinAt(mode)
        /\ at = BindAt(mode) + 1 => server = "none" /\ bound /\ outcome = "none"
        /\ at > BindAt(mode) + 1 => server # "none" /\ (bound <=> server = "accepting")
        /\ server \in {"closing", "stopped"} => shutdown
        /\ shutdown <=> /\ Registers(mode) /\ at > BindAt(mode) + 4
                        /\ mode = "register-webhook" \/ registration = "refused"

RegistrationFollowsMain ==
    /\ ~Registers(mode) => registration = "none"
    /\ Registers(mode) =>
          /\ at < BindAt(mode) + 3 => registration = "none"
          /\ at > BindAt(mode) + 3 => registration \in {"ok", "refused"}
          /\ at > AppAt(mode) => AppSettings \subseteq have
    /\ registration = "ok" => answered

ConnectionsFollowServer ==
    \A p \in Peers :
        /\ conn[p] = "queued" => bound
        /\ conn[p] = "handshake" => server = "accepting"
        /\ conn[p] = "request" => server \in {"accepting", "closing"}

\* main returns before it binds, or when its server has stopped; what it has sent it
\* sent after the last setting.
OutcomeFollowsMain ==
    /\ outcome # "none" =>
          \/ ~Serves(mode) \/ at <= BindAt(mode)
          \/ /\ at = JoinAt(mode) /\ server = "stopped"
             /\ outcome = IF registration = "refused" THEN "failed" ELSE "ok"
    /\ outcome = "misconfigured" =>
          at \in DOMAIN StepsOf(mode) /\ StepsOf(mode)[at].do \in {"need", "load_tls"}
    /\ sent # 0 =>
          /\ ~Serves(mode)
          /\ \A i \in DOMAIN StepsOf(mode) : i >= at => StepsOf(mode)[i].do = "send"

ServerIInv == /\ ServerTypeOK
              /\ QuietBeforeBind
              /\ ServerFollowsMain
              /\ RegistrationFollowsMain
              /\ ConnectionsFollowServer
              /\ OutcomeFollowsMain

LEMMA Places ==
    /\ BindAt(mode) \in Nat /\ BindAt(mode) > AppAt(mode) /\ AppAt(mode) \in Nat \ {0}
    /\ JoinAt(mode) = IF Registers(mode) THEN BindAt(mode) + 5 ELSE BindAt(mode) + 2
  BY DEF BindAt, JoinAt, AppAt

LEMMA ServerStarts == ServerInit => ServerIInv
<1> SUFFICES ASSUME ServerInit PROVE ServerIInv
  OBVIOUS
<1>1. ServerTypeOK
  <2>1. conn \in [Peers -> {"away", "queued", "handshake", "request"}]
    BY DEF ServerInit
  <2>2. at \in Nat \ {0} /\ sent \in Nat
    BY DEF ServerInit
  <2> QED
    BY <2>1, <2>2, Zenon DEF ServerInit, ServerTypeOK
<1>2. /\ at = 1 /\ BindAt(mode) \in Nat /\ BindAt(mode) > 1 /\ AppAt(mode) \in Nat \ {0}
      /\ JoinAt(mode) \in Nat /\ JoinAt(mode) > 1
  BY Places DEF ServerInit
<1>3. QuietBeforeBind
  BY DEF ServerInit, QuietBeforeBind
<1>4. ServerFollowsMain
  BY <1>2 DEF ServerInit, ServerFollowsMain
<1>5. RegistrationFollowsMain
  BY <1>2 DEF ServerInit, RegistrationFollowsMain
<1>6. ConnectionsFollowServer /\ OutcomeFollowsMain
  BY DEF ServerInit, ConnectionsFollowServer, OutcomeFollowsMain
<1> QED
  BY <1>1, <1>3, <1>4, <1>5, <1>6 DEF ServerIInv

\* Where main is when its step is of a kind.
LEMMA WhereMainIs ==
    ASSUME ServerTypeOK, NEW what \in Deeds, MainAt(what)
    PROVE  LET steps == StepsOf(mode)
               b == BindAt(mode)
           IN  /\ outcome = "none" /\ at \in DOMAIN steps /\ steps[at].do = what
               /\ ~Serves(mode) => what \in {"need", "connect", "send"}
               /\ what = "send" =>
                     ~Serves(mode) /\ \A i \in DOMAIN steps : i >= at => steps[i].do = "send"
               /\ Serves(mode) =>
                     /\ at <= JoinAt(mode)
                     /\ what \in {"connect", "load_tls"} => at < b
                     /\ what = "bind" <=> at = b
                     /\ what = "spawn" <=> at = b + 1
                     /\ what = "join" <=> at = JoinAt(mode)
                     /\ what = "need" => at < b \/ (Registers(mode) /\ at = b + 2)
                     /\ what = "need" /\ Registers(mode) /\ at \in {AppAt(mode), b + 2}
                           => steps[at].settings = AppSettings
                     /\ Registers(mode) /\ at = AppAt(mode) => what = "need"
                     /\ what = "register" <=> Registers(mode) /\ at = b + 3
                     /\ what \in {"shut_down", "shut_down_if_refused"}
                           <=> Registers(mode) /\ at = b + 4
                     /\ what = "shut_down" => mode = "register-webhook"
                     /\ what = "shut_down_if_refused" => mode # "register-webhook"
<1> DEFINE steps == StepsOf(mode)
           b == BindAt(mode)
<1>1. mode \in Modes /\ at \in Nat \ {0} /\ outcome = "none" /\ at <= Len(steps) /\ steps[at].do = what
  BY DEF ServerTypeOK, MainAt
<1>2. steps \in Seq(Steps)
  BY <1>1, QuietModes, ServingModes
<1>3. at \in 1 .. Len(steps) /\ DOMAIN steps = 1 .. Len(steps)
  BY <1>1, <1>2
<1>4. ASSUME ~Serves(mode)
      PROVE  /\ what \in {"need", "connect", "send"}
             /\ what = "send" => \A i \in DOMAIN steps : i >= at => steps[i].do = "send"
  BY <1>1, <1>3, <1>4, QuietModes
<1>5. ASSUME Serves(mode)
      PROVE  /\ Len(steps) = JoinAt(mode)
             /\ at < b => what \in {"need", "connect", "load_tls"}
             /\ at = b => what = "bind"
             /\ at = b + 1 => what = "spawn"
             /\ at = JoinAt(mode) => what = "join"
             /\ Registers(mode) =>
                   /\ at \in {AppAt(mode), b + 2} => what = "need" /\ steps[at].settings = AppSettings
                   /\ at = b + 3 => what = "register"
                   /\ at = b + 4 => what = IF mode = "register-webhook" THEN "shut_down"
                                           ELSE "shut_down_if_refused"
  BY <1>1, <1>3, <1>5, ServingModes
<1> HIDE DEF steps, b
<1>6. b \in Nat /\ JoinAt(mode) = IF Registers(mode) THEN b + 5 ELSE b + 2
  BY Places DEF b
<1>7. ASSUME Serves(mode) PROVE at \in Nat /\ at <= JoinAt(mode)
  BY <1>1, <1>3, <1>5, <1>7
<1>8. ASSUME Serves(mode)
      PROVE  \/ at < b
             \/ at = b
             \/ at = b + 1
             \/ Registers(mode) /\ (at = b + 2 \/ at = b + 3 \/ at = b + 4)
             \/ at = JoinAt(mode)
  BY <1>6, <1>8, <1>7
<1>9. ASSUME Serves(mode)
      PROVE  /\ at <= JoinAt(mode)
             /\ what # "send"
             /\ what \in {"connect", "load_tls"} => at < b
             /\ what = "bind" <=> at = b
             /\ what = "spawn" <=> at = b + 1
             /\ what = "join" <=> at = JoinAt(mode)
             /\ what = "need" => at < b \/ (Registers(mode) /\ at = b + 2)
             /\ what = "register" <=> Registers(mode) /\ at = b + 3
             /\ what \in {"shut_down", "shut_down_if_refused"} <=> Registers(mode) /\ at = b + 4
             /\ what = "shut_down" => mode = "register-webhook"
             /\ what = "shut_down_if_refused" => mode # "register-webhook"
  <2>1. /\ at < b => what \in {"need", "connect", "load_tls"}
        /\ at = b => what = "bind"
        /\ at = b + 1 => what = "spawn"
        /\ at = JoinAt(mode) => what = "join"
        /\ Registers(mode) =>
              /\ at = b + 2 => what = "need"
              /\ at = b + 3 => what = "register"
              /\ at = b + 4 => what = IF mode = "register-webhook" THEN "shut_down"
                                      ELSE "shut_down_if_refused"
    BY <1>5, <1>9
  <2> QED
    BY <1>6, <1>8, <1>9, <1>7, <2>1
<1> QED
  BY <1>1, <1>3, <1>4, <1>5, <1>9 DEF steps, b

-----------------------------------------------------------------------------
(* The steps of main keep the invariant.                                   *)

\* main returns before it has bound, or once its server has stopped.
LEMMA ExitKeeps ==
    ASSUME ServerIInv, outcome = "none",
           NEW how \in {"misconfigured", "failed", "ok"}, Exit(how), UNCHANGED <<mode, have, world>>,
           \/ ~Serves(mode) \/ at <= BindAt(mode)
           \/ /\ Serves(mode) /\ at = JoinAt(mode) /\ server = "stopped"
              /\ how = IF registration = "refused" THEN "failed" ELSE "ok",
           how = "misconfigured" =>
               at \in DOMAIN StepsOf(mode) /\ StepsOf(mode)[at].do \in {"need", "load_tls"}
    PROVE  ServerIInv'
<1> USE DEF ServerIInv
<1>1. /\ outcome' = how /\ at' = at /\ mode' = mode /\ have' = have /\ sent' = sent
      /\ server' = server /\ shutdown' = shutdown /\ conn' = conn
      /\ registration' = registration /\ answered' = answered
  BY DEF Exit, world
<1>2. BindAt(mode) \in Nat /\ at \in Nat /\ (JoinAt(mode) = BindAt(mode) + 5 \/ JoinAt(mode) = BindAt(mode) + 2)
  BY Places DEF ServerTypeOK
<1>3. bound = FALSE
  <2>1. CASE ~Serves(mode) \/ at <= BindAt(mode)
    BY <2>1 DEF QuietBeforeBind, ServerTypeOK
  <2>2. CASE Serves(mode) /\ at = JoinAt(mode) /\ server = "stopped"
    BY <1>2, <2>2 DEF ServerFollowsMain, ServerTypeOK
  <2> QED
    BY <2>1, <2>2
<1>4. bound' = bound
  BY <1>3 DEF Exit
<1>5. ServerTypeOK'
  BY <1>1, <1>4 DEF ServerTypeOK
<1>6. QuietBeforeBind' /\ RegistrationFollowsMain' /\ ConnectionsFollowServer'
  BY <1>1, <1>4 DEF QuietBeforeBind, RegistrationFollowsMain, ConnectionsFollowServer
<1>7. ServerFollowsMain'
  BY <1>1, <1>2, <1>4 DEF ServerFollowsMain
<1>8. OutcomeFollowsMain'
  BY <1>1 DEF OutcomeFollowsMain
<1> QED
  BY <1>5, <1>6, <1>7, <1>8

\* main takes a step before it binds, or in a mode that does not bind.
LEMMA EarlyAdvanceKeeps ==
    ASSUME ServerIInv, outcome = "none", Advance, ~Serves(mode) \/ at < BindAt(mode),
           Registers(mode) /\ at = AppAt(mode) => AppSettings \subseteq have,
           UNCHANGED <<mode, have, bound, server, shutdown, conn, registration, answered>>,
           sent' \in Nat,
           sent' # 0 => /\ ~Serves(mode)
                        /\ \A i \in DOMAIN StepsOf(mode) : i >= at => StepsOf(mode)[i].do = "send",
           ~Serves(mode) => DOMAIN StepsOf(mode) \subseteq Nat
    PROVE  ServerIInv'
<1> USE DEF ServerIInv
<1>1. /\ outcome' = outcome /\ at' = at + 1 /\ mode' = mode /\ have' = have /\ bound' = bound
      /\ server' = server /\ shutdown' = shutdown /\ conn' = conn
      /\ registration' = registration /\ answered' = answered
  BY DEF Advance
<1>2. /\ at \in Nat \ {0} /\ BindAt(mode) \in Nat /\ AppAt(mode) \in Nat /\ BindAt(mode) > AppAt(mode)
      /\ (JoinAt(mode) = BindAt(mode) + 5 \/ JoinAt(mode) = BindAt(mode) + 2)
  BY Places DEF ServerTypeOK
<1>3. ServerTypeOK'
  BY <1>1, <1>2 DEF ServerTypeOK
<1>4. QuietBeforeBind'
  BY <1>1, <1>2 DEF QuietBeforeBind
<1>5. ServerFollowsMain'
  <2>1. Serves(mode) => at + 1 <= BindAt(mode) /\ server = "none" /\ shutdown = FALSE
    BY <1>2 DEF QuietBeforeBind, ServerTypeOK
  <2> QED
    BY <1>1, <1>2, <2>1 DEF ServerFollowsMain
<1>6. RegistrationFollowsMain'
  <2>1. Registers(mode) => at + 1 <= BindAt(mode) /\ registration = "none"
    BY <1>2 DEF QuietBeforeBind, Serves
  <2>2. Registers(mode) /\ at + 1 > AppAt(mode) => AppSettings \subseteq have
    <3>1. at + 1 > AppAt(mode) => at = AppAt(mode) \/ at > AppAt(mode)
      BY <1>2
    <3> QED
      BY <3>1 DEF RegistrationFollowsMain
  <2>3. (~Registers(mode) => registration = "none") /\ (registration = "ok" => answered)
    BY DEF RegistrationFollowsMain
  <2> QED
    BY <1>1, <1>2, <2>1, <2>2, <2>3 DEF RegistrationFollowsMain
<1>7. ConnectionsFollowServer'
  BY <1>1 DEF ConnectionsFollowServer
<1>8. OutcomeFollowsMain'
  BY <1>1, <1>2 DEF OutcomeFollowsMain
<1> QED
  BY <1>3, <1>4, <1>5, <1>6, <1>7, <1>8

LEMMA HasSettingsKeeps == ServerIInv /\ HasSettings => ServerIInv'
<1> SUFFICES ASSUME ServerIInv, HasSettings PROVE ServerIInv'
  OBVIOUS
<1>1. ServerTypeOK /\ MainAt("need") /\ "need" \in Deeds
  BY DEF ServerIInv, HasSettings, Deeds
<1> DEFINE steps == StepsOf(mode)
           b == BindAt(mode)
<1>2. /\ outcome = "none" /\ at \in DOMAIN steps /\ steps[at].do = "need"
      /\ Serves(mode) => at < b \/ (Registers(mode) /\ at = b + 2)
      /\ Serves(mode) /\ Registers(mode) /\ at \in {AppAt(mode), b + 2} => steps[at].settings = AppSettings
      /\ Serves(mode) => at <= JoinAt(mode)
  BY <1>1, WhereMainIs
<1>3. /\ Advance /\ sent' = sent /\ steps[at].settings \subseteq have
      /\ UNCHANGED <<mode, have, bound, server, shutdown, conn, registration, answered>>
  BY DEF HasSettings, world
<1>4. CASE ~Serves(mode) \/ at < b
  <2>1. Registers(mode) /\ at = AppAt(mode) => AppSettings \subseteq have
    BY <1>2, <1>3 DEF Serves
  <2>2. /\ sent' \in Nat
        /\ sent' # 0 => /\ ~Serves(mode)
                        /\ \A i \in DOMAIN steps : i >= at => steps[i].do = "send"
    BY <1>3 DEF ServerIInv, ServerTypeOK, OutcomeFollowsMain
  <2>3. ~Serves(mode) => DOMAIN steps \subseteq Nat
    BY <1>1, QuietModes DEF ServerTypeOK
  <2> QED
    BY <1>2, <1>3, <1>4, <2>1, <2>2, <2>3, EarlyAdvanceKeeps
<1>5. CASE Serves(mode) /\ Registers(mode) /\ at = b + 2
  <2> USE DEF ServerIInv
  <2>1. /\ outcome' = outcome /\ at' = at + 1 /\ mode' = mode /\ have' = have /\ bound' = bound
        /\ server' = server /\ shutdown' = shutdown /\ conn' = conn /\ sent' = sent
        /\ registration' = registration /\ answered' = answered
    BY <1>3 DEF Advance
  <2>2. /\ at \in Nat \ {0} /\ BindAt(mode) \in Nat /\ AppAt(mode) \in Nat /\ BindAt(mode) > AppAt(mode)
        /\ JoinAt(mode) = BindAt(mode) + 5 /\ at = BindAt(mode) + 2
    BY <1>5, Places DEF ServerTypeOK
  <2>3. ServerTypeOK'
    BY <2>1, <2>2 DEF ServerTypeOK
  <2>4. QuietBeforeBind'
    BY <1>5, <2>1, <2>2 DEF QuietBeforeBind
  <2>5. ServerFollowsMain'
    BY <1>5, <2>1, <2>2 DEF ServerFollowsMain
  <2>6. RegistrationFollowsMain'
    BY <1>5, <2>1, <2>2 DEF RegistrationFollowsMain
  <2>7. ConnectionsFollowServer'
    BY <2>1 DEF ConnectionsFollowServer
  <2>8. OutcomeFollowsMain'
    BY <1>2, <1>5, <2>1 DEF OutcomeFollowsMain
  <2> QED
    BY <2>3, <2>4, <2>5, <2>6, <2>7, <2>8
<1> QED
  BY <1>2, <1>4, <1>5

LEMMA LacksSettingsKeeps == ServerIInv /\ LacksSettings => ServerIInv'
<1> SUFFICES ASSUME ServerIInv, LacksSettings PROVE ServerIInv'
  OBVIOUS
<1>1. ServerTypeOK /\ MainAt("need") /\ "need" \in Deeds
  BY DEF ServerIInv, LacksSettings, Deeds
<1> DEFINE steps == StepsOf(mode)
           b == BindAt(mode)
<1>2. /\ outcome = "none" /\ at \in DOMAIN steps /\ steps[at].do = "need"
      /\ Serves(mode) => at < b \/ (Registers(mode) /\ at = b + 2)
      /\ Serves(mode) /\ Registers(mode) /\ at \in {AppAt(mode), b + 2} => steps[at].settings = AppSettings
  BY <1>1, WhereMainIs
<1>3. /\ Exit("misconfigured") /\ ~(steps[at].settings \subseteq have)
      /\ UNCHANGED <<mode, have, world>>
  BY DEF LacksSettings
<1>4. b \in Nat /\ AppAt(mode) \in Nat /\ b > AppAt(mode) /\ at \in Nat
  BY <1>1, Places DEF ServerTypeOK
\* The app settings were there before the listener was bound.
<1>5. ~(Serves(mode) /\ Registers(mode) /\ at = b + 2)
  BY <1>2, <1>3, <1>4 DEF ServerIInv, RegistrationFollowsMain
<1>6. ~Serves(mode) \/ at <= b
  BY <1>2, <1>4, <1>5
<1> QED
  BY <1>2, <1>3, <1>6, ExitKeeps

\* A step that is only taken before the listener is bound.
LEMMA EarlyStepKeeps ==
    ASSUME ServerIInv, NEW what \in {"connect", "load_tls", "send"}, MainAt(what),
           UNCHANGED <<mode, have, server, shutdown, conn, registration, answered>>,
           \/ /\ Advance /\ UNCHANGED bound
              /\ sent' = IF what = "send" THEN sent + 1 ELSE sent
           \/ Exit("failed") /\ UNCHANGED sent
           \/ Exit("misconfigured") /\ what = "load_tls" /\ UNCHANGED sent
    PROVE  ServerIInv'
<1>1. ServerTypeOK /\ what \in Deeds
  BY DEF ServerIInv, Deeds
<1> DEFINE steps == StepsOf(mode)
           b == BindAt(mode)
<1>2. /\ outcome = "none" /\ at \in DOMAIN steps /\ steps[at].do = what
      /\ what = "send" => ~Serves(mode) /\ \A i \in DOMAIN steps : i >= at => steps[i].do = "send"
      /\ Serves(mode) /\ what # "send" => at < b
      /\ Serves(mode) /\ Registers(mode) /\ at = AppAt(mode) => what = "need"
  BY <1>1, WhereMainIs
<1>3. ~Serves(mode) \/ at < b
  BY <1>2
<1>4. b \in Nat /\ at \in Nat
  BY <1>1, Places DEF ServerTypeOK
<1>5. CASE Advance /\ UNCHANGED bound /\ sent' = IF what = "send" THEN sent + 1 ELSE sent
  <2>1. ~(Registers(mode) /\ at = AppAt(mode))
    BY <1>2 DEF Serves
  <2>2. /\ sent' \in Nat
        /\ sent' # 0 => /\ ~Serves(mode)
                        /\ \A i \in DOMAIN steps : i >= at => steps[i].do = "send"
    BY <1>2, <1>5 DEF ServerIInv, ServerTypeOK, OutcomeFollowsMain
  <2>3. ~Serves(mode) => DOMAIN steps \subseteq Nat
    BY <1>1, QuietModes DEF ServerTypeOK
  <2> QED
    BY <1>2, <1>3, <1>5, <2>1, <2>2, <2>3, EarlyAdvanceKeeps
<1>6. CASE Exit("failed") /\ UNCHANGED sent
  <2>1. UNCHANGED <<mode, have, world>> /\ (~Serves(mode) \/ at <= b)
    BY <1>3, <1>4, <1>6 DEF world
  <2> QED
    BY <1>2, <1>6, <2>1, ExitKeeps
<1>7. CASE Exit("misconfigured") /\ what = "load_tls" /\ UNCHANGED sent
  <2>1. UNCHANGED <<mode, have, world>> /\ (~Serves(mode) \/ at <= b)
    BY <1>3, <1>4, <1>7 DEF world
  <2> QED
    BY <1>2, <1>7, <2>1, ExitKeeps
<1> QED
  BY <1>5, <1>6, <1>7

LEMMA EarlyStepsKeep == ServerIInv /\ (LoadTls \/ Connect \/ SendDemo) => ServerIInv'
<1>1. ServerIInv /\ LoadTls => ServerIInv'
  BY EarlyStepKeeps DEF LoadTls, world
<1>2. ServerIInv /\ Connect => ServerIInv'
  BY EarlyStepKeeps DEF Connect, world
<1>3. ServerIInv /\ SendDemo => ServerIInv'
  BY EarlyStepKeeps DEF SendDemo
<1> QED
  BY <1>1, <1>2, <1>3

\* The facts about the places that the later steps of main need.
LEMMA LatePlaces ==
    ASSUME ServerTypeOK, NEW what \in Deeds \ {"need", "connect", "send", "load_tls"}, MainAt(what)
    PROVE  /\ outcome = "none" /\ Serves(mode)
           /\ at \in Nat \ {0} /\ BindAt(mode) \in Nat /\ AppAt(mode) \in Nat /\ BindAt(mode) > AppAt(mode)
           /\ JoinAt(mode) = IF Registers(mode) THEN BindAt(mode) + 5 ELSE BindAt(mode) + 2
           /\ what = "bind" => at = BindAt(mode)
           /\ what = "spawn" => at = BindAt(mode) + 1
           /\ what = "register" => Registers(mode) /\ at = BindAt(mode) + 3
           /\ what \in {"shut_down", "shut_down_if_refused"} => Registers(mode) /\ at = BindAt(mode) + 4
           /\ what = "shut_down" => mode = "register-webhook"
           /\ what = "shut_down_if_refused" => mode # "register-webhook"
           /\ what = "join" => at = JoinAt(mode)
  BY WhereMainIs, Places DEF ServerTypeOK

LEMMA BindKeeps == ServerIInv /\ Bind => ServerIInv'
<1> SUFFICES ASSUME ServerIInv, Bind PROVE ServerIInv'
  OBVIOUS
<1>1. ServerTypeOK /\ MainAt("bind") /\ "bind" \in Deeds \ {"need", "connect", "send", "load_tls"}
  BY DEF ServerIInv, Bind, Deeds
<1>2. /\ outcome = "none" /\ Serves(mode) /\ at = BindAt(mode)
      /\ at \in Nat \ {0} /\ BindAt(mode) \in Nat /\ AppAt(mode) \in Nat /\ BindAt(mode) > AppAt(mode)
      /\ JoinAt(mode) = IF Registers(mode) THEN BindAt(mode) + 5 ELSE BindAt(mode) + 2
  BY <1>1, LatePlaces
<1>3. CASE Exit("failed")
  <2>1. UNCHANGED <<mode, have, world>> /\ at <= BindAt(mode)
    BY <1>2 DEF Bind
  <2> QED
    BY <1>2, <1>3, <2>1, ExitKeeps
<1>4. CASE bound' = TRUE /\ Advance
  <2> USE DEF ServerIInv
  <2>1. /\ outcome' = outcome /\ at' = at + 1 /\ mode' = mode /\ have' = have /\ bound' = TRUE
        /\ server' = server /\ shutdown' = shutdown /\ conn' = conn /\ sent' = sent
        /\ registration' = registration /\ answered' = answered
    BY <1>4 DEF Bind, Advance, world
  <2>2. ServerTypeOK'
    BY <1>2, <2>1 DEF ServerTypeOK
  <2>3. QuietBeforeBind'
    BY <1>2, <2>1 DEF QuietBeforeBind
  <2>4. server = "none" /\ ~shutdown /\ registration = "none"
    BY <1>2 DEF QuietBeforeBind
  <2>5. ServerFollowsMain'
    BY <1>2, <2>1, <2>4 DEF ServerFollowsMain
  <2>6. RegistrationFollowsMain'
    BY <1>2, <2>1, <2>4 DEF RegistrationFollowsMain
  <2>7. ConnectionsFollowServer'
    BY <2>1 DEF ConnectionsFollowServer
  <2>8. OutcomeFollowsMain'
    BY <1>2, <2>1 DEF OutcomeFollowsMain
  <2> QED
    BY <2>2, <2>3, <2>5, <2>6, <2>7, <2>8
<1> QED
  BY <1>3, <1>4 DEF Bind

LEMMA SpawnKeeps == ServerIInv /\ Spawn => ServerIInv'
<1> SUFFICES ASSUME ServerIInv, Spawn PROVE ServerIInv'
  OBVIOUS
<1> USE DEF ServerIInv
<1>1. ServerTypeOK /\ MainAt("spawn") /\ "spawn" \in Deeds \ {"need", "connect", "send", "load_tls"}
  BY DEF Spawn, Deeds
<1>2. /\ outcome = "none" /\ Serves(mode) /\ at = BindAt(mode) + 1
      /\ at \in Nat \ {0} /\ BindAt(mode) \in Nat /\ AppAt(mode) \in Nat /\ BindAt(mode) > AppAt(mode)
      /\ JoinAt(mode) = IF Registers(mode) THEN BindAt(mode) + 5 ELSE BindAt(mode) + 2
  BY <1>1, LatePlaces
<1>3. /\ outcome' = outcome /\ at' = at + 1 /\ mode' = mode /\ have' = have /\ bound' = bound
      /\ server' = "accepting" /\ shutdown' = shutdown /\ conn' = conn /\ sent' = sent
      /\ registration' = registration /\ answered' = answered
  BY DEF Spawn, Advance
<1>4. bound /\ ~shutdown
  BY <1>2 DEF ServerFollowsMain
<1>5. ServerTypeOK'
  BY <1>2, <1>3 DEF ServerTypeOK
<1>6. QuietBeforeBind'
  BY <1>2, <1>3 DEF QuietBeforeBind
<1>7. ServerFollowsMain'
  BY <1>2, <1>3, <1>4 DEF ServerFollowsMain
<1>8. RegistrationFollowsMain'
  BY <1>2, <1>3 DEF RegistrationFollowsMain
<1>9. ConnectionsFollowServer'
  BY <1>3 DEF ConnectionsFollowServer
<1>10. OutcomeFollowsMain'
  BY <1>2, <1>3 DEF OutcomeFollowsMain
<1> QED
  BY <1>5, <1>6, <1>7, <1>8, <1>9, <1>10

\* register_webhook asks Meta, and returns with Meta's answer.
LEMMA RegisterKeeps == ServerIInv /\ Register => ServerIInv'
<1> SUFFICES ASSUME ServerIInv, Register PROVE ServerIInv'
  OBVIOUS
<1> USE DEF ServerIInv
<1>1. ServerTypeOK /\ MainAt("register") /\ "register" \in Deeds \ {"need", "connect", "send", "load_tls"}
  BY DEF Register, Deeds
<1>2. /\ outcome = "none" /\ Serves(mode) /\ Registers(mode) /\ at = BindAt(mode) + 3
      /\ at \in Nat \ {0} /\ BindAt(mode) \in Nat /\ AppAt(mode) \in Nat /\ BindAt(mode) > AppAt(mode)
      /\ JoinAt(mode) = BindAt(mode) + 5
  BY <1>1, LatePlaces
<1>3. /\ outcome' = outcome /\ mode' = mode /\ have' = have /\ bound' = bound
      /\ server' = server /\ shutdown' = shutdown /\ conn' = conn /\ sent' = sent
      /\ answered' = answered
      /\ \/ registration = "none" /\ registration' = "asked" /\ at' = at
         \/ registration \in {"ok", "refused"} /\ registration' = registration /\ at' = at + 1
  BY DEF Register
<1>4. ServerTypeOK'
  BY <1>2, <1>3 DEF ServerTypeOK
<1>5. QuietBeforeBind'
  BY <1>2, <1>3 DEF QuietBeforeBind
<1>6. ServerFollowsMain'
  BY <1>2, <1>3 DEF ServerFollowsMain
<1>7. RegistrationFollowsMain'
  BY <1>2, <1>3 DEF RegistrationFollowsMain
<1>8. ConnectionsFollowServer'
  BY <1>3 DEF ConnectionsFollowServer
<1>9. OutcomeFollowsMain'
  BY <1>2, <1>3 DEF OutcomeFollowsMain
<1> QED
  BY <1>4, <1>5, <1>6, <1>7, <1>8, <1>9

LEMMA ShutDownKeeps == ServerIInv /\ ShutDown => ServerIInv'
<1> SUFFICES ASSUME ServerIInv, ShutDown PROVE ServerIInv'
  OBVIOUS
<1> USE DEF ServerIInv
<1>1. PICK what \in {"shut_down", "shut_down_if_refused"} : MainAt(what)
  BY DEF ShutDown
<1>2. ServerTypeOK /\ what \in Deeds \ {"need", "connect", "send", "load_tls"}
  BY DEF Deeds
<1>3. /\ outcome = "none" /\ Serves(mode) /\ Registers(mode) /\ at = BindAt(mode) + 4
      /\ at \in Nat \ {0} /\ BindAt(mode) \in Nat /\ AppAt(mode) \in Nat /\ BindAt(mode) > AppAt(mode)
      /\ JoinAt(mode) = BindAt(mode) + 5
      /\ what = "shut_down" <=> mode = "register-webhook"
  BY <1>1, <1>2, LatePlaces
<1>4. /\ outcome' = outcome /\ at' = at + 1 /\ mode' = mode /\ have' = have /\ bound' = bound
      /\ server' = server /\ conn' = conn /\ sent' = sent
      /\ registration' = registration /\ answered' = answered
      /\ shutdown' = GivesSignal
  BY DEF ShutDown, Advance
<1>5. GivesSignal <=> mode = "register-webhook" \/ registration = "refused"
  <2>1. MainAt("shut_down") <=> what = "shut_down"
    BY <1>1 DEF MainAt
  <2> QED
    BY <1>3, <2>1 DEF GivesSignal
<1>6. GivesSignal \in BOOLEAN
  BY DEF GivesSignal
<1> DEFINE signal == GivesSignal
<1> HIDE DEF signal
<1>7. shutdown' = signal /\ signal \in BOOLEAN
      /\ (signal <=> mode = "register-webhook" \/ registration = "refused")
  BY <1>4, <1>5, <1>6 DEF signal
<1>8. ServerTypeOK'
  BY <1>3, <1>4, <1>7 DEF ServerTypeOK
<1>9. QuietBeforeBind'
  BY <1>3, <1>4 DEF QuietBeforeBind
<1>10. ~shutdown /\ server = "accepting"
  BY <1>3 DEF ServerFollowsMain, ServerTypeOK
<1>11. ServerFollowsMain'
  BY <1>3, <1>4, <1>7, <1>10 DEF ServerFollowsMain
<1>12. RegistrationFollowsMain'
  BY <1>3, <1>4 DEF RegistrationFollowsMain
<1>13. ConnectionsFollowServer'
  BY <1>4 DEF ConnectionsFollowServer
<1>14. OutcomeFollowsMain'
  BY <1>3, <1>4 DEF OutcomeFollowsMain
<1> QED
  BY <1>8, <1>9, <1>11, <1>12, <1>13, <1>14

LEMMA JoinKeeps == ServerIInv /\ Join => ServerIInv'
<1> SUFFICES ASSUME ServerIInv, Join PROVE ServerIInv'
  OBVIOUS
<1>1. ServerTypeOK /\ MainAt("join") /\ "join" \in Deeds \ {"need", "connect", "send", "load_tls"}
  BY DEF ServerIInv, Join, Deeds
<1> DEFINE how == IF registration = "refused" THEN "failed" ELSE "ok"
<1>2. how \in {"misconfigured", "failed", "ok"} /\ how # "misconfigured"
  OBVIOUS
<1>3. Exit(how) /\ UNCHANGED <<mode, have, world>> /\ server = "stopped"
  BY DEF Join, Joined
<1>4. outcome = "none" /\ Serves(mode) /\ at = JoinAt(mode)
  BY <1>1, LatePlaces
<1> QED
  BY <1>2, <1>3, <1>4, ExitKeeps

\* A mode with a server ends at its last step.
LEMMA FinishKeeps == ServerIInv /\ Finish => ServerIInv'
<1> SUFFICES ASSUME ServerIInv, Finish PROVE ServerIInv'
  OBVIOUS
<1>1. outcome = "none" /\ Exit("ok") /\ UNCHANGED <<mode, have, world>> /\ at > Len(StepsOf(mode))
  BY DEF Finish
<1>2. ~Serves(mode)
  <2>1. SUFFICES ASSUME Serves(mode) PROVE FALSE
    OBVIOUS
  <2>2. Len(StepsOf(mode)) = JoinAt(mode) /\ JoinAt(mode) \in Nat
    BY <2>1, ServingModes, Places DEF ServerIInv, ServerTypeOK
  <2>3. at <= JoinAt(mode) /\ at \in Nat
    BY <2>1 DEF ServerIInv, ServerFollowsMain, ServerTypeOK
  <2> QED
    BY <1>1, <2>2, <2>3
<1> QED
  BY <1>1, <1>2, ExitKeeps

-----------------------------------------------------------------------------
(* The steps of Meta, of the server and of its peers keep the invariant.   *)

\* Main stands still, and what it has decided stays decided.
MainStands == UNCHANGED <<mode, have, at, outcome, sent>>

LEMMA MainStandsPlaces ==
    ASSUME ServerTypeOK, MainStands
    PROVE  /\ mode' = mode /\ have' = have /\ at' = at /\ outcome' = outcome /\ sent' = sent
           /\ at \in Nat /\ BindAt(mode) \in Nat
           /\ JoinAt(mode) = IF Registers(mode) THEN BindAt(mode) + 5 ELSE BindAt(mode) + 2
  BY Places DEF ServerTypeOK, MainStands

LEMMA MetaKeeps == ServerIInv /\ (MetaAccepts \/ MetaRefuses) => ServerIInv'
<1> SUFFICES ASSUME ServerIInv, MetaAccepts \/ MetaRefuses PROVE ServerIInv'
  OBVIOUS
<1> USE DEF ServerIInv
<1>1. /\ registration = "asked" /\ registration' \in {"ok", "refused"}
      /\ registration' = "ok" => answered
      /\ bound' = bound /\ server' = server /\ shutdown' = shutdown /\ conn' = conn
      /\ answered' = answered /\ MainStands
  BY DEF MetaAccepts, MetaRefuses, MainStands
<1>2. /\ mode' = mode /\ have' = have /\ at' = at /\ outcome' = outcome /\ sent' = sent
      /\ at \in Nat /\ BindAt(mode) \in Nat
      /\ JoinAt(mode) = IF Registers(mode) THEN BindAt(mode) + 5 ELSE BindAt(mode) + 2
  BY <1>1, MainStandsPlaces
<1>3. Registers(mode) /\ Serves(mode) /\ at = BindAt(mode) + 3
  BY <1>1, <1>2 DEF RegistrationFollowsMain, Serves
<1>4. outcome = "none"
  BY <1>2, <1>3 DEF OutcomeFollowsMain
<1>5. ServerTypeOK'
  BY <1>1, <1>2 DEF ServerTypeOK
<1>6. QuietBeforeBind'
  BY <1>2, <1>3 DEF QuietBeforeBind
<1>7. ServerFollowsMain'
  BY <1>1, <1>2, <1>3 DEF ServerFollowsMain
<1>8. RegistrationFollowsMain'
  BY <1>1, <1>2, <1>3 DEF RegistrationFollowsMain
<1>9. ConnectionsFollowServer'
  BY <1>1 DEF ConnectionsFollowServer
<1>10. OutcomeFollowsMain'
  BY <1>2, <1>4 DEF OutcomeFollowsMain
<1> QED
  BY <1>5, <1>6, <1>7, <1>8, <1>9, <1>10

\* The server goes from one state to the next while main waits for it or goes on.
LEMMA ServerKeeps == ServerIInv /\ Server => ServerIInv'
<1> SUFFICES ASSUME ServerIInv, Server PROVE ServerIInv'
  OBVIOUS
<1> USE DEF ServerIInv
<1>1. /\ \/ /\ server = "accepting" /\ shutdown /\ server' = "closing" /\ ~bound'
            /\ bound' \in BOOLEAN
            /\ conn' = [p \in Peers |-> IF conn[p] = "request" THEN "request" ELSE "away"]
         \/ /\ server = "closing" /\ server' = "stopped" /\ bound' = bound /\ conn' = conn
            /\ \A p \in Peers : conn[p] = "away"
      /\ shutdown' = shutdown /\ registration' = registration /\ answered' = answered
      /\ MainStands
  BY DEF Server, Closes, Stops, MainStands
<1>2. /\ mode' = mode /\ have' = have /\ at' = at /\ outcome' = outcome /\ sent' = sent
      /\ at \in Nat /\ BindAt(mode) \in Nat
      /\ JoinAt(mode) = IF Registers(mode) THEN BindAt(mode) + 5 ELSE BindAt(mode) + 2
  BY <1>1, MainStandsPlaces
<1>3. Serves(mode) /\ at > BindAt(mode) + 1
  BY <1>1, <1>2 DEF QuietBeforeBind, ServerFollowsMain
<1>4. outcome = "none" /\ shutdown
  BY <1>1, <1>2, <1>3 DEF OutcomeFollowsMain, ServerFollowsMain
<1>5. ServerTypeOK'
  <2>1. conn' \in [Peers -> {"away", "queued", "handshake", "request"}]
    BY <1>1 DEF ServerTypeOK
  <2>2. bound' \in BOOLEAN /\ server' \in {"none", "accepting", "closing", "stopped"}
    BY <1>1 DEF ServerTypeOK
  <2> QED
    BY <1>1, <1>2, <2>1, <2>2 DEF ServerTypeOK
<1>6. QuietBeforeBind'
  BY <1>2, <1>3 DEF QuietBeforeBind
<1>7. ServerFollowsMain'
  <2>1. bound' <=> server' = "accepting"
    BY <1>1, <1>2, <1>3 DEF ServerFollowsMain
  <2>2. server' # "none"
    BY <1>1
  <2> QED
    BY <1>1, <1>2, <1>3, <1>4, <2>1, <2>2 DEF ServerFollowsMain
<1>8. RegistrationFollowsMain'
  BY <1>1, <1>2 DEF RegistrationFollowsMain
<1>9. ConnectionsFollowServer'
  BY <1>1 DEF ConnectionsFollowServer, ServerTypeOK
<1>10. OutcomeFollowsMain'
  BY <1>2, <1>4 DEF OutcomeFollowsMain
<1> QED
  BY <1>5, <1>6, <1>7, <1>8, <1>9, <1>10

\* A connection goes from one state to the next.
LEMMA ServedKeeps == ASSUME ServerIInv, NEW p \in Peers, Served(p) PROVE ServerIInv'
<1> USE DEF ServerIInv
<1>1. PICK state \in {"away", "queued", "handshake", "request"} :
         /\ conn' = [conn EXCEPT ![p] = state]
         /\ state = "queued" => bound
         /\ state = "handshake" => server = "accepting"
         /\ state = "request" => server \in {"accepting", "closing"}
         /\ conn[p] = "away" => bound
         /\ answered' = answered \/ answered' = TRUE
  <2>1. CASE Connects(p)
    BY <2>1 DEF Connects
  <2>2. CASE accept(p)
    BY <2>2 DEF accept, CanAccept
  <2>3. CASE HandshakeEnds(p)
    BY <2>3 DEF HandshakeEnds, ConnectionsFollowServer
  <2>4. CASE HandshakeFails(p)
    BY <2>4 DEF HandshakeFails
  <2>5. CASE RequestEnds(p)
    <3>1. verify_webhook_challenge(MetaQuery) = 200
      BY DEF verify_webhook_challenge, MetaQuery
    <3> QED
      BY <2>5, <3>1 DEF RequestEnds
  <2> QED
    BY <2>1, <2>2, <2>3, <2>4, <2>5 DEF Served
<1>2. /\ MainStands /\ bound' = bound /\ server' = server /\ shutdown' = shutdown
      /\ registration' = registration
  BY DEF Served, Connects, accept, HandshakeEnds, HandshakeFails, RequestEnds, MainStands
<1>3. /\ mode' = mode /\ have' = have /\ at' = at /\ outcome' = outcome /\ sent' = sent
      /\ at \in Nat /\ BindAt(mode) \in Nat
      /\ JoinAt(mode) = IF Registers(mode) THEN BindAt(mode) + 5 ELSE BindAt(mode) + 2
  BY <1>2, MainStandsPlaces
<1>4. Serves(mode) /\ at > BindAt(mode)
  BY <1>1, <1>3 DEF QuietBeforeBind
<1>5. ServerTypeOK'
  <2>1. conn' \in [Peers -> {"away", "queued", "handshake", "request"}]
    BY <1>1 DEF ServerTypeOK
  <2>2. answered' \in BOOLEAN
    BY <1>1 DEF ServerTypeOK
  <2> QED
    BY <1>2, <1>3, <2>1, <2>2 DEF ServerTypeOK
<1>6. QuietBeforeBind'
  BY <1>3, <1>4 DEF QuietBeforeBind
<1>7. ServerFollowsMain'
  BY <1>2, <1>3 DEF ServerFollowsMain
<1>8. RegistrationFollowsMain'
  BY <1>1, <1>2, <1>3 DEF RegistrationFollowsMain
<1>9. ConnectionsFollowServer'
  <2>1. \A q \in Peers : conn'[q] = IF q = p THEN state ELSE conn[q]
    BY <1>1 DEF ServerTypeOK
  <2> QED
    BY <1>1, <1>2, <2>1 DEF ConnectionsFollowServer
<1>10. OutcomeFollowsMain'
  BY <1>2, <1>3 DEF OutcomeFollowsMain
<1> QED
  BY <1>5, <1>6, <1>7, <1>8, <1>9, <1>10

LEMMA ServerStutters == ServerIInv /\ UNCHANGED serverVars => ServerIInv'
  BY DEF ServerIInv, serverVars, ServerTypeOK, QuietBeforeBind, ServerFollowsMain,
         RegistrationFollowsMain, ConnectionsFollowServer, OutcomeFollowsMain

LEMMA ServerIInvIsInductive == ServerIInv /\ [ServerNext]_serverVars => ServerIInv'
<1> SUFFICES ASSUME ServerIInv, [ServerNext]_serverVars PROVE ServerIInv'
  OBVIOUS
<1>1. CASE Main
  BY <1>1, HasSettingsKeeps, LacksSettingsKeeps, EarlyStepsKeep, BindKeeps, SpawnKeeps,
     RegisterKeeps, ShutDownKeeps, JoinKeeps, FinishKeeps DEF Main
<1>2. CASE MetaAccepts \/ MetaRefuses
  BY <1>2, MetaKeeps
<1>3. CASE Server
  BY <1>3, ServerKeeps
<1>4. ASSUME NEW p \in Peers, Served(p) PROVE ServerIInv'
  BY <1>4, ServedKeeps
<1>5. CASE UNCHANGED serverVars
  BY <1>5, ServerStutters
<1> QED
  BY <1>1, <1>2, <1>3, <1>4, <1>5 DEF ServerNext

-----------------------------------------------------------------------------
(* What the invariant says of the program.                                 *)

LEMMA ServerIInvImplies == ServerIInv => ServerInv
<1> SUFFICES ASSUME ServerIInv PROVE ServerInv
  OBVIOUS
<1> USE DEF ServerIInv
<1>1. /\ at \in Nat /\ BindAt(mode) \in Nat
      /\ JoinAt(mode) = IF Registers(mode) THEN BindAt(mode) + 5 ELSE BindAt(mode) + 2
  BY Places DEF ServerTypeOK
<1>2. FoundBeforeAnyEffect
  <2> SUFFICES ASSUME outcome = "misconfigured"
               PROVE  sent = 0 /\ ~bound /\ server = "none" /\ registration = "none"
    BY DEF FoundBeforeAnyEffect
  <2>1. ~Serves(mode) \/ at <= BindAt(mode)
    BY DEF OutcomeFollowsMain
  <2>2. sent = 0
    BY <1>1 DEF OutcomeFollowsMain
  <2> QED
    BY <2>1, <2>2 DEF QuietBeforeBind
<1>3. ServerEndsWithMain
  <2> SUFFICES ASSUME outcome # "none"
               PROVE  /\ server \in {"none", "stopped"} /\ ~bound
                      /\ \A p \in Peers : conn[p] = "away"
                      /\ registration # "none" => outcome = IF registration = "ok" THEN "ok" ELSE "failed"
    BY DEF ServerEndsWithMain
  <2>1. CASE ~Serves(mode) \/ at <= BindAt(mode)
    BY <2>1 DEF QuietBeforeBind
  <2>2. CASE /\ Serves(mode) /\ at > BindAt(mode) /\ at = JoinAt(mode) /\ server = "stopped"
             /\ outcome = IF registration = "refused" THEN "failed" ELSE "ok"
    <3>1. ~bound
      BY <1>1, <2>2 DEF ServerFollowsMain
    <3>2. \A p \in Peers : conn[p] = "away"
      BY <2>2, <3>1 DEF ConnectionsFollowServer, ServerTypeOK
    <3>3. registration # "none" => registration \in {"ok", "refused"}
      BY <1>1, <2>2 DEF RegistrationFollowsMain
    <3> QED
      BY <2>2, <3>1, <3>2, <3>3
  <2> QED
    BY <1>1, <2>1, <2>2 DEF OutcomeFollowsMain
<1>4. RegisteredMeansServed
  <2> SUFFICES ASSUME registration = "ok"
               PROVE  /\ answered
                      /\ mode = "serve-and-register" => server = "accepting" /\ bound /\ outcome = "none"
    BY DEF RegisteredMeansServed
  <2>1. answered /\ Registers(mode) /\ Serves(mode)
    BY DEF RegistrationFollowsMain, Serves
  <2>2. at >= BindAt(mode) + 3
    BY <1>1, <2>1 DEF RegistrationFollowsMain
  <2>3. ASSUME mode = "serve-and-register" PROVE server = "accepting" /\ bound
    <3>1. ~shutdown
      BY <2>1, <2>3 DEF ServerFollowsMain
    <3> QED
      BY <1>1, <2>1, <2>2, <3>1 DEF ServerFollowsMain, ServerTypeOK
  <2>4. ASSUME mode = "serve-and-register" PROVE outcome = "none"
    BY <1>1, <2>1, <2>2, <2>3, <2>4 DEF OutcomeFollowsMain
  <2> QED
    BY <2>1, <2>3, <2>4
<1> QED
  BY <1>2, <1>3, <1>4 DEF ServerInv

\* In every mode, with whatever settings and however the connections of however many
\* peers interleave: a missing setting is found before any effect, main leaves no
\* server and no request behind, and a registered webhook has its server.
THEOREM ServerInvariant == ServerSpec => []ServerInv
<1>1. ServerInit => ServerIInv
  BY ServerStarts
<1>2. ServerIInv /\ [ServerNext]_serverVars => ServerIInv'
  BY ServerIInvIsInductive
<1>3. ServerIInv => ServerInv
  BY ServerIInvImplies
<1> QED
  BY <1>1, <1>2, <1>3, PTL DEF ServerSpec

-----------------------------------------------------------------------------
(* The dialog: the inductive invariant.                                    *)

Names == {"menu", "list", "benchmarks", "image", "audio", "voice", "video", "sticker", "no text",
          "echo"} \cup Commands
Drafts == [name : Names, offers : SUBSET Commands]
          \cup [name : {"shifted"}, latitude : -Pole .. Pole]

DialogTypeOK ==
    /\ offered \subseteq Commands
    /\ task \in [Messages -> {"none", "read", "typing", "acting", "done", "failed"}]
    /\ DOMAIN input = Messages
    /\ replies \in [Messages -> Seq(Drafts)]

\* What was clicked was offered, and the replies are the first ones of the answer.
AnswerFollowsInput(m) ==
    /\ task[m] = "none" => input[m] = NoContent /\ replies[m] = <<>>
    /\ task[m] # "none" =>
          /\ input[m] \in Contents
          /\ input[m].kind = "click" => input[m].command \in Commands
    /\ replies[m] # <<>> =>
          LET drafts == response_for(input[m])
          IN  /\ drafts # NoContent
              /\ Len(replies[m]) <= Len(drafts)
              /\ \A i \in 1 .. Len(replies[m]) : replies[m][i] = drafts[i]

DialogIInv == DialogTypeOK /\ \A m \in Messages : AnswerFollowsInput(m)

LEMMA CommandsAre ==
    /\ Commands = {"demo:menu", "demo:list", "demo:location", "demo:inspect", "demo:formatting",
                   "demo:media", "demo:reaction", "demo:quote", "demo:location-request",
                   "demo:cta", "demo:benchmarks", "demo:echo"} \cup BenchmarkChoices
    /\ menu_draft.offers \subseteq Commands /\ list_draft.offers \subseteq Commands
    /\ database_benchmarks_draft.offers \subseteq Commands
    /\ template_demo_payload.offers \subseteq Commands
<1>1. /\ menu_draft.offers = {"demo:list", "demo:location", "demo:inspect"}
      /\ list_draft.offers = {"demo:menu", "demo:formatting", "demo:media", "demo:reaction",
                              "demo:quote", "demo:location", "demo:location-request",
                              "demo:cta", "demo:inspect", "demo:benchmarks"}
      /\ database_benchmarks_draft.offers = BenchmarkChoices \cup {"demo:list"}
      /\ template_demo_payload.offers = {"demo:list", "demo:location", "demo:inspect"}
  BY DEF menu_draft, list_draft, database_benchmarks_draft, template_demo_payload, Draft
<1> QED
  BY <1>1, Zenon DEF Commands

\* What a list of one draft is.
LEMMA OneDraft ==
    ASSUME NEW d \in Drafts
    PROVE  <<d>> \in Seq(Drafts) /\ Len(<<d>>) = 1 /\ <<d>>[1] = d
  OBVIOUS

LEMMA DraftsOffer == ASSUME NEW d \in Drafts PROVE Offers(d) \subseteq Commands
<1>1. CASE d \in [name : Names, offers : SUBSET Commands]
  <2>1. d.offers \subseteq Commands
    BY <1>1
  <2> QED
    BY <2>1 DEF Offers
<1>2. CASE d \in [name : {"shifted"}, latitude : -Pole .. Pole]
  BY <1>2 DEF Offers
<1> QED
  BY <1>1, <1>2 DEF Drafts

LEMMA PlainDraft ==
    ASSUME NEW name \in Names
    PROVE  Draft(name, {}) \in Drafts /\ Draft(name, {}).name = name
  BY DEF Draft, Drafts

\* The answer to a command that was offered: drafts of the program, and not the echo.
LEMMA CommandAnswers ==
    ASSUME NEW by \in {"click", "text"}, NEW command \in Commands \cup {"other"}
    PROVE  LET drafts == response_for([kind |-> by, command |-> command])
           IN  /\ drafts \in Seq(Drafts)
               /\ command \in Commands => drafts = <<>> \/ drafts[1].name # "echo"
<1> DEFINE content == [kind |-> by, command |-> command]
           drafts == response_for(content)
<1>1. content.kind # "location" /\ content.kind # "image" /\ content.command = command
  OBVIOUS
<1>2. /\ command = "demo:menu" => drafts = <<menu_draft>>
      /\ command = "demo:list" => drafts = <<list_draft>>
      /\ command = "demo:benchmarks" => drafts = <<database_benchmarks_draft>>
      /\ command = "demo:media" => drafts = embedded_media_drafts
      /\ command \in BenchmarkChoices => drafts = <<>>
      /\ command \in {"demo:formatting", "demo:reaction", "demo:quote", "demo:location",
                      "demo:location-request", "demo:cta", "demo:inspect", "demo:echo"}
            => drafts = <<Draft(command, {})>>
      /\ command = "other" => drafts = <<Draft("echo", {})>>
  BY <1>1 DEF response_for, BenchmarkChoices, Plain
<1> SUFFICES drafts \in Seq(Drafts) /\ (command \in Commands => drafts = <<>> \/ drafts[1].name # "echo")
  OBVIOUS
<1> HIDE DEF content, drafts
<1>3. ASSUME NEW d \in Drafts, drafts = <<d>>
      PROVE  drafts \in Seq(Drafts) /\ drafts[1].name = d.name
  BY <1>3, OneDraft
<1>4. CASE command \in {"demo:menu", "demo:list", "demo:benchmarks"}
  <2>1. PICK d \in {menu_draft, list_draft, database_benchmarks_draft} : drafts = <<d>>
    BY <1>2, <1>4
  <2>2. /\ menu_draft \in Drafts /\ menu_draft.name = "menu"
        /\ list_draft \in Drafts /\ list_draft.name = "list"
        /\ database_benchmarks_draft \in Drafts /\ database_benchmarks_draft.name = "benchmarks"
    <3>1. ASSUME NEW name \in Names, NEW choices \in SUBSET Commands
          PROVE  Draft(name, choices) \in Drafts /\ Draft(name, choices).name = name
                 /\ Draft(name, choices).offers = choices
      BY DEF Draft, Drafts
    <3>2. {"menu", "list", "benchmarks"} \subseteq Names
      BY DEF Names
    <3> QED
      BY <3>1, <3>2, CommandsAre DEF menu_draft, list_draft, database_benchmarks_draft, Draft
  <2> QED
    BY <1>3, <2>1, <2>2
<1>5. CASE command = "demo:media"
  <2> DEFINE names == <<"image", "audio", "voice", "video", "sticker">>
             shown == {"image", "audio", "voice", "video", "sticker"}
             draft(i) == Draft(names[i], {})
  <2>1. \A i \in 1 .. 5 : names[i] \in shown
    <3>1. \A i \in 1 .. 5 : i \in {1, 2, 3, 4, 5}
      OBVIOUS
    <3> QED
      BY <3>1
  <2>2. names[1] = "image" /\ shown \subseteq Names
    BY DEF Names
  <2>3. drafts = [i \in 1 .. 5 |-> draft(i)]
    BY <1>2, <1>5 DEF embedded_media_drafts
  <2> HIDE DEF names, shown
  <2>4. \A i \in 1 .. 5 : draft(i) \in Drafts /\ draft(i).name = names[i]
    BY <2>1, <2>2, PlainDraft
  <2> HIDE DEF draft
  <2>5. drafts \in Seq(Drafts) /\ drafts[1] = draft(1)
    BY <2>3, <2>4
  <2>6. drafts[1].name = "image"
    BY <2>2, <2>4, <2>5
  <2> QED
    BY <2>5, <2>6
<1>6. CASE command \in BenchmarkChoices
  BY <1>2, <1>6, EmptySeq
<1>7. CASE command \in {"demo:formatting", "demo:reaction", "demo:quote", "demo:location",
                        "demo:location-request", "demo:cta", "demo:inspect", "demo:echo"}
  <2>1. drafts = <<Draft(command, {})>> /\ command # "echo" /\ command \in Names
    BY <1>2, <1>7, CommandsAre DEF Names
  <2>2. Draft(command, {}) \in Drafts /\ Draft(command, {}).name = command
    BY <2>1, PlainDraft
  <2> QED
    BY <1>3, <2>1, <2>2
<1>8. CASE command = "other"
  <2>1. drafts = <<Draft("echo", {})>> /\ command \notin Commands
    BY <1>2, <1>8, CommandsAre DEF BenchmarkChoices
  <2>2. Draft("echo", {}) \in Drafts
    BY PlainDraft DEF Names
  <2> QED
    BY <1>3, <2>1, <2>2
<1> QED
  BY <1>4, <1>5, <1>6, <1>7, <1>8, CommandsAre

\* The answer to a location that is on the map, and to one that is not.
LEMMA LocationAnswers ==
    ASSUME NEW content \in Contents, content.kind = "location"
    PROVE  /\ content.latitude \in Int
           /\ OnTheMap(content.latitude) =>
                 LET drafts == response_for(content)
                 IN  /\ drafts \in Seq(Drafts) /\ Len(drafts) = 1
                     /\ OnTheMap(drafts[1].latitude) /\ drafts[1].latitude <= content.latitude
           /\ ~OnTheMap(content.latitude) => response_for(content) = NoContent
<1> DEFINE here == content.latitude
           there == Southwards(here)
           d == [name |-> "shifted", latitude |-> there]
<1>1. here \in Int /\ Pole \in Nat
  BY DialogAssumption DEF Contents
<1>2. OnTheMap(here) => there \in -Pole .. Pole /\ there <= here
  BY <1>1 DEF OnTheMap, Southwards
<1>3. response_for(content) = IF OnTheMap(here) THEN <<d>> ELSE NoContent
  BY DEF response_for
<1> HIDE DEF here, there
<1>4. there \in -Pole .. Pole => d \in Drafts
  BY DEF Drafts
<1>5. d.latitude = there
  OBVIOUS
<1> HIDE DEF d
<1>6. d \in Drafts => <<d>> \in Seq(Drafts) /\ Len(<<d>>) = 1 /\ <<d>>[1] = d
  BY OneDraft
<1>7. OnTheMap(here) => /\ response_for(content) = <<d>> /\ <<d>> \in Seq(Drafts) /\ Len(<<d>>) = 1
                        /\ <<d>>[1].latitude = there
  BY <1>2, <1>3, <1>4, <1>5, <1>6
<1>8. there \in -Pole .. Pole => OnTheMap(there)
  BY DEF OnTheMap
<1> QED
  BY <1>1, <1>2, <1>3, <1>7, <1>8 DEF here

\* response_for answers with drafts of the program, or with an error.
LEMMA Answers ==
    ASSUME NEW content \in Contents
    PROVE  response_for(content) = NoContent \/ response_for(content) \in Seq(Drafts)
<1>1. CASE content.kind = "location"
  BY <1>1, LocationAnswers
<1>2. CASE content.kind = "image"
  <2>1. response_for(content) = <<Draft("no text", {})>>
    BY <1>2 DEF response_for, Plain
  <2>2. Draft("no text", {}) \in Drafts
    BY PlainDraft DEF Names
  <2> QED
    BY <2>1, <2>2, OneDraft
<1>3. CASE content.kind \notin {"location", "image"}
  <2>1. PICK by \in {"click", "text"}, command \in Commands \cup {"other"} :
           content = [kind |-> by, command |-> command]
    BY <1>3 DEF Contents
  <2> QED
    BY <2>1, CommandAnswers
<1> QED
  BY <1>1, <1>2, <1>3

LEMMA ClickAnswers ==
    ASSUME NEW content \in Contents, content.kind = "click", content.command \in Commands
    PROVE  response_for(content) # Plain("echo")
<1>1. PICK command \in Commands \cup {"other"} : content = [kind |-> "click", command |-> command]
  BY DEF Contents
<1>2. command \in Commands
  BY <1>1
<1>3. response_for(content) = <<>> \/ response_for(content)[1].name # "echo"
  BY <1>1, <1>2, CommandAnswers
<1> DEFINE d == Draft("echo", {})
<1>4. d.name = "echo"
  BY DEF Draft
<1> HIDE DEF d
<1>5. <<d>> # <<>> /\ <<d>>[1].name = "echo"
  BY <1>4
<1> QED
  BY <1>3, <1>5 DEF Plain, d

LEMMA DialogStarts == DialogInit => DialogIInv
<1> SUFFICES ASSUME DialogInit PROVE DialogIInv
  OBVIOUS
<1>1. \A m \in Messages : task[m] = "none" /\ input[m] = NoContent /\ replies[m] = <<>>
  BY DEF DialogInit
<1>2. <<>> \in Seq(Drafts)
  BY EmptySeq
<1>3. DialogTypeOK
  BY <1>2 DEF DialogInit, DialogTypeOK
<1>4. \A m \in Messages : AnswerFollowsInput(m)
  BY <1>1 DEF AnswerFollowsInput
<1> QED
  BY <1>3, <1>4 DEF DialogIInv

\* A message comes in: what can be clicked was offered.
LEMMA IncomingKeeps == ASSUME DialogIInv, NEW m \in Messages, Incoming(m) PROVE DialogIInv'
<1>1. DialogTypeOK /\ \A n \in Messages : AnswerFollowsInput(n)
  BY DEF DialogIInv
<1>2. PICK content \in Contents :
         /\ content.kind = "click" => content.command \in offered \cup template_demo_payload.offers
         /\ input' = [input EXCEPT ![m] = content]
  BY DEF Incoming
<1>3. /\ task[m] = "none" /\ task' = [task EXCEPT ![m] = "read"]
      /\ offered' = offered /\ replies' = replies
  BY DEF Incoming
<1>4. content.kind = "click" => content.command \in Commands
  BY <1>1, <1>2, CommandsAre DEF DialogTypeOK
<1>5. DialogTypeOK'
  BY <1>1, <1>2, <1>3 DEF DialogTypeOK
<1>6. replies[m] = <<>>
  BY <1>1, <1>3 DEF AnswerFollowsInput
<1>7. AnswerFollowsInput(m)'
  <2>1. input'[m] = content /\ task'[m] = "read" /\ replies'[m] = <<>>
    BY <1>1, <1>2, <1>3, <1>6 DEF DialogTypeOK
  <2> QED
    BY <1>4, <2>1 DEF AnswerFollowsInput
<1>8. ASSUME NEW n \in Messages, n # m PROVE AnswerFollowsInput(n)'
  <2>1. input'[n] = input[n] /\ task'[n] = task[n] /\ replies'[n] = replies[n]
    BY <1>1, <1>2, <1>3, <1>8 DEF DialogTypeOK
  <2> QED
    BY <1>1, <2>1 DEF AnswerFollowsInput
<1> QED
  BY <1>5, <1>7, <1>8 DEF DialogIInv

\* The task of a message goes on without a reply.
LEMMA TaskKeeps ==
    ASSUME DialogIInv, NEW m \in Messages, Indicate(m) \/ ReplyFails(m) \/ Done(m)
    PROVE  DialogIInv'
<1>1. DialogTypeOK /\ \A n \in Messages : AnswerFollowsInput(n)
  BY DEF DialogIInv
<1>2. PICK t \in {"typing", "acting", "failed", "done"} : task' = [task EXCEPT ![m] = t]
  BY DEF Indicate, ReplyFails, Done
<1>3. task[m] # "none" /\ offered' = offered /\ input' = input /\ replies' = replies
  BY DEF Indicate, ReplyFails, Done
<1>4. DialogTypeOK'
  BY <1>1, <1>2, <1>3 DEF DialogTypeOK
<1>5. ASSUME NEW n \in Messages PROVE AnswerFollowsInput(n)'
  <2>1. task'[n] = "none" <=> task[n] = "none"
    BY <1>1, <1>2, <1>3 DEF DialogTypeOK
  <2> QED
    BY <1>1, <1>3, <2>1 DEF AnswerFollowsInput
<1> QED
  BY <1>4, <1>5 DEF DialogIInv

\* The next reply is the next draft of the answer, and offers what the answer offers.
LEMMA ReplyKeeps == ASSUME DialogIInv, NEW m \in Messages, Reply(m) PROVE DialogIInv'
<1> DEFINE drafts == response_for(input[m])
           k == Len(replies[m])
           draft == drafts[k + 1]
<1>1. DialogTypeOK /\ \A n \in Messages : AnswerFollowsInput(n)
  BY DEF DialogIInv
<1>2. /\ task[m] = "acting" /\ drafts # NoContent /\ k < Len(drafts)
      /\ replies' = [replies EXCEPT ![m] = Append(replies[m], draft)]
      /\ offered' = offered \cup Offers(draft) /\ input' = input /\ task' = task
  BY DEF Reply
<1>3. input[m] \in Contents /\ (input[m].kind = "click" => input[m].command \in Commands)
  BY <1>1, <1>2 DEF AnswerFollowsInput
<1>4. drafts \in Seq(Drafts)
  BY <1>2, <1>3, Answers
<1>5. replies[m] \in Seq(Drafts) /\ k \in Nat
  BY <1>1 DEF DialogTypeOK
<1> HIDE DEF drafts
<1>6. draft \in Drafts
  BY <1>2, <1>4, <1>5
<1>7. Offers(draft) \subseteq Commands
  BY <1>6, DraftsOffer
<1>8. \A i \in 1 .. k : replies[m][i] = drafts[i]
  <2>1. replies[m] # <<>> => \A i \in 1 .. k : replies[m][i] = drafts[i]
    BY <1>1 DEF AnswerFollowsInput, drafts
  <2>2. replies[m] = <<>> => k = 0
    OBVIOUS
  <2> QED
    BY <2>1, <2>2
<1> DEFINE longer == Append(replies[m], draft)
<1>9. /\ longer \in Seq(Drafts) /\ Len(longer) = k + 1 /\ longer[k + 1] = draft
      /\ \A i \in 1 .. k : longer[i] = replies[m][i]
  <2> DEFINE before == replies[m]
  <2>1. before \in Seq(Drafts) /\ draft \in Drafts
    BY <1>5, <1>6
  <2> HIDE DEF before, draft
  <2>2. /\ Append(before, draft) \in Seq(Drafts) /\ Len(Append(before, draft)) = Len(before) + 1
        /\ Append(before, draft)[Len(before) + 1] = draft
        /\ \A i \in 1 .. Len(before) : Append(before, draft)[i] = before[i]
    BY <2>1, AppendProperties
  <2> QED
    BY <2>2 DEF before
<1> HIDE DEF longer
<1>10. replies' = [replies EXCEPT ![m] = longer]
  BY <1>2 DEF longer
<1>11. DialogTypeOK'
  BY <1>1, <1>2, <1>7, <1>9, <1>10 DEF DialogTypeOK
<1>12. \A i \in 1 .. Len(longer) : longer[i] = drafts[i]
  <2>1. ASSUME NEW i \in 1 .. k + 1 PROVE longer[i] = drafts[i]
    <3>1. i \in 1 .. k \/ i = k + 1
      BY <1>5
    <3> QED
      BY <1>8, <1>9, <3>1
  <2> QED
    BY <1>9, <2>1
<1>13. Len(longer) <= Len(drafts)
  BY <1>2, <1>4, <1>5, <1>9
<1>14. AnswerFollowsInput(m)'
  <2>1. replies'[m] = longer /\ input'[m] = input[m] /\ task'[m] = "acting"
    BY <1>1, <1>2, <1>10 DEF DialogTypeOK
  <2> QED
    BY <1>2, <1>3, <1>12, <1>13, <2>1 DEF AnswerFollowsInput, drafts
<1>15. ASSUME NEW n \in Messages, n # m PROVE AnswerFollowsInput(n)'
  <2>1. input'[n] = input[n] /\ task'[n] = task[n] /\ replies'[n] = replies[n]
    BY <1>1, <1>2, <1>10, <1>15 DEF DialogTypeOK
  <2> QED
    BY <1>1, <2>1 DEF AnswerFollowsInput
<1> QED
  BY <1>11, <1>14, <1>15 DEF DialogIInv

LEMMA DialogIInvIsInductive == DialogIInv /\ [DialogNext]_dialogVars => DialogIInv'
<1> SUFFICES ASSUME DialogIInv, [DialogNext]_dialogVars PROVE DialogIInv'
  OBVIOUS
<1>1. ASSUME NEW m \in Messages, Incoming(m) PROVE DialogIInv'
  BY <1>1, IncomingKeeps
<1>2. ASSUME NEW m \in Messages, Reply(m) PROVE DialogIInv'
  BY <1>2, ReplyKeeps
<1>3. ASSUME NEW m \in Messages, Indicate(m) \/ ReplyFails(m) \/ Done(m) PROVE DialogIInv'
  BY <1>3, TaskKeeps
<1>4. CASE UNCHANGED dialogVars
  BY <1>4 DEF dialogVars, DialogIInv, DialogTypeOK, AnswerFollowsInput
<1> QED
  BY <1>1, <1>2, <1>3, <1>4 DEF DialogNext, HandleMessage

LEMMA DialogIInvImplies == DialogIInv => DialogInv
<1> SUFFICES ASSUME DialogIInv, NEW m \in Messages, input[m] # NoContent
             PROVE  /\ input[m].kind = "click" => response_for(input[m]) # Plain("echo")
                    /\ input[m].kind = "location" =>
                          IF OnTheMap(input[m].latitude)
                          THEN \A i \in DOMAIN replies[m] :
                                  /\ OnTheMap(replies[m][i].latitude)
                                  /\ replies[m][i].latitude <= input[m].latitude
                          ELSE replies[m] = <<>>
  BY DEF DialogInv, OffersAreUnderstood, ShiftStaysOnTheMap
<1>1. /\ input[m] \in Contents /\ (input[m].kind = "click" => input[m].command \in Commands)
      /\ replies[m] \in Seq(Drafts)
  BY DEF DialogIInv, DialogTypeOK, AnswerFollowsInput
<1>2. input[m].kind = "click" => response_for(input[m]) # Plain("echo")
  BY <1>1, ClickAnswers
<1> DEFINE drafts == response_for(input[m])
<1>3. replies[m] # <<>> => /\ drafts # NoContent /\ Len(replies[m]) <= Len(drafts)
                           /\ \A i \in 1 .. Len(replies[m]) : replies[m][i] = drafts[i]
  BY DEF DialogIInv, AnswerFollowsInput
<1>4. ASSUME input[m].kind = "location", OnTheMap(input[m].latitude), NEW i \in DOMAIN replies[m]
      PROVE  OnTheMap(replies[m][i].latitude) /\ replies[m][i].latitude <= input[m].latitude
  <2>1. /\ Len(drafts) = 1 /\ OnTheMap(drafts[1].latitude)
        /\ drafts[1].latitude <= input[m].latitude
    BY <1>1, <1>4, LocationAnswers
  <2> HIDE DEF drafts
  <2>2. replies[m] # <<>> /\ i \in 1 .. Len(replies[m]) /\ Len(replies[m]) \in Nat
    BY <1>1, <1>4
  <2>3. i = 1 /\ replies[m][i] = drafts[i]
    BY <1>3, <2>1, <2>2
  <2> QED
    BY <2>1, <2>3
<1>5. ASSUME input[m].kind = "location", ~OnTheMap(input[m].latitude) PROVE replies[m] = <<>>
  BY <1>1, <1>3, <1>5, LocationAnswers
<1> QED
  BY <1>2, <1>4, <1>5

\* However the tasks of however many messages interleave, every choice a user can click
\* is one the program knows, and a shared location is answered on the map or not at all.
THEOREM DialogInvariant == DialogSpec => []DialogInv
<1>1. DialogInit => DialogIInv
  BY DialogStarts
<1>2. DialogIInv /\ [DialogNext]_dialogVars => DialogIInv'
  BY DialogIInvIsInductive
<1>3. DialogIInv => DialogInv
  BY DialogIInvImplies
<1> QED
  BY <1>1, <1>2, <1>3, PTL DEF DialogSpec
-----------------------------------------------------------------------------
(* The requests of the webhook: the inductive invariant.                   *)

AdaptedItems == MessageItems \cup {"interactive"}
Changes == [statuses : {Absent} \cup Seq(StatusItems), messages : {Absent} \cup Seq(MessageItems)]

RequestsTypeOK ==
    /\ request \in [body : Bodies, sender : Senders]
    /\ accepted \in Nat
    /\ logged \in Seq({Meant(request.body.changes)})
    /\ dispatched \in Seq({Meant(request.body.changes)})

\* Every acknowledgement is one of the log or one of the service.
EffectsFollowAnswers ==
    /\ Len(logged) + Len(dispatched) = accepted
    /\ accepted # 0 => request.sender = "signed"
    /\ (\E i \in DOMAIN request.body.changes : Field(request.body.changes[i], "messages") # <<>>)
          => logged = <<>>

RequestsIInv == RequestsTypeOK /\ EffectsFollowAnswers /\ ButtonsAreUnderstood

LEMMA BodiesAre ==
    ASSUME NEW body \in Bodies
    PROVE  /\ body \in [json : BOOLEAN, object : {"whatsapp_business_account", "page", "none"},
                        changes : Seq(Changes)]
           /\ \A i \in DOMAIN body.changes : body.changes[i] \in Changes
<1>1. body \in [json : BOOLEAN, object : {"whatsapp_business_account", "page", "none"},
                changes : Seq(Changes)]
  BY RequestsAssumption DEF Changes
<1>2. body.changes \in Seq(Changes)
  BY <1>1
<1> QED
  BY <1>1, <1>2

\* The lists of a change are lists.
LEMMA FieldsAre ==
    ASSUME NEW change \in Changes
    PROVE  /\ Field(change, "statuses") \in Seq(StatusItems)
           /\ Field(change, "messages") \in Seq(MessageItems)
           /\ AllAdapted(Field(change, "messages")) \in Seq(AdaptedItems)
<1>1. <<>> \in Seq(StatusItems) /\ <<>> \in Seq(MessageItems)
  BY EmptySeq
<1>2. Field(change, "statuses") \in Seq(StatusItems) /\ Field(change, "messages") \in Seq(MessageItems)
  BY <1>1 DEF Field, Changes
<1> DEFINE messages == Field(change, "messages")
<1>3. AllAdapted(messages) \in Seq(AdaptedItems)
  <2> DEFINE n == Len(messages)
             adapted(i) == Adapted(messages[i])
  <2>1. n \in Nat /\ DOMAIN messages = 1 .. n /\ \A i \in 1 .. n : messages[i] \in MessageItems
    BY <1>2
  <2>2. \A i \in 1 .. n : adapted(i) \in AdaptedItems
    BY <2>1 DEF Adapted, AdaptedItems
  <2>3. AllAdapted(messages) = [i \in 1 .. n |-> adapted(i)]
    BY <2>1 DEF AllAdapted
  <2> HIDE DEF n, adapted
  <2> QED
    BY <2>1, <2>2, <2>3
<1> QED
  BY <1>2, <1>3

LEMMA NothingAdapted == AllAdapted(<<>>) = <<>>
  BY DEF AllAdapted

\* What log_status_updates prints of a body of statuses only is what Meta meant.
LEMMA StatusesAreMeant ==
    ASSUME NEW body \in Bodies, status_updates_if_only(body)
    PROVE  /\ Statuses(body.changes) = Meant(body.changes)
           /\ \A i \in DOMAIN body.changes : Field(body.changes[i], "messages") = <<>>
<1>1. ASSUME NEW i \in DOMAIN body.changes
      PROVE  /\ Field(body.changes[i], "messages") = <<>>
             /\ Field(body.changes[i], "statuses") \o AllAdapted(Field(body.changes[i], "messages"))
                  = Field(body.changes[i], "statuses")
  <2>1. Field(body.changes[i], "messages") = <<>>
    BY DEF status_updates_if_only, Field
  <2>2. Field(body.changes[i], "statuses") \in Seq(StatusItems)
    BY BodiesAre, FieldsAre
  <2> QED
    BY <2>1, <2>2, NothingAdapted, ConcatEmptySeq
<1> QED
  BY <1>1 DEF Statuses, Meant

\* What the service gets of a body is what Meta meant.
LEMMA NormalizedIsMeant ==
    ASSUME NEW body \in Bodies, IsJson(body)
    PROVE  LET normal == normalize_template_quick_reply_callbacks(body) IN
           /\ IsJson(normal)
           /\ DOMAIN normal.changes = DOMAIN body.changes
           /\ \A i \in DOMAIN body.changes :
                 /\ Field(normal.changes[i], "statuses") = Field(body.changes[i], "statuses")
                 /\ Field(normal.changes[i], "messages") = AllAdapted(Field(body.changes[i], "messages"))
           /\ Items(normal.changes) = Meant(body.changes)
<1> DEFINE normal == normalize_template_quick_reply_callbacks(body)
<1>1. body \in [json : BOOLEAN, object : {"whatsapp_business_account", "page", "none"},
                changes : Seq(Changes)]
      /\ \A i \in DOMAIN body.changes : body.changes[i] \in Changes
  BY BodiesAre
<1>2. /\ normal.json = body.json
      /\ normal.changes = [i \in DOMAIN body.changes |-> AdaptedChange(body.changes[i])]
  BY <1>1 DEF normalize_template_quick_reply_callbacks
<1> HIDE DEF normal
<1>3. ASSUME NEW change \in Changes
      PROVE  /\ Field(AdaptedChange(change), "statuses") = Field(change, "statuses")
             /\ Field(AdaptedChange(change), "messages") = AllAdapted(Field(change, "messages"))
  <2>1. CASE change.messages = Absent
    BY <2>1, NothingAdapted DEF AdaptedChange, Field
  <2>2. CASE change.messages # Absent
    <3> DEFINE adapted == AllAdapted(change.messages)
    <3>1. /\ AdaptedChange(change).statuses = change.statuses
          /\ AdaptedChange(change).messages = adapted
      BY <2>2 DEF AdaptedChange, Changes
    <3>2. Field(change, "messages") = change.messages
      BY <2>2 DEF Field
    <3>3. adapted # Absent
      BY <3>2, FieldsAre, RequestsAssumption DEF AdaptedItems
    <3> QED
      BY <3>1, <3>2, <3>3 DEF Field
  <2> QED
    BY <2>1, <2>2
<1>4. IsJson(normal) /\ DOMAIN normal.changes = DOMAIN body.changes
  BY <1>2 DEF IsJson
<1>5. ASSUME NEW i \in DOMAIN body.changes
      PROVE  /\ Field(normal.changes[i], "statuses") = Field(body.changes[i], "statuses")
             /\ Field(normal.changes[i], "messages") = AllAdapted(Field(body.changes[i], "messages"))
  BY <1>1, <1>2, <1>3
<1> QED
  BY <1>4, <1>5 DEF Items, Meant, normal

LEMMA RequestsStart == RequestsInit => RequestsIInv
<1> SUFFICES ASSUME RequestsInit PROVE RequestsIInv
  OBVIOUS
<1>1. <<>> \in Seq({Meant(request.body.changes)})
  BY EmptySeq
<1>2. RequestsTypeOK
  BY <1>1 DEF RequestsInit, RequestsTypeOK
<1>3. EffectsFollowAnswers
  BY DEF RequestsInit, EffectsFollowAnswers
<1>4. ButtonsAreUnderstood
  BY DEF RequestsInit, ButtonsAreUnderstood
<1> QED
  BY <1>2, <1>3, <1>4 DEF RequestsIInv

\* One list more, of what Meta meant, by the log or by the service.
LEMMA OneMoreList ==
    ASSUME NEW list, NEW lists \in Seq({list})
    PROVE  /\ Append(lists, list) \in Seq({list})
           /\ Len(Append(lists, list)) = Len(lists) + 1 /\ Len(lists) \in Nat
  BY AppendProperties

\* The service refuses a body for a status only.
LEMMA ServiceUnderstandsButtons ==
    ASSUME NEW body \in Bodies, IsJson(body), ~InvalidCallback(body),
           ~Parses(normalize_template_quick_reply_callbacks(body))
              \/ HasStatuses(normalize_template_quick_reply_callbacks(body).changes)
    PROVE  HasStatuses(body.changes)
<1> DEFINE normal == normalize_template_quick_reply_callbacks(body)
<1>1. /\ IsJson(normal) /\ DOMAIN normal.changes = DOMAIN body.changes
      /\ \A i \in DOMAIN body.changes :
            /\ Field(normal.changes[i], "statuses") = Field(body.changes[i], "statuses")
            /\ Field(normal.changes[i], "messages") = AllAdapted(Field(body.changes[i], "messages"))
  BY NormalizedIsMeant
<1> HIDE DEF normal
<1>2. CASE HasStatuses(normal.changes)
  BY <1>1, <1>2 DEF HasStatuses, Statuses
<1>3. CASE ~Parses(normal)
  <2>1. PICK i \in DOMAIN body.changes :
           \/ "no_id" \in ToSet(Field(body.changes[i], "statuses"))
           \/ {"button", "bad_button"} \cap ToSet(AllAdapted(Field(body.changes[i], "messages"))) # {}
    BY <1>1, <1>3 DEF Parses
  <2> DEFINE messages == Field(body.changes[i], "messages")
             statuses == Field(body.changes[i], "statuses")
  <2>2. "bad_button" \notin ToSet(messages)
    BY DEF InvalidCallback
  <2>3. statuses \in Seq(StatusItems) /\ messages \in Seq(MessageItems)
    BY BodiesAre, FieldsAre
  <2> HIDE DEF messages, statuses
  <2>4. {"button", "bad_button"} \cap ToSet(AllAdapted(messages)) = {}
    <3>1. DOMAIN AllAdapted(messages) = DOMAIN messages
          /\ \A j \in DOMAIN messages : AllAdapted(messages)[j] = Adapted(messages[j])
      BY DEF AllAdapted
    <3>2. \A j \in DOMAIN messages : messages[j] # "bad_button"
      BY <2>2 DEF ToSet
    <3>3. \A j \in DOMAIN messages : Adapted(messages[j]) \notin {"button", "bad_button"}
      BY <3>2 DEF Adapted
    <3> QED
      BY <3>1, <3>3 DEF ToSet
  <2>5. "no_id" \in ToSet(statuses)
    BY <2>1, <2>4 DEF messages, statuses
  <2>6. statuses # <<>>
    BY <2>5 DEF ToSet
  <2> QED
    BY <2>6 DEF HasStatuses, Statuses, statuses
<1> QED
  BY <1>2, <1>3 DEF normal

LEMMA RequestsIInvIsInductive == RequestsIInv /\ [RequestsNext]_requestVars => RequestsIInv'
<1> SUFFICES ASSUME RequestsIInv, [RequestsNext]_requestVars PROVE RequestsIInv'
  OBVIOUS
<1> DEFINE body == request.body
           meant == Meant(body.changes)
<1>1. CASE UNCHANGED requestVars
  BY <1>1 DEF requestVars, RequestsIInv, RequestsTypeOK, EffectsFollowAnswers, ButtonsAreUnderstood
<1>2. CASE Deliver
  <2>1. /\ request \in [body : Bodies, sender : Senders] /\ body \in Bodies /\ accepted \in Nat
        /\ logged \in Seq({meant}) /\ dispatched \in Seq({meant})
        /\ EffectsFollowAnswers /\ request' = request
    BY <1>2 DEF RequestsIInv, RequestsTypeOK, Deliver
  <2> HIDE DEF meant
  <2>2. ASSUME NEW code \in {413, 401, 400, 500}, Answer(code),
               code = 400 => InvalidCallback(body),
               code = 500 /\ IsJson(body) => HasStatuses(body.changes)
        PROVE  RequestsIInv'
    <3>1. status' = code /\ accepted' = accepted /\ logged' = logged /\ dispatched' = dispatched
      BY <2>2 DEF Answer
    <3>2. RequestsTypeOK' /\ EffectsFollowAnswers'
      BY <2>1, <3>1 DEF RequestsTypeOK, EffectsFollowAnswers, meant
    <3>3. ButtonsAreUnderstood'
      BY <2>1, <2>2, <3>1 DEF ButtonsAreUnderstood, InvalidCallback
    <3> QED
      BY <3>2, <3>3 DEF RequestsIInv
  <2>3. ASSUME status' = 200, accepted' = accepted + 1, request.sender = "signed",
               \/ /\ logged' = Append(logged, meant) /\ dispatched' = dispatched
                  /\ \A i \in DOMAIN body.changes : Field(body.changes[i], "messages") = <<>>
               \/ dispatched' = Append(dispatched, meant) /\ logged' = logged
        PROVE  RequestsIInv'
    <3>1. /\ logged' \in Seq({meant}) /\ dispatched' \in Seq({meant})
          /\ Len(logged') + Len(dispatched') = Len(logged) + Len(dispatched) + 1
      <4> DEFINE log == Append(logged, meant)
                 tasks == Append(dispatched, meant)
      <4>1. /\ log \in Seq({meant}) /\ Len(log) = Len(logged) + 1 /\ Len(logged) \in Nat
            /\ tasks \in Seq({meant}) /\ Len(tasks) = Len(dispatched) + 1
            /\ Len(dispatched) \in Nat
        BY <2>1, OneMoreList
      <4> HIDE DEF log, tasks
      <4>2. CASE logged' = log /\ dispatched' = dispatched
        <5>1. logged' \in Seq({meant}) /\ dispatched' \in Seq({meant})
          BY <2>1, <4>1, <4>2, Zenon
        <5>2. Len(logged') = Len(logged) + 1 /\ Len(dispatched') = Len(dispatched)
          BY <4>1, <4>2, Zenon
        <5> QED
          BY <4>1, <5>1, <5>2
      <4>3. CASE dispatched' = tasks /\ logged' = logged
        <5>1. logged' \in Seq({meant}) /\ dispatched' \in Seq({meant})
          BY <2>1, <4>1, <4>3, Zenon
        <5>2. Len(logged') = Len(logged) /\ Len(dispatched') = Len(dispatched) + 1
          BY <4>1, <4>3, Zenon
        <5> QED
          BY <4>1, <5>1, <5>2
      <4> QED
        BY <2>3, <4>2, <4>3 DEF log, tasks
    <3>2. RequestsTypeOK'
      BY <2>1, <2>3, <3>1 DEF RequestsTypeOK, meant
    <3>3. EffectsFollowAnswers'
      BY <2>1, <2>3, <3>1 DEF EffectsFollowAnswers
    <3>4. ButtonsAreUnderstood'
      BY <2>1, <2>3 DEF ButtonsAreUnderstood
    <3> QED
      BY <3>2, <3>3, <3>4 DEF RequestsIInv
  <2>4. CASE request.sender \in {"too_large", "unsigned"}
    <3>1. Answer(413) \/ Answer(401)
      BY <1>2, <2>4 DEF Deliver, handle_signed_webhook
    <3> QED
      BY <2>2, <3>1
  <2>5. CASE request.sender = "signed"
    <3>1. IF status_updates_if_only(body)
          THEN /\ status' = 200 /\ accepted' = accepted + 1 /\ dispatched' = dispatched
               /\ logged' = Append(logged, Statuses(body.changes))
          ELSE IF InvalidCallback(body) THEN Answer(400)
          ELSE Service(normalize_template_quick_reply_callbacks(body))
      BY <1>2, <2>5 DEF Deliver, handle_signed_webhook
    <3>2. CASE status_updates_if_only(body)
      <4>1. /\ Statuses(body.changes) = meant
            /\ \A i \in DOMAIN body.changes : Field(body.changes[i], "messages") = <<>>
        BY <2>1, <3>2, StatusesAreMeant DEF meant
      <4> QED
        BY <2>3, <2>5, <3>1, <3>2, <4>1
    <3>3. CASE ~status_updates_if_only(body) /\ InvalidCallback(body)
      BY <2>2, <3>1, <3>3
    <3>4. CASE ~status_updates_if_only(body) /\ ~InvalidCallback(body)
      <4> DEFINE normal == normalize_template_quick_reply_callbacks(body)
      <4>1. \/ /\ Parses(normal) /\ status' = 200 /\ accepted' = accepted + 1
               /\ dispatched' = Append(dispatched, Items(normal.changes)) /\ logged' = logged
            \/ (~Parses(normal) \/ HasStatuses(normal.changes)) /\ Answer(500)
        BY <3>1, <3>4 DEF Service
      <4>2. CASE /\ Parses(normal) /\ status' = 200 /\ accepted' = accepted + 1
                 /\ dispatched' = Append(dispatched, Items(normal.changes)) /\ logged' = logged
        <5>1. IsJson(body)
          BY <4>2 DEF Parses, normalize_template_quick_reply_callbacks
        <5>2. Items(normal.changes) = meant
          BY <2>1, <5>1, NormalizedIsMeant DEF meant
        <5> QED
          BY <2>3, <2>5, <4>2, <5>2
      <4>3. CASE (~Parses(normal) \/ HasStatuses(normal.changes)) /\ Answer(500)
        <5>1. IsJson(body) => HasStatuses(body.changes)
          BY <2>1, <3>4, <4>3, ServiceUnderstandsButtons
        <5> QED
          BY <2>2, <4>3, <5>1
      <4> QED
        BY <4>1, <4>2, <4>3
    <3> QED
      BY <3>2, <3>3, <3>4
  <2> QED
    BY <2>1, <2>4, <2>5 DEF Senders
<1> QED
  BY <1>1, <1>2 DEF RequestsNext

LEMMA RequestsIInvImplies == RequestsIInv => RequestsInv
<1> SUFFICES ASSUME RequestsIInv PROVE RequestsInv
  OBVIOUS
<1>1. ToSet(logged) \cup ToSet(dispatched) \subseteq {Meant(request.body.changes)}
  BY DEF RequestsIInv, RequestsTypeOK, ToSet
<1> QED
  BY <1>1 DEF RequestsIInv, EffectsFollowAnswers, RequestsInv, AcknowledgedMeansSeen

\* Whatever bodies come, and however often Meta repeats them: a body is seen whole, once
\* per acknowledgement, and no body is refused for its template buttons.
THEOREM RequestsInvariant == RequestsSpec => []RequestsInv
<1>1. RequestsInit => RequestsIInv
  BY RequestsStart
<1>2. RequestsIInv /\ [RequestsNext]_requestVars => RequestsIInv'
  BY RequestsIInvIsInductive
<1>3. RequestsIInv => RequestsInv
  BY RequestsIInvImplies
<1> QED
  BY <1>1, <1>2, <1>3, PTL DEF RequestsSpec
-----------------------------------------------------------------------------
(* Induction over the naturals, as a fact about sets: the theorems of the  *)
(* library take a predicate, which no prover at hand can instantiate.      *)

LEMMA NatSetInduction ==
    ASSUME NEW S \in SUBSET Nat, 0 \in S, \A n \in S : n + 1 \in S
    PROVE  S = Nat
<1> DEFINE less == OpToRel(<, Nat)
           rest == Nat \ S
<1>1. IsWellFoundedOn(less, Nat)
  BY NatLessThanWellFounded
<1>2. \A x, y \in Nat : x < y => <<x, y>> \in less
  BY DEF OpToRel
<1> HIDE DEF less
<1> SUFFICES ASSUME rest # {} PROVE FALSE
  OBVIOUS
<1>3. rest \subseteq Nat
  OBVIOUS
<1> HIDE DEF rest
<1>4. PICK x \in rest : \A y \in rest : ~ (<<y, x>> \in less)
  BY <1>1, <1>3, WFMin
<1>5. x \in Nat /\ x \notin S
  BY <1>4 DEF rest
<1>6. x # 0 /\ x - 1 \in Nat /\ x - 1 < x /\ x = (x - 1) + 1
  BY <1>5
<1>7. x - 1 \in rest
  BY <1>5, <1>6 DEF rest
<1> QED
  BY <1>2, <1>4, <1>5, <1>6, <1>7

-----------------------------------------------------------------------------
(* The text of a candidate.                                                *)

Written == Texts \cup {"blank"}

\* f is what has been said after each part.
Says(f, parts, m) ==
    /\ f[0] = <<>>
    /\ \A i \in 1 .. m : f[i] = IF parts[i].thought THEN f[i - 1]
                                ELSE Append(f[i - 1], parts[i].text)

LEMMA SomethingIsSaid ==
    ASSUME NEW parts \in Seq(Parts)
    PROVE  \E f : f = [n \in 0 .. Len(parts) |->
                          IF n = 0 THEN <<>>
                          ELSE IF parts[n].thought THEN f[n - 1]
                          ELSE Append(f[n - 1], parts[n].text)]
<1> DEFINE N == Len(parts)
           Ext(f, m) == [n \in 0 .. m + 1 |->
                           IF n \in 0 .. m THEN f[n]
                           ELSE IF parts[m + 1].thought THEN f[m]
                           ELSE Append(f[m], parts[m + 1].text)]
           S == {m \in Nat : \E f : DOMAIN f = 0 .. m /\ f = [n \in 0 .. m |-> f[n]] /\ Says(f, parts, m)}
<1>1. 0 \in S
  <2> DEFINE f == [n \in 0 .. 0 |-> <<>>]
  <2>1. DOMAIN f = 0 .. 0 /\ f = [n \in 0 .. 0 |-> f[n]] /\ Says(f, parts, 0)
    BY DEF Says
  <2> QED
    BY <2>1
<1>2. ASSUME NEW m \in S PROVE m + 1 \in S
  <2>1. m \in Nat
    OBVIOUS
  <2>2. PICK f : DOMAIN f = 0 .. m /\ f = [n \in 0 .. m |-> f[n]] /\ Says(f, parts, m)
    BY <1>2
  <2> DEFINE g == Ext(f, m)
  <2>3. DOMAIN g = 0 .. m + 1 /\ g = [n \in 0 .. m + 1 |-> g[n]]
    OBVIOUS
  <2>4. /\ \A n \in 0 .. m : g[n] = f[n]
        /\ g[m + 1] = IF parts[m + 1].thought THEN f[m] ELSE Append(f[m], parts[m + 1].text)
    BY <2>1
  <2> HIDE DEF g
  <2>5. g[0] = <<>>
    BY <2>1, <2>2, <2>4 DEF Says
  <2>6. ASSUME NEW i \in 1 .. m + 1
        PROVE  g[i] = IF parts[i].thought THEN g[i - 1] ELSE Append(g[i - 1], parts[i].text)
    <3>1. CASE i = m + 1
      <4>1. i - 1 = m /\ m \in 0 .. m
        BY <2>1, <3>1
      <4> QED
        BY <2>4, <3>1, <4>1
    <3>2. CASE i # m + 1
      <4>1. i \in 1 .. m /\ i \in 0 .. m /\ i - 1 \in 0 .. m
        BY <2>1, <3>2
      <4> QED
        BY <2>2, <2>4, <4>1 DEF Says
    <3> QED
      BY <3>1, <3>2
  <2>7. Says(g, parts, m + 1)
    BY <2>5, <2>6 DEF Says
  <2> QED
    BY <2>1, <2>3, <2>7
<1>3. N \in Nat
  OBVIOUS
<1>4. S \in SUBSET Nat
  OBVIOUS
<1>5. N \in S
  <2> HIDE DEF S, N
  <2> QED
    BY <1>1, <1>2, <1>3, <1>4, NatSetInduction
<1>6. PICK f : DOMAIN f = 0 .. N /\ f = [n \in 0 .. N |-> f[n]] /\ Says(f, parts, N)
  BY <1>5
<1>7. f = [n \in 0 .. N |-> IF n = 0 THEN <<>>
                            ELSE IF parts[n].thought THEN f[n - 1]
                            ELSE Append(f[n - 1], parts[n].text)]
  BY <1>3, <1>6 DEF Says
<1> QED
  BY <1>7

\* The text is all that was written and not thought.
LEMMA TextIsSaid ==
    ASSUME NEW candidate, candidate.parts \in Seq(Parts)
    PROVE  LET text == extract_generated_text(candidate)
               parts == candidate.parts
           IN  /\ \A i \in DOMAIN parts :
                     parts[i].thought \/ \E k \in DOMAIN text : text[k] = parts[i].text
               /\ Len(text) = Cardinality({i \in DOMAIN parts : ~parts[i].thought})
<1> DEFINE parts == candidate.parts
           N == Len(parts)
           Is(f) == f = [n \in 0 .. Len(parts) |->
                            IF n = 0 THEN <<>>
                            ELSE IF parts[n].thought THEN f[n - 1]
                            ELSE Append(f[n - 1], parts[n].text)]
           said == CHOOSE f : Is(f)
<1>1. \E f : Is(f)
  BY SomethingIsSaid
<1>2. extract_generated_text(candidate) = said[N]
  BY DEF extract_generated_text
<1> HIDE DEF Is
<1>3. Is(said)
  BY <1>1
<1>4. N \in Nat /\ DOMAIN parts = 1 .. N /\ \A i \in 1 .. N : parts[i] \in Parts
  OBVIOUS
<1> HIDE DEF parts, N, said
<1>5. Says(said, parts, N)
  <2>1. said = [n \in 0 .. N |-> IF n = 0 THEN <<>>
                                 ELSE IF parts[n].thought THEN said[n - 1]
                                 ELSE Append(said[n - 1], parts[n].text)]
    BY <1>3 DEF Is, N
  <2>2. \A n \in 0 .. N : said[n] = IF n = 0 THEN <<>>
                                    ELSE IF parts[n].thought THEN said[n - 1]
                                    ELSE Append(said[n - 1], parts[n].text)
    BY <2>1
  <2>3. 0 \in 0 .. N /\ \A i \in 1 .. N : i \in 0 .. N /\ i # 0
    BY <1>4
  <2> QED
    BY <2>2, <2>3 DEF Says
<1> DEFINE spoken(m) == {i \in 1 .. m : ~parts[i].thought}
           Good(m) == /\ said[m] \in Seq(Written)
                      /\ Len(said[m]) = Cardinality(spoken(m))
                      /\ \A i \in spoken(m) : \E k \in 1 .. Len(said[m]) : said[m][k] = parts[i].text
           S == {m \in Nat : m <= N => IsFiniteSet(spoken(m)) /\ Good(m)}
<1>6. 0 \in S
  <2>1. spoken(0) = {}
    OBVIOUS
  <2>2. said[0] = <<>>
    BY <1>5 DEF Says
  <2> HIDE DEF spoken
  <2>3. IsFiniteSet(spoken(0)) /\ Cardinality(spoken(0)) = 0
    BY <2>1, FS_EmptySet
  <2>4. said[0] \in Seq(Written) /\ Len(said[0]) = 0
    BY <2>2, EmptySeq
  <2> QED
    BY <2>1, <2>3, <2>4
<1>7. ASSUME NEW m \in S PROVE m + 1 \in S
  <2>1. m \in Nat
    OBVIOUS
  <2> SUFFICES ASSUME m + 1 <= N PROVE IsFiniteSet(spoken(m + 1)) /\ Good(m + 1)
    BY <2>1
  <2>2. IsFiniteSet(spoken(m)) /\ Good(m)
    BY <1>4, <2>1, <1>7
  <2>3. m + 1 \in 1 .. N /\ (m + 1) - 1 = m /\ m + 1 \notin 1 .. m
    BY <1>4, <2>1
  <2>4. said[m + 1] = IF parts[m + 1].thought THEN said[m] ELSE Append(said[m], parts[m + 1].text)
    BY <1>5, <2>3 DEF Says
  <2>5. CASE parts[m + 1].thought
    <3>1. spoken(m + 1) = spoken(m)
      BY <2>1, <2>5
    <3>2. said[m + 1] = said[m]
      BY <2>4, <2>5
    <3> HIDE DEF spoken
    <3> QED
      BY <2>2, <3>1, <3>2
  <2>6. CASE ~parts[m + 1].thought
    <3>1. spoken(m + 1) = spoken(m) \cup {m + 1} /\ m + 1 \notin spoken(m)
      BY <2>1, <2>3, <2>6
    <3> HIDE DEF spoken
    <3> DEFINE before == said[m]
               text == parts[m + 1].text
               after == Append(before, text)
    <3>2. said[m + 1] = after
      BY <2>4, <2>6
    <3>3. before \in Seq(Written) /\ text \in Written
      BY <1>4, <2>2, <2>3 DEF Parts, Written
    <3>4. Len(before) = Cardinality(spoken(m))
          /\ \A i \in spoken(m) : \E k \in 1 .. Len(before) : before[k] = parts[i].text
      BY <2>2
    <3> HIDE DEF before, text
    <3>5. /\ after \in Seq(Written) /\ Len(after) = Len(before) + 1 /\ Len(before) \in Nat
          /\ after[Len(before) + 1] = text /\ \A k \in 1 .. Len(before) : after[k] = before[k]
      BY <3>3, AppendProperties
    <3> HIDE DEF after
    <3>6. IsFiniteSet(spoken(m + 1)) /\ Cardinality(spoken(m + 1)) = Cardinality(spoken(m)) + 1
      BY <2>2, <3>1, FS_AddElement
    <3>7. ASSUME NEW i \in spoken(m + 1)
          PROVE  \E k \in 1 .. Len(after) : after[k] = parts[i].text
      <4>1. CASE i = m + 1
        <5>1. Len(before) + 1 \in 1 .. Len(after) /\ after[Len(before) + 1] = parts[i].text
          BY <3>5, <4>1 DEF text
        <5> QED
          BY <5>1
      <4>2. CASE i \in spoken(m)
        <5>1. PICK k \in 1 .. Len(before) : before[k] = parts[i].text
          BY <3>4, <4>2
        <5>2. k \in 1 .. Len(after) /\ after[k] = parts[i].text
          BY <3>5, <5>1
        <5> QED
          BY <5>2
      <4> QED
        BY <3>1, <4>1, <4>2
    <3> QED
      BY <3>2, <3>4, <3>5, <3>6, <3>7
  <2> QED
    BY <2>5, <2>6
<1>8. S \in SUBSET Nat
  OBVIOUS
<1>9. N \in S
  <2> HIDE DEF S
  <2> QED
    BY <1>4, <1>6, <1>7, <1>8, NatSetInduction
<1>10. Good(N)
  BY <1>4, <1>9
<1>11. DOMAIN said[N] = 1 .. Len(said[N])
  BY <1>10
<1>12. spoken(N) = {i \in DOMAIN parts : ~parts[i].thought}
  BY <1>4
<1> HIDE DEF spoken
<1>13. \A i \in DOMAIN parts : parts[i].thought \/ \E k \in DOMAIN said[N] : said[N][k] = parts[i].text
  BY <1>10, <1>11, <1>12
<1>14. Len(said[N]) = Cardinality({i \in DOMAIN parts : ~parts[i].thought})
  BY <1>10, <1>12
<1> QED
  BY <1>2, <1>13, <1>14 DEF parts

-----------------------------------------------------------------------------
(* The broadcast builder: the inductive invariant.                         *)

BroadcastTypeOK ==
    /\ phase \in {"start", "download", "request", "posted", "wait", "answer", "shown", "failed"}
    /\ attempts \in 0 .. MaxAttempts
    /\ answer \in Candidates \cup {NoCandidate}

\* Before the first POST nothing is counted; a POST is left for whoever waits.
AttemptsFollowPhase ==
    /\ phase \in {"start", "download"} => attempts = 0
    /\ phase \in {"request", "wait"} => attempts < MaxAttempts
    /\ phase \in {"posted", "wait"} => attempts > 0

\* A PDF is there from the download on, and an analysis is the text of its answer.
DataFollowPhase ==
    /\ phase \in {"request", "posted", "wait", "answer", "shown"} \/ attempts > 0 => pdf = "pdf"
    /\ phase = "wait" => delay >= 2^(attempts - 1) /\ delay >= asked_for
    /\ phase = "shown" =>
          /\ answer \in Candidates /\ FinishedNormally(answer)
          /\ analysis = extract_generated_text(answer)

BroadcastIInv == BroadcastTypeOK /\ AttemptsFollowPhase /\ DataFollowPhase

LEMMA BroadcastStarts == BroadcastInit => BroadcastIInv
<1>1. MaxAttempts \in Nat \ {0}
  BY BroadcastAssumption
<1> QED
  BY <1>1 DEF BroadcastInit, BroadcastIInv, BroadcastTypeOK, AttemptsFollowPhase, DataFollowPhase

\* The wait is as long as the backoff, and as long as Gemini asks.
LEMMA BackoffIsEnough ==
    ASSUME NEW attempt \in Nat \ {0}, NEW retry_after \in RetryAfters
    PROVE  /\ backoff_delay_seconds(attempt, retry_after) >= 2^(attempt - 1)
           /\ backoff_delay_seconds(attempt, retry_after) >= retry_after
<1>1. retry_after \in Nat /\ attempt - 1 \in Nat
  BY BroadcastAssumption
<1> QED
  BY <1>1 DEF backoff_delay_seconds

LEMMA BroadcastIInvIsInductive == BroadcastIInv /\ [BroadcastNext]_broadcastVars => BroadcastIInv'
<1> SUFFICES ASSUME BroadcastIInv, [BroadcastNext]_broadcastVars PROVE BroadcastIInv'
  OBVIOUS
<1> USE DEF BroadcastIInv
<1>1. MaxAttempts \in Nat \ {0} /\ attempts \in Nat
  BY BroadcastAssumption DEF BroadcastTypeOK
<1>2. ASSUME Fail PROVE BroadcastIInv'
  BY <1>2 DEF Fail, BroadcastTypeOK, AttemptsFollowPhase, DataFollowPhase
<1>3. CASE Start
  BY <1>1, <1>2, <1>3 DEF Start, BroadcastTypeOK, AttemptsFollowPhase, DataFollowPhase
<1>4. CASE Download
  BY <1>1, <1>2, <1>4 DEF Download, validate_pdf, BroadcastTypeOK, AttemptsFollowPhase, DataFollowPhase
<1>5. CASE SendPost
  BY <1>1, <1>5 DEF SendPost, BroadcastTypeOK, AttemptsFollowPhase, DataFollowPhase
<1>6. CASE Succeeds
  BY <1>1, <1>6 DEF Succeeds, BroadcastTypeOK, AttemptsFollowPhase, DataFollowPhase
<1>7. CASE Retries
  <2> SUFFICES ASSUME ~Fail PROVE BroadcastIInv'
    BY <1>2
  <2>1. PICK retry_after \in RetryAfters :
           /\ ~LastAttempt /\ delay' = backoff_delay_seconds(attempts, retry_after)
           /\ asked_for' = retry_after /\ phase' = "wait"
           /\ UNCHANGED <<pdf, attempts, answer, analysis>>
    BY <1>7 DEF Retries
  <2>2. phase = "posted" /\ attempts \in Nat \ {0} /\ attempts < MaxAttempts /\ pdf = "pdf"
    BY <1>1, <1>7, <2>1 DEF Retries, LastAttempt, BroadcastTypeOK, AttemptsFollowPhase, DataFollowPhase
  <2>3. delay' >= 2^(attempts - 1) /\ delay' >= asked_for'
    BY <2>1, <2>2, BackoffIsEnough
  <2> QED
    BY <1>1, <2>1, <2>2, <2>3 DEF BroadcastTypeOK, AttemptsFollowPhase, DataFollowPhase
<1>8. CASE NoAnswer
  BY <1>2, <1>8 DEF NoAnswer
<1>9. CASE Waited
  BY <1>1, <1>9 DEF Waited, BroadcastTypeOK, AttemptsFollowPhase, DataFollowPhase
<1>10. CASE Analyze
  <2> SUFFICES ASSUME ~Fail PROVE BroadcastIInv'
    BY <1>2
  <2>1. /\ phase = "answer" /\ answer # NoCandidate /\ FinishedNormally(answer) /\ phase' = "shown"
        /\ analysis' = extract_generated_text(answer)
        /\ UNCHANGED <<pdf, attempts, delay, asked_for, answer>>
    BY <1>10 DEF Analyze
  <2>2. answer \in Candidates /\ pdf = "pdf"
    BY <2>1 DEF BroadcastTypeOK, DataFollowPhase
  <2>3. analysis' = extract_generated_text(answer')
    BY <2>1
  <2>4. FinishedNormally(answer')
    BY <2>1
  <2> QED
    BY <1>1, <2>1, <2>2, <2>3, <2>4 DEF BroadcastTypeOK, AttemptsFollowPhase, DataFollowPhase
<1>11. CASE UNCHANGED broadcastVars
  BY <1>11 DEF broadcastVars, BroadcastTypeOK, AttemptsFollowPhase, DataFollowPhase
<1> QED
  BY <1>3, <1>4, <1>5, <1>6, <1>7, <1>8, <1>9, <1>10, <1>11 DEF BroadcastNext

LEMMA BroadcastIInvImplies == BroadcastIInv => BroadcastInv
<1> SUFFICES ASSUME BroadcastIInv PROVE BroadcastInv
  OBVIOUS
<1> USE DEF BroadcastIInv
<1>1. RetriesBackOff
  BY BroadcastAssumption DEF BroadcastTypeOK, DataFollowPhase, RetriesBackOff
<1>2. OnlyTheAnswerIsShown
  <2> SUFFICES ASSUME phase = "shown"
               PROVE  /\ answer.finish # "MAX_TOKENS"
                      /\ \A i \in DOMAIN answer.parts :
                            \/ answer.parts[i].thought
                            \/ \E k \in DOMAIN analysis : analysis[k] = answer.parts[i].text
                      /\ Len(analysis) = Cardinality({i \in DOMAIN answer.parts : ~answer.parts[i].thought})
    BY DEF OnlyTheAnswerIsShown
  <2>1. answer \in Candidates /\ FinishedNormally(answer) /\ analysis = extract_generated_text(answer)
    BY DEF DataFollowPhase
  <2>2. answer.parts \in Seq(Parts)
    <3>1. answer.parts \in BoundedSeq(Parts, MaxParts)
      BY <2>1 DEF Candidates
    <3>2. PICK m \in 0 .. MaxParts : answer.parts \in [1 .. m -> Parts]
      BY <3>1 DEF BoundedSeq, SeqOf
    <3>3. m \in Nat
      BY BroadcastAssumption
    <3> QED
      BY <3>2, <3>3
  <2>3. answer.finish # "MAX_TOKENS"
    BY <2>1 DEF FinishedNormally
  <2> QED
    BY <2>1, <2>2, <2>3, TextIsSaid
<1> QED
  BY <1>1, <1>2 DEF BroadcastInv

\* However often Gemini is busy and whatever it asks and answers: the requests are few and
\* spaced, and what is shown is what the candidate says without its thoughts.
THEOREM BroadcastInvariant == BroadcastSpec => []BroadcastInv
<1>1. BroadcastInit => BroadcastIInv
  BY BroadcastStarts
<1>2. BroadcastIInv /\ [BroadcastNext]_broadcastVars => BroadcastIInv'
  BY BroadcastIInvIsInductive
<1>3. BroadcastIInv => BroadcastInv
  BY BroadcastIInvImplies
<1> QED
  BY <1>1, <1>2, <1>3, PTL DEF BroadcastSpec

-----------------------------------------------------------------------------
(* The handler of a run, its reporter and what the user heard.             *)

Busy == {"running", "sending", "finishing"}
Handlers == Busy \cup {"none", "refused", "over", "untold"}

ReporterTypeOK ==
    /\ WhatsAppTypeOK
    /\ DOMAIN latest = Runs /\ DOMAIN last_sent = Runs /\ DOMAIN heard = Runs

\* A handler that is busy has the permit; it runs the benchmark once, and finishes
\* when that has ended.
HandlerFollowsRun(r) ==
    /\ handler[r] \in Busy <=> permit = r
    /\ result[r] = "none" <=> handler[r] \in {"none", "refused"}
    /\ result[r] = "running" => handler[r] \in {"running", "sending"}
    /\ handler[r] = "sending" => result[r] = "running"

\* The message under way, or the next one, is the report that the run is at, its last
\* report if it succeeded, or its failure.
LatestFollowsRun(r) ==
    /\ handler[r] = "sending" => step[r].do \in {"report", "note"} /\ latest[r] = Text(r)
    /\ handler[r] = "running" /\ result[r] = "ok" => latest[r] = Report("closed", matched[r])
    /\ handler[r] = "finishing"
          => latest[r] = IF result[r] = "ok" THEN Report("closed", matched[r]) ELSE Failure

\* The reporter remembers what the user heard, and that is not the end of the run
\* before its end.
HeardFollowsRun(r) ==
    /\ handler[r] \in {"none", "refused"} => heard[r] = Nothing /\ last_sent[r] = Nothing
    /\ handler[r] \in {"running", "sending"} => heard[r] = last_sent[r]
    /\ handler[r] = "over"
          => heard[r] = IF result[r] = "ok" THEN Report("closed", matched[r]) ELSE Failure
    /\ heard[r].what = "closed" => result[r] = "ok"
    /\ heard[r] = Failure => result[r] = "failed"

\* The reporter counts its intervals from the messages that were sent, or asked for.
AgesAreTrue == heard_age = sent_age /\ asked_age = sampled_age

HandlerIsSound(r) == HandlerFollowsRun(r) /\ LatestFollowsRun(r) /\ HeardFollowsRun(r)

ReporterIInv == /\ BenchmarkIInv
                /\ ReporterTypeOK
                /\ AgesAreTrue
                /\ \A r \in Runs : HandlerIsSound(r)

-----------------------------------------------------------------------------
(* What the reporter sees of run_benchmark.                                *)

\* A run that goes on has a text for its step, which is no failure, and which is its
\* result if it is the last one.
LEMMA TextOfStep ==
    ASSUME BenchmarkIInv, NEW r \in Runs, result[r] = "running"
    PROVE  /\ step[r] \in StepRecords /\ step[r].do = KindOf(step[r].what)
           /\ Text(r).what = step[r].what /\ Text(r) # Failure /\ Text(r) # Nothing
           /\ step[r].what = "closed" => Text(r) = Report("closed", matched[r])
<1>1. step[r] \in StepRecords /\ (step[r].what = "closed" => step[r].i = matched[r])
  BY DEF BenchmarkIInv, RunIsSound, StepIsSound
<1>2. step[r].what \in Whats /\ step[r].do = KindOf(step[r].what)
  BY <1>1 DEF StepRecords
<1>3. "failure" \notin Whats /\ "nothing" \notin Whats
  BY DEF Whats, BeforeCommit, Querying, Queried
<1>4. /\ Text(r).what = step[r].what /\ Text(r).i = step[r].i
      /\ Failure.what = "failure" /\ Nothing.what = "nothing"
  BY DEF Text, Current, Report, Failure, Nothing
<1>5. step[r].what = "closed" => Text(r) = Report("closed", matched[r])
  BY <1>1 DEF Text, Current, Report
<1> QED
  BY <1>1, <1>2, <1>3, <1>4, <1>5

\* What a step of run_benchmark leaves of the others, and how it ends its own run.
LEMMA RunGoesOn ==
    ASSUME BenchmarkIInv, NEW r \in Runs, result[r] = "running", BenchmarkStep(r)
    PROVE  /\ BenchmarkIInv'
           /\ \A q \in Runs \ {r} : /\ step'[q] = step[q] /\ result'[q] = result[q]
                                    /\ matched'[q] = matched[q]
           /\ CallSucceeds(r) => result'[r] = "running"
           /\ CallFails(r) \/ ReportFails(r) => result'[r] = "failed"
           /\ \A ok \in BOOLEAN : ReportReturns(r, ok) =>
                 IF step[r].what = "closed" THEN result'[r] = "ok" /\ matched'[r] = matched[r]
                 ELSE result'[r] = "running"
<1>0. BenchmarkTypeOK /\ RunIsSound(r)
  BY DEF BenchmarkIInv
<1>1. BenchmarkIInv'
  BY BenchmarkKeeps
<1>2. \A q \in Runs \ {r} : /\ step'[q] = step[q] /\ result'[q] = result[q]
                            /\ matched'[q] = matched[q]
  BY <1>0, RunKeeps
<1>3. step[r].do = KindOf(step[r].what) /\ KindOf("closed") = "report"
  BY TextOfStep DEF KindOf, DatabaseCalls
<1>4. r \in DOMAIN result
  BY <1>0 DEF BenchmarkTypeOK
<1>5. CallSucceeds(r) => result'[r] = "running"
  <2>1. CallSucceeds(r) => step[r].what # "closed"
    BY <1>3 DEF CallSucceeds, IsAt, Current
  <2> QED
    BY <2>1 DEF CallSucceeds, GoOn
<1>6. CallFails(r) \/ ReportFails(r) => result'[r] = "failed"
  BY <1>4 DEF CallFails, ReportFails, GiveUp
<1>7. ASSUME NEW ok \in BOOLEAN, ReportReturns(r, ok)
      PROVE  IF step[r].what = "closed" THEN result'[r] = "ok" /\ matched'[r] = matched[r]
             ELSE result'[r] = "running"
  BY <1>4, <1>7 DEF ReportReturns, GoOn
<1> QED
  BY <1>1, <1>2, <1>5, <1>6, <1>7

-----------------------------------------------------------------------------
(* What the steps of a handler keep.                                       *)

\* Steps of other handlers, which leave the permit to a handler that has it and do
\* not give it to one that has not.
LEMMA OtherHandlerIsSound ==
    ASSUME NEW q \in Runs, HandlerIsSound(q),
           handler'[q] = handler[q], latest'[q] = latest[q], last_sent'[q] = last_sent[q],
           heard'[q] = heard[q], step'[q] = step[q], result'[q] = result[q],
           matched'[q] = matched[q], permit' = q <=> permit = q
    PROVE  HandlerIsSound(q)'
<1>1. Text(q)' = Text(q)
  BY DEF Text, Current
<1>2. HandlerFollowsRun(q)'
  BY DEF HandlerIsSound, HandlerFollowsRun
<1>3. LatestFollowsRun(q)'
  BY <1>1 DEF HandlerIsSound, LatestFollowsRun
<1>4. HeardFollowsRun(q)'
  BY DEF HandlerIsSound, HeardFollowsRun, Nothing, Failure
<1> QED
  BY <1>2, <1>3, <1>4 DEF HandlerIsSound

\* A step of the handler of r, which has the permit before it, or after it.
LEMMA StepOfHandler ==
    ASSUME ReporterIInv, NEW r \in Runs, BenchmarkIInv', ReporterTypeOK', AgesAreTrue',
           permit \in {r, None}, permit' \in {r, None},
           \A q \in Runs \ {r} :
              /\ handler'[q] = handler[q] /\ latest'[q] = latest[q]
              /\ last_sent'[q] = last_sent[q] /\ heard'[q] = heard[q]
              /\ step'[q] = step[q] /\ result'[q] = result[q] /\ matched'[q] = matched[q],
           HandlerIsSound(r)'
    PROVE  ReporterIInv'
<1>1. ASSUME NEW q \in Runs, q # r PROVE HandlerIsSound(q)'
  <2>1. permit' = q <=> permit = q
    BY <1>1, BenchmarkAssumption DEF BenchmarkAssumption
  <2> QED
    BY <1>1, <2>1, OtherHandlerIsSound DEF ReporterIInv
<1> QED
  BY <1>1 DEF ReporterIInv

LEMMA WhatsAppStarts == WhatsAppInit => ReporterIInv
<1> SUFFICES ASSUME WhatsAppInit PROVE ReporterIInv
  OBVIOUS
<1>1. BenchmarkIInv
  BY BenchmarkStarts DEF WhatsAppInit
<1>2. Never \in Ages
  BY ReporterAssumption DEF ReporterAssumption, Never, Ages
<1>3. ReporterTypeOK
  BY <1>2 DEF WhatsAppInit, ReporterTypeOK, WhatsAppTypeOK
<1>4. AgesAreTrue
  BY DEF WhatsAppInit, AgesAreTrue
<1>5. ASSUME NEW r \in Runs PROVE HandlerIsSound(r)
  <2>1. /\ handler[r] = "none" /\ permit # r /\ result[r] = "none"
        /\ heard[r] = Nothing /\ last_sent[r] = Nothing
    BY BenchmarkAssumption DEF WhatsAppInit, BenchmarkInit, BenchmarkAssumption
  <2>2. Nothing.what = "nothing" /\ Failure.what = "failure"
    BY DEF Nothing, Failure, Report
  <2> QED
    BY <2>1, <2>2 DEF HandlerIsSound, HandlerFollowsRun, LatestFollowsRun, HeardFollowsRun, Busy
<1> QED
  BY <1>1, <1>3, <1>4, <1>5 DEF ReporterIInv

LEMMA TickKeeps ==
    ASSUME ReporterIInv, Tick PROVE ReporterIInv'
<1>1. \A age \in Ages : Older(age) \in Ages
  BY ReporterAssumption DEF ReporterAssumption, Older, Ages, Never
<1>2. ReporterTypeOK'
  BY <1>1 DEF Tick, ReporterIInv, ReporterTypeOK, WhatsAppTypeOK
<1>3. AgesAreTrue'
  BY DEF Tick, ReporterIInv, AgesAreTrue
<1>4. BenchmarkIInv'
  BY BenchmarkStutters DEF Tick, ReporterIInv
<1>5. ASSUME NEW r \in Runs PROVE HandlerIsSound(r)'
  BY OtherHandlerIsSound DEF Tick, ReporterIInv, benchmarkVars
<1> QED
  BY <1>2, <1>3, <1>4, <1>5 DEF ReporterIInv

LEMMA StartKeeps ==
    ASSUME ReporterIInv, NEW r \in Runs, StartBenchmark(r)
    PROVE  ReporterIInv' /\ BenchmarkStep(r)
<1>1. PICK k \in Kinds : StartRun(r, k)
  BY DEF StartBenchmark
<1>2. /\ handler[r] = "none" /\ permit = None /\ permit' = r
      /\ handler' = [handler EXCEPT ![r] = "running"]
      /\ UNCHANGED <<reporterVars, historyVars>>
  BY DEF StartBenchmark, TryAcquire
<1>3. result[r] = "none" /\ heard[r] = Nothing /\ last_sent[r] = Nothing
  BY <1>2 DEF ReporterIInv, HandlerIsSound, HandlerFollowsRun, HeardFollowsRun
<1>4. BenchmarkStep(r)
  BY <1>1, <1>3 DEF BenchmarkStep
<1>5. BenchmarkIInv'
  BY <1>4, BenchmarkKeeps DEF ReporterIInv
<1>6. ReporterTypeOK' /\ AgesAreTrue'
  BY <1>2 DEF ReporterIInv, ReporterTypeOK, WhatsAppTypeOK, AgesAreTrue, reporterVars, historyVars
<1>7. /\ \A q \in Runs \ {r} : /\ handler'[q] = handler[q] /\ step'[q] = step[q]
                               /\ result'[q] = result[q] /\ matched'[q] = matched[q]
      /\ UNCHANGED <<latest, last_sent, heard>>
      /\ handler'[r] = "running" /\ result'[r] = "running"
  BY <1>1, <1>2 DEF StartRun, ReporterIInv, ReporterTypeOK, WhatsAppTypeOK, BenchmarkIInv,
     BenchmarkTypeOK, reporterVars, historyVars
<1>8. HandlerIsSound(r)'
  <2>1. Nothing' = Nothing /\ Nothing.what = "nothing" /\ Failure' = Failure /\ Failure.what = "failure"
    BY DEF Nothing, Failure, Report
  <2> QED
    BY <1>2, <1>3, <1>7, <2>1 DEF HandlerIsSound, HandlerFollowsRun, LatestFollowsRun, HeardFollowsRun, Busy
<1> QED
  BY <1>2, <1>4, <1>5, <1>6, <1>7, <1>8, StepOfHandler

LEMMA RefuseKeeps ==
    ASSUME ReporterIInv, NEW r \in Runs, Refuse(r) PROVE ReporterIInv'
<1>1. /\ handler[r] = "none" /\ handler' = [handler EXCEPT ![r] = "refused"]
      /\ UNCHANGED <<benchmarkVars, permit, reporterVars, historyVars>>
  BY DEF Refuse
<1>2. BenchmarkIInv'
  BY <1>1, BenchmarkStutters DEF ReporterIInv
<1>3. ReporterTypeOK' /\ AgesAreTrue'
  BY <1>1 DEF ReporterIInv, ReporterTypeOK, WhatsAppTypeOK, AgesAreTrue, reporterVars, historyVars
<1>4. /\ UNCHANGED <<latest, last_sent, heard, step, result, matched>>
      /\ \A q \in Runs \ {r} : handler'[q] = handler[q]
      /\ handler'[r] = "refused"
  BY <1>1 DEF reporterVars, historyVars, benchmarkVars, ReporterIInv, ReporterTypeOK, WhatsAppTypeOK
<1>5. HandlerIsSound(r)'
  BY <1>1, <1>4 DEF ReporterIInv, HandlerIsSound, HandlerFollowsRun, LatestFollowsRun,
     HeardFollowsRun, Busy, Nothing, Failure
<1>6. ASSUME NEW q \in Runs, q # r PROVE HandlerIsSound(q)'
  BY <1>1, <1>4, <1>6, OtherHandlerIsSound DEF ReporterIInv
<1> QED
  BY <1>2, <1>3, <1>5, <1>6 DEF ReporterIInv

\* The handler of a run that is not over has the permit.
LEMMA BusyHasPermit ==
    ASSUME ReporterIInv, NEW r \in Runs, handler[r] \in Busy
    PROVE  /\ permit = r /\ HandlerIsSound(r)
           /\ handler[r] = "sending" => result[r] = "running"
  BY DEF ReporterIInv, HandlerIsSound, HandlerFollowsRun

LEMMA RunBenchmarkKeeps ==
    ASSUME ReporterIInv, NEW r \in Runs, RunBenchmark(r)
    PROVE  ReporterIInv' /\ BenchmarkStep(r)
<1>1. /\ handler[r] = "running" /\ (CallSucceeds(r) \/ CallFails(r))
      /\ UNCHANGED <<handler, permit, reporterVars, historyVars>>
  BY DEF RunBenchmark
<1>2. BenchmarkStep(r) /\ result[r] = "running"
  BY <1>1 DEF BenchmarkStep, CallSucceeds, CallFails, IsAt
<1>3. /\ BenchmarkIInv' /\ result'[r] \in {"running", "failed"}
      /\ \A q \in Runs \ {r} : /\ step'[q] = step[q] /\ result'[q] = result[q]
                               /\ matched'[q] = matched[q]
  BY <1>1, <1>2, RunGoesOn DEF ReporterIInv
<1>4. ReporterTypeOK' /\ AgesAreTrue'
  BY <1>1 DEF ReporterIInv, ReporterTypeOK, WhatsAppTypeOK, AgesAreTrue, reporterVars, historyVars
<1>5. permit = r /\ HandlerIsSound(r) /\ UNCHANGED <<handler, permit, latest, last_sent, heard>>
  BY <1>1, BusyHasPermit DEF Busy, reporterVars, historyVars
<1>6. HandlerIsSound(r)'
  BY <1>1, <1>2, <1>3, <1>5 DEF HandlerIsSound, HandlerFollowsRun, LatestFollowsRun,
     HeardFollowsRun, Busy, Nothing, Failure
<1> QED
  BY <1>2, <1>3, <1>4, <1>5, <1>6, StepOfHandler

LEMMA ReportKeeps ==
    ASSUME ReporterIInv, NEW r \in Runs, report(r)
    PROVE  ReporterIInv' /\ (BenchmarkStep(r) \/ UNCHANGED benchmarkVars)
<1>1. /\ handler[r] = "running" /\ (IsAt(r, "report") \/ IsAt(r, "note"))
      /\ latest' = [latest EXCEPT ![r] = Text(r)]
      /\ UNCHANGED <<permit, last_sent, sent_age, heard, heard_age>>
  BY DEF report
<1>2. /\ result[r] = "running" /\ step[r].do \in {"report", "note"}
      /\ permit = r /\ HandlerIsSound(r) /\ DOMAIN latest = Runs /\ handler \in [Runs -> Handlers]
  BY <1>1, BusyHasPermit DEF IsAt, Current, Busy, Handlers, ReporterIInv, ReporterTypeOK, WhatsAppTypeOK
<1>3. /\ latest'[r] = Text(r) /\ UNCHANGED <<permit, last_sent, heard>>
      /\ \A q \in Runs \ {r} : latest'[q] = latest[q]
  BY <1>1, <1>2
<1>4. CASE Due(r)
  <2>1. /\ handler' = [handler EXCEPT ![r] = "sending"] /\ UNCHANGED benchmarkVars
        /\ sampled_age' = [sampled_age EXCEPT ![r] = 0]
        /\ asked_age' = [asked_age EXCEPT ![r] = 0]
    BY <1>4 DEF report
  <2>2. 0 \in Ages
    BY ReporterAssumption DEF ReporterAssumption, Never, Ages
  <2>3. ReporterTypeOK' /\ AgesAreTrue'
    BY <1>1, <2>1, <2>2 DEF ReporterIInv, ReporterTypeOK, WhatsAppTypeOK, AgesAreTrue
  <2>4. BenchmarkIInv' /\ UNCHANGED <<step, result, matched>>
    BY <2>1, BenchmarkStutters DEF ReporterIInv, benchmarkVars
  <2>5. Text(r)' = Text(r) /\ handler'[r] = "sending" /\ \A q \in Runs \ {r} : handler'[q] = handler[q]
    BY <1>2, <2>1, <2>4 DEF Text, Current
  <2>6. HandlerIsSound(r)'
    BY <1>1, <1>2, <1>3, <2>4, <2>5 DEF HandlerIsSound, HandlerFollowsRun, LatestFollowsRun,
       HeardFollowsRun, Busy, Nothing, Failure
  <2> QED
    BY <1>2, <1>3, <2>1, <2>3, <2>4, <2>5, <2>6, StepOfHandler
<1>5. CASE ~Due(r)
  <2>1. ReportReturns(r, TRUE) /\ UNCHANGED <<handler, sampled_age, asked_age>>
    BY <1>5 DEF report
  <2>2. BenchmarkStep(r)
    BY <2>1 DEF BenchmarkStep
  <2>3. /\ BenchmarkIInv'
        /\ \A q \in Runs \ {r} : /\ step'[q] = step[q] /\ result'[q] = result[q]
                                 /\ matched'[q] = matched[q]
        /\ IF step[r].what = "closed" THEN result'[r] = "ok" /\ matched'[r] = matched[r]
           ELSE result'[r] = "running"
    BY <1>2, <2>1, <2>2, RunGoesOn DEF ReporterIInv
  <2>4. ReporterTypeOK' /\ AgesAreTrue'
    BY <1>1, <2>1 DEF ReporterIInv, ReporterTypeOK, WhatsAppTypeOK, AgesAreTrue
  <2>5. step[r].what = "closed" => latest'[r] = Report("closed", matched'[r])
    BY <1>2, <1>3, <2>3, TextOfStep DEF ReporterIInv
  <2>6. HandlerIsSound(r)'
    BY <1>1, <1>2, <1>3, <2>1, <2>3, <2>5 DEF HandlerIsSound, HandlerFollowsRun, LatestFollowsRun,
       HeardFollowsRun, Busy, Nothing, Failure, Report
  <2> QED
    BY <1>2, <1>3, <2>1, <2>2, <2>3, <2>4, <2>6, StepOfHandler
<1> QED
  BY <1>4, <1>5

\* The end of a handler.
LEMMA Returned ==
    ASSUME ReporterIInv, NEW r \in Runs, NEW how \in {"over", "untold"}, Return(r, how),
           DOMAIN heard' = Runs, UNCHANGED benchmarkVars,
           \A q \in Runs \ {r} : heard'[q] = heard[q],
           permit = r, result[r] \in {"ok", "failed"},
           how = "over" => heard'[r] = IF result[r] = "ok" THEN Report("closed", matched[r]) ELSE Failure,
           how = "untold" => heard'[r] = heard[r]
    PROVE  ReporterIInv'
<1>1. /\ handler' = [handler EXCEPT ![r] = how] /\ permit' = None
      /\ latest' = [latest EXCEPT ![r] = Nothing] /\ last_sent' = [last_sent EXCEPT ![r] = Nothing]
  BY DEF Return
<1>2. Never \in Ages
  BY ReporterAssumption DEF ReporterAssumption, Never, Ages
<1>3. ReporterTypeOK'
  BY <1>2 DEF ReporterIInv, ReporterTypeOK, WhatsAppTypeOK, Return
<1>4. AgesAreTrue'
  BY DEF ReporterIInv, AgesAreTrue, Return
<1>5. BenchmarkIInv' /\ UNCHANGED <<step, result, matched>>
  BY BenchmarkStutters DEF ReporterIInv, benchmarkVars
<1>6. /\ handler'[r] = how /\ permit' # r /\ HeardFollowsRun(r)
      /\ \A q \in Runs \ {r} : /\ handler'[q] = handler[q] /\ latest'[q] = latest[q]
                               /\ last_sent'[q] = last_sent[q]
  BY <1>1, BenchmarkAssumption DEF ReporterIInv, ReporterTypeOK, WhatsAppTypeOK, BenchmarkAssumption,
     HandlerIsSound
<1>7. /\ Report("closed", matched[r]).what = "closed" /\ Failure.what = "failure" /\ Failure' = Failure
      /\ Report("closed", matched[r])' = Report("closed", matched[r])
  BY <1>5 DEF Failure, Report
<1>8. HandlerIsSound(r)'
  BY <1>5, <1>6, <1>7 DEF HandlerIsSound, HandlerFollowsRun, LatestFollowsRun, HeardFollowsRun, Busy
<1> QED
  BY <1>1, <1>3, <1>4, <1>5, <1>6, <1>8, StepOfHandler

LEMMA FinishSuccessKeeps ==
    ASSUME ReporterIInv, NEW r \in Runs, finish_success(r) PROVE ReporterIInv'
<1>1. /\ handler[r] = "running" /\ result[r] = "ok"
      /\ UNCHANGED <<benchmarkVars, heard>>
  BY DEF finish_success
<1>2. /\ permit = r /\ HandlerIsSound(r) /\ DOMAIN heard = Runs
      /\ latest[r] = Report("closed", matched[r]) /\ heard[r] = last_sent[r]
  BY <1>1, BusyHasPermit DEF Busy, ReporterIInv, ReporterTypeOK, HandlerIsSound, LatestFollowsRun,
     HeardFollowsRun
<1>3. CASE latest_unsent(r)
  <2>1. /\ handler' = [handler EXCEPT ![r] = "finishing"]
        /\ UNCHANGED <<permit, reporterVars, heard_age, asked_age>>
    BY <1>3 DEF finish_success
  <2>2. ReporterTypeOK' /\ AgesAreTrue'
    BY <1>1, <2>1 DEF ReporterIInv, ReporterTypeOK, WhatsAppTypeOK, AgesAreTrue, reporterVars
  <2>3. BenchmarkIInv' /\ UNCHANGED <<step, result, matched, latest, last_sent>>
    BY <1>1, <2>1, BenchmarkStutters DEF ReporterIInv, benchmarkVars, reporterVars
  <2>4. handler'[r] = "finishing" /\ \A q \in Runs \ {r} : handler'[q] = handler[q]
    BY <2>1 DEF ReporterIInv, ReporterTypeOK, WhatsAppTypeOK
  <2>5. HandlerIsSound(r)'
    BY <1>1, <1>2, <2>1, <2>3, <2>4 DEF HandlerIsSound, HandlerFollowsRun, LatestFollowsRun,
       HeardFollowsRun, Busy, Failure, Report
  <2> QED
    BY <1>1, <1>2, <2>1, <2>2, <2>3, <2>4, <2>5, StepOfHandler
<1>4. CASE ~latest_unsent(r)
  <2>1. Return(r, "over") /\ heard[r] = Report("closed", matched[r])
    BY <1>2, <1>4 DEF finish_success, latest_unsent
  <2> QED
    BY <1>1, <1>2, <2>1, Returned
<1> QED
  BY <1>3, <1>4

LEMMA FinishFailureKeeps ==
    ASSUME ReporterIInv, NEW r \in Runs, finish_failure(r) PROVE ReporterIInv'
<1>1. /\ handler[r] = "running" /\ result[r] = "failed"
      /\ latest' = [latest EXCEPT ![r] = Failure]
      /\ handler' = [handler EXCEPT ![r] = "finishing"]
      /\ UNCHANGED <<benchmarkVars, permit, last_sent, sampled_age, sent_age, historyVars>>
  BY DEF finish_failure
<1>2. permit = r /\ HandlerIsSound(r)
  BY <1>1, BusyHasPermit DEF Busy
<1>3. ReporterTypeOK' /\ AgesAreTrue'
  BY <1>1 DEF ReporterIInv, ReporterTypeOK, WhatsAppTypeOK, AgesAreTrue, historyVars
<1>4. BenchmarkIInv' /\ UNCHANGED <<step, result, matched, last_sent, heard>>
  BY <1>1, BenchmarkStutters DEF ReporterIInv, benchmarkVars, historyVars
<1>5. /\ handler'[r] = "finishing" /\ latest'[r] = Failure /\ Failure' = Failure
      /\ \A q \in Runs \ {r} : handler'[q] = handler[q] /\ latest'[q] = latest[q]
  BY <1>1 DEF ReporterIInv, ReporterTypeOK, WhatsAppTypeOK, Failure
<1>6. HandlerIsSound(r)'
  BY <1>1, <1>2, <1>4, <1>5 DEF HandlerIsSound, HandlerFollowsRun, LatestFollowsRun,
     HeardFollowsRun, Busy
<1> QED
  BY <1>1, <1>2, <1>3, <1>4, <1>5, <1>6, StepOfHandler

\* The handler of a message that is under way.
LEMMA FinishingHandler ==
    ASSUME ReporterIInv, NEW r \in Runs, handler[r] = "finishing"
    PROVE  /\ permit = r /\ result[r] \in {"ok", "failed"}
           /\ latest[r] = IF result[r] = "ok" THEN Report("closed", matched[r]) ELSE Failure
<1>1. permit = r /\ HandlerIsSound(r) /\ result[r] \in {"none", "running", "ok", "failed"}
  BY BusyHasPermit DEF Busy, ReporterIInv, BenchmarkIInv, BenchmarkTypeOK
<1> QED
  BY <1>1 DEF HandlerIsSound, HandlerFollowsRun, LatestFollowsRun

LEMMA SendKeeps ==
    ASSUME ReporterIInv, NEW r \in Runs, Send(r)
    PROVE  ReporterIInv' /\ (BenchmarkStep(r) \/ UNCHANGED benchmarkVars)
<1>1. /\ handler[r] \in {"sending", "finishing"}
      /\ heard' = [heard EXCEPT ![r] = latest[r]]
  BY DEF Send
<1>2. /\ DOMAIN heard' = Runs /\ heard'[r] = latest[r]
      /\ \A q \in Runs \ {r} : heard'[q] = heard[q]
  BY <1>1 DEF ReporterIInv, ReporterTypeOK
<1>3. CASE handler[r] = "finishing"
  <2>1. Return(r, "over") /\ UNCHANGED benchmarkVars
    BY <1>3 DEF Send
  <2> QED
    BY <1>2, <1>3, <2>1, FinishingHandler, Returned
<1>4. CASE handler[r] = "sending"
  <2>1. /\ handler' = [handler EXCEPT ![r] = "running"] /\ ReportReturns(r, TRUE)
        /\ last_sent' = [last_sent EXCEPT ![r] = latest[r]]
        /\ sent_age' = [sent_age EXCEPT ![r] = 0]
        /\ heard_age' = [heard_age EXCEPT ![r] = 0]
        /\ UNCHANGED <<permit, latest, sampled_age, asked_age>>
    BY <1>4 DEF Send, record_sent
  <2>2. /\ permit = r /\ HandlerIsSound(r) /\ result[r] = "running"
        /\ latest[r] = Text(r) /\ handler \in [Runs -> Handlers] /\ DOMAIN last_sent = Runs
    BY <1>4, BusyHasPermit DEF Busy, Handlers, HandlerIsSound, LatestFollowsRun, ReporterIInv,
       ReporterTypeOK, WhatsAppTypeOK
  <2>3. BenchmarkStep(r)
    BY <2>1 DEF BenchmarkStep
  <2>4. /\ BenchmarkIInv'
        /\ \A q \in Runs \ {r} : /\ step'[q] = step[q] /\ result'[q] = result[q]
                                 /\ matched'[q] = matched[q]
        /\ IF step[r].what = "closed" THEN result'[r] = "ok" /\ matched'[r] = matched[r]
           ELSE result'[r] = "running"
    BY <2>1, <2>2, <2>3, RunGoesOn DEF ReporterIInv
  <2>5. 0 \in Ages
    BY ReporterAssumption DEF ReporterAssumption, Never, Ages
  <2>6. ReporterTypeOK' /\ AgesAreTrue'
    BY <1>2, <2>1, <2>2, <2>5 DEF ReporterIInv, ReporterTypeOK, WhatsAppTypeOK, AgesAreTrue
  <2>7. /\ handler'[r] = "running" /\ last_sent'[r] = latest[r]
        /\ \A q \in Runs \ {r} : handler'[q] = handler[q] /\ last_sent'[q] = last_sent[q]
    BY <2>1, <2>2
  <2>8. /\ latest[r].what = step[r].what /\ latest[r] # Failure
        /\ step[r].what = "closed" => latest[r] = Report("closed", matched[r])
    BY <2>2, TextOfStep DEF ReporterIInv
  <2>9. HandlerIsSound(r)'
    BY <1>2, <2>1, <2>2, <2>4, <2>7, <2>8 DEF HandlerIsSound, HandlerFollowsRun,
       LatestFollowsRun, HeardFollowsRun, Busy, Failure, Report
  <2> QED
    BY <1>2, <2>1, <2>2, <2>3, <2>4, <2>6, <2>7, <2>9, StepOfHandler
<1> QED
  BY <1>1, <1>3, <1>4

LEMMA SendFailsKeeps ==
    ASSUME ReporterIInv, NEW r \in Runs, SendFails(r)
    PROVE  ReporterIInv' /\ (BenchmarkStep(r) \/ UNCHANGED benchmarkVars)
<1>1. handler[r] \in {"sending", "finishing"} /\ UNCHANGED heard
  BY DEF SendFails
<1>2. DOMAIN heard = Runs
  BY DEF ReporterIInv, ReporterTypeOK
<1>3. CASE handler[r] = "finishing"
  <2>1. Return(r, "untold") /\ UNCHANGED benchmarkVars
    BY <1>3 DEF SendFails
  <2> QED
    BY <1>1, <1>2, <1>3, <2>1, FinishingHandler, Returned
<1>4. CASE handler[r] = "sending"
  <2>1. /\ handler' = [handler EXCEPT ![r] = "running"]
        /\ ReportReturns(r, FALSE) \/ ReportFails(r)
        /\ UNCHANGED <<permit, reporterVars, heard_age, asked_age>>
    BY <1>4 DEF SendFails
  <2>2. /\ permit = r /\ HandlerIsSound(r) /\ result[r] = "running"
        /\ latest[r] = Text(r) /\ handler \in [Runs -> Handlers]
        /\ UNCHANGED <<latest, last_sent>>
    BY <1>4, <2>1, BusyHasPermit DEF Busy, Handlers, HandlerIsSound, LatestFollowsRun, ReporterIInv,
       ReporterTypeOK, WhatsAppTypeOK, reporterVars
  <2>3. BenchmarkStep(r)
    BY <2>1 DEF BenchmarkStep
  <2>4. /\ BenchmarkIInv'
        /\ \A q \in Runs \ {r} : /\ step'[q] = step[q] /\ result'[q] = result[q]
                                 /\ matched'[q] = matched[q]
        /\ \/ step[r].what = "closed" /\ result'[r] = "ok" /\ matched'[r] = matched[r]
           \/ result'[r] \in {"running", "failed"}
    BY <2>1, <2>2, <2>3, RunGoesOn DEF ReporterIInv
  <2>5. ReporterTypeOK' /\ AgesAreTrue'
    BY <1>1, <2>1 DEF ReporterIInv, ReporterTypeOK, WhatsAppTypeOK, AgesAreTrue, reporterVars
  <2>6. handler'[r] = "running" /\ \A q \in Runs \ {r} : handler'[q] = handler[q]
    BY <2>1, <2>2
  <2>7. step[r].what = "closed" => latest[r] = Report("closed", matched[r])
    BY <2>2, TextOfStep DEF ReporterIInv
  <2>8. HandlerIsSound(r)'
    BY <1>1, <2>1, <2>2, <2>4, <2>6, <2>7 DEF HandlerIsSound, HandlerFollowsRun,
       LatestFollowsRun, HeardFollowsRun, Busy, Failure, Nothing, Report
  <2> QED
    BY <1>1, <2>1, <2>2, <2>3, <2>4, <2>5, <2>6, <2>8, StepOfHandler
<1> QED
  BY <1>1, <1>3, <1>4

-----------------------------------------------------------------------------
(* The theorems.                                                           *)

LEMMA WhatsAppKeeps ==
    ReporterIInv /\ [WhatsAppNext]_whatsappVars
       => ReporterIInv' /\ [BenchmarkNext]_benchmarkVars
<1> SUFFICES ASSUME ReporterIInv, [WhatsAppNext]_whatsappVars
             PROVE  ReporterIInv' /\ [BenchmarkNext]_benchmarkVars
  OBVIOUS
<1>1. CASE Tick
  BY <1>1, TickKeeps DEF Tick
<1>2. ASSUME NEW r \in Runs, StartBenchmark(r) PROVE ReporterIInv' /\ BenchmarkNext
  BY <1>2, StartKeeps DEF BenchmarkNext
<1>3. ASSUME NEW r \in Runs, Refuse(r) PROVE ReporterIInv' /\ UNCHANGED benchmarkVars
  BY <1>3, RefuseKeeps DEF Refuse
<1>4. ASSUME NEW r \in Runs, Handled(r)
      PROVE  ReporterIInv' /\ (BenchmarkNext \/ UNCHANGED benchmarkVars)
  <2>1. CASE RunBenchmark(r)
    BY <2>1, RunBenchmarkKeeps DEF BenchmarkNext
  <2>2. CASE report(r)
    BY <2>2, ReportKeeps DEF BenchmarkNext
  <2>3. CASE finish_success(r)
    BY <2>3, FinishSuccessKeeps DEF finish_success
  <2>4. CASE finish_failure(r)
    BY <2>4, FinishFailureKeeps DEF finish_failure
  <2>5. CASE Send(r)
    BY <2>5, SendKeeps DEF BenchmarkNext
  <2>6. CASE SendFails(r)
    BY <2>6, SendFailsKeeps DEF BenchmarkNext
  <2> QED
    BY <1>4, <2>1, <2>2, <2>3, <2>4, <2>5, <2>6 DEF Handled
<1>5. CASE UNCHANGED whatsappVars
  <2>1. UNCHANGED <<benchmarkVars, handler, permit, latest, last_sent, sampled_age, sent_age, heard,
                    heard_age, asked_age>>
    BY <1>5 DEF whatsappVars, reporterVars, historyVars
  <2>2. BenchmarkIInv' /\ UNCHANGED <<step, result, matched>>
    BY <2>1, BenchmarkStutters DEF ReporterIInv, benchmarkVars
  <2>3. ReporterTypeOK' /\ AgesAreTrue'
    BY <2>1 DEF ReporterIInv, ReporterTypeOK, WhatsAppTypeOK, AgesAreTrue
  <2>4. ASSUME NEW q \in Runs PROVE HandlerIsSound(q)'
    BY <2>1, <2>2, OtherHandlerIsSound DEF ReporterIInv
  <2> QED
    BY <2>1, <2>2, <2>3, <2>4 DEF ReporterIInv
<1> QED
  BY <1>1, <1>2, <1>3, <1>4, <1>5 DEF WhatsAppNext

LEMMA ReporterIsSafe == ReporterIInv => ReporterInv
<1> SUFFICES ASSUME ReporterIInv PROVE ReporterInv
  OBVIOUS
<1>1. \A r \in Runs : HandlerFollowsRun(r) /\ HeardFollowsRun(r)
  BY DEF ReporterIInv, HandlerIsSound
<1>2. ASSUME NEW d \in Databases, opened[d] # None
      PROVE  opened[d] \in Runs /\ result[opened[d]] = "running"
  <2>1. opened[d] \in Runs /\ DatabaseIsHeld(opened[d])
    BY <1>2 DEF ReporterIInv, BenchmarkIInv, BenchmarkTypeOK, RunIsSound
  <2> QED
    BY <2>1 DEF DatabaseIsHeld, IsIn
<1>3. OneBenchmark
  BY <1>1, <1>2 DEF ReporterIInv, ReporterTypeOK, OneBenchmark, HandlerFollowsRun, Busy
<1>4. FinalResultIsHeard
  BY <1>1, <1>2, BenchmarkAssumption DEF FinalResultIsHeard, HeardFollowsRun, BenchmarkAssumption
<1> QED
  BY <1>3, <1>4 DEF ReporterInv

\* run_database_benchmark, with its messages, does nothing to a database that
\* run_benchmark does not do.
THEOREM WhatsAppRunsBenchmarks == WhatsAppSpec => BenchmarkSpec
<1>1. WhatsAppInit => ReporterIInv /\ BenchmarkInit
  BY WhatsAppStarts DEF WhatsAppInit
<1> QED
  BY <1>1, WhatsAppKeeps, PTL DEF WhatsAppSpec, BenchmarkSpec

\* One benchmark at a time, from its permit to its last message, and a user who was
\* told of an end was told the right one.
THEOREM ReporterInvariant == WhatsAppSpec => []ReporterInv
<1>1. WhatsAppInit => ReporterIInv
  BY WhatsAppStarts
<1>2. ReporterIInv => ReporterInv
  BY ReporterIsSafe
<1> QED
  BY <1>1, <1>2, WhatsAppKeeps, PTL DEF WhatsAppSpec

\* A message is heard, or asked for, only when the last one is old enough.
LEMMA StepsAreSpaced ==
    ASSUME ReporterIInv, WhatsAppNext, NEW r \in Runs
    PROVE  /\ heard'[r] # heard[r] => heard_age[r] >= PairInterval
           /\ handler[r] = "running" /\ handler'[r] = "sending"
                 => asked_age[r] >= ProgressInterval
<1>0. /\ PairInterval \in Nat /\ ProgressInterval \in Nat /\ PairInterval < ProgressInterval
      /\ heard_age = sent_age /\ asked_age = sampled_age
      /\ handler \in [Runs -> Handlers] /\ DOMAIN heard = Runs
      /\ sent_age[r] \in Nat /\ sampled_age[r] \in Nat
  BY ReporterAssumption DEF ReporterAssumption, ReporterIInv, AgesAreTrue, ReporterTypeOK,
     WhatsAppTypeOK, Handlers, Busy, Ages, Never
<1>1. ASSUME NEW q \in Runs, Send(q), heard'[r] # heard[r]
      PROVE  heard_age[r] >= PairInterval
  <2>1. q = r
    BY <1>0, <1>1 DEF Send
  <2> QED
    BY <1>0, <1>1, <2>1 DEF Send, pair_send_delay_is_over, Never
<1>2. ASSUME NEW q \in Runs, report(q), handler[r] = "running", handler'[r] = "sending"
      PROVE  asked_age[r] >= ProgressInterval
  <2>1. q = r /\ Due(r)
    BY <1>0, <1>2 DEF report
  <2> QED
    BY <1>0, <2>1 DEF Due, Never
<1>3. ASSUME NEW q \in Runs, StartBenchmark(q) \/ Refuse(q) \/ RunBenchmark(q) \/ report(q)
                             \/ finish_success(q) \/ finish_failure(q) \/ SendFails(q)
      PROVE  UNCHANGED heard
  BY <1>3 DEF StartBenchmark, Refuse, RunBenchmark, report, finish_success, finish_failure,
     SendFails, historyVars
<1>4. ASSUME NEW q \in Runs, StartBenchmark(q) \/ Refuse(q) \/ RunBenchmark(q)
                             \/ finish_success(q) \/ finish_failure(q) \/ Send(q) \/ SendFails(q),
             handler[r] = "running"
      PROVE  handler'[r] # "sending"
  BY <1>0, <1>4 DEF StartBenchmark, Refuse, RunBenchmark, finish_success, finish_failure,
     Send, SendFails, Return
<1>5. CASE Tick
  BY <1>5 DEF Tick
<1> QED
  BY <1>1, <1>2, <1>3, <1>4, <1>5 DEF WhatsAppNext, Handled

\* While it has records in its transaction, a run reports by notes.
LEMMA NotesCostNothing ==
    ASSUME ReporterIInv, NEW r \in Runs, SendFails(r), batch[r] # {}
    PROVE  batch'[r] = batch[r]
<1>1. CASE handler[r] = "finishing"
  BY <1>1 DEF SendFails, benchmarkVars
<1>2. CASE handler[r] = "sending"
  <2>1. HandlerFollowsRun(r) /\ LatestFollowsRun(r) /\ BatchIsSound(r)
    BY DEF ReporterIInv, HandlerIsSound, BenchmarkIInv, RunIsSound
  <2>2. step[r].what \in {"inserted", "put", "commit"} /\ result[r] = "running"
    BY <2>1 DEF BatchIsSound, IsIn
  <2>3. step[r].do # "report"
    BY <2>2, TextOfStep DEF ReporterIInv, KindOf, DatabaseCalls
  <2> QED
    BY <1>2, <2>3 DEF SendFails, ReportReturns, ReportFails, IsAt, Current
<1> QED
  BY <1>1, <1>2 DEF SendFails

\* Whatever the sends and the database take: messages that were sent are six seconds
\* apart, progress is asked for once a minute, and a refused note costs the ingestion
\* nothing.
THEOREM MessagesTheorem == WhatsAppSpec => MessagesDoNoHarm
<1>1. WhatsAppInit => ReporterIInv
  BY WhatsAppStarts
<1>2. ReporterIInv /\ [WhatsAppNext]_whatsappVars
         => [\A r \in Runs :
                /\ heard'[r] # heard[r] => heard_age[r] >= PairInterval
                /\ handler[r] = "running" /\ handler'[r] = "sending"
                      => asked_age[r] >= ProgressInterval]_whatsappVars
  BY StepsAreSpaced
<1>3. ReporterIInv /\ [WhatsAppNext]_whatsappVars
         => [\A r \in Runs : SendFails(r) /\ batch[r] # {} => batch'[r] = batch[r]]_whatsappVars
  BY NotesCostNothing
<1> QED
  BY <1>1, <1>2, <1>3, WhatsAppKeeps, PTL
     DEF WhatsAppSpec, MessagesDoNoHarm, SendsAreSpaced, IngestionOutlivesItsNotes
=============================================================================

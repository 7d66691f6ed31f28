----------------------------- MODULE UserRouter -----------------------------
(***************************************************************************)
(* The per-user message router, src/src/messaging/user_router.rs.          *)
(*                                                                         *)
(* One routing task reads the platform's MO (Mobile Originated) stream.    *)
(* The first MO of a user opens a dialog: an unbounded MO channel, stored  *)
(* in the map per_user_mo_tx, and a spawned dialog task that pulls MOs out *)
(* of that channel, turns each one into an MT (Mobile Terminated) and      *)
(* sends it to one bounded MT channel shared by all the users.  A dialog   *)
(* that stays idle, or whose MT stream ends, removes its route.  When the  *)
(* MO stream ends, the routing task waits for the channels to drain -- at  *)
(* most a grace period -- and closes them.                                 *)
(*                                                                         *)
(* Granularity.  A critical section of the tokio mutex around the map has  *)
(* no await inside, so it is one action.  Whatever happens outside of it   *)
(* (the send after the lookup, the close after the timeout) is an action   *)
(* of its own: tasks run on several threads.                               *)
(***************************************************************************)
EXTENDS Integers, Sequences

CONSTANTS Users,        \* the users that talk to the bot
          MaxMos,       \* bound: MOs a user sends in a behaviour
          MtCapacity,   \* capacity of the MT channel (64 in `start`)
          Faults,       \* what a dialog processor may do wrong
          IdleTimeouts, \* whether the idle timeout may expire
          None          \* "no such entry" / "nothing in hand"

ASSUME UserRouterAssumption ==
    /\ MaxMos \in Nat
    /\ MtCapacity \in Nat \ {0}
    /\ Faults \subseteq {"panic", "stop"}
    /\ IdleTimeouts \in BOOLEAN
    /\ None \notin Users \X (1 .. MaxMos)

\* The n-th MO of user u is <<u, n>>; a dialog is named after the MO that
\* opened it, so MOs and dialogs share their identifiers.
Mos     == Users \X (1 .. MaxMos)
Dialogs == Mos
Mts     == Dialogs \X Mos

Owner(d) == d[1]
DialogsOf(u) == {d \in Dialogs : Owner(d) = u}

VARIABLES
    sent,           \* sent[u]: how many MOs of u the routing task received
    routing,        \* where the routing task stands
    mo_in_route,    \* the MO the routing task is sending, or None
    mo_tx,          \* the channel it cloned from the map for that MO, or None
    per_user_mo_tx, \* the map: the routed dialog of each user, or None
    task,           \* where each dialog task stands
    mo_queue,       \* content of each dialog's MO channel
    mo_open,        \* whether each dialog's MO channel still accepts MOs
    in_hand,        \* the MO a dialog is working on, or None
    mt_queue,       \* content of the MT channel
    mt_open,        \* whether the MT channel still accepts MTs
    mos_remain,     \* the routing task's last count of queued MOs is not 0
    grace_elapsed,  \* the shutdown grace period is over
    delivered,      \* history: MTs taken by the gateway, in order
    refused_mos,    \* history: MOs refused by a closed MO channel
    refused_mts     \* history: MTs refused by the closed MT channel

routingVars == <<sent, routing, mo_in_route, mo_tx, mos_remain, grace_elapsed>>
channelVars == <<mo_queue, mo_open>>
mtVars      == <<mt_queue, mt_open, delivered>>
refusals    == <<refused_mos, refused_mts>>
vars == <<routingVars, per_user_mo_tx, task, channelVars, in_hand, mtVars,
          refusals>>

\* "poll" .. the routing loop; the other values are the shutdown sequence.
RoutingState == {"poll", "send", "count_mos", "check", "close_dialogs",
                 "close_mts", "done"}
\* A dialog task serves its user while it is in one of these states.
Serving   == {"created", "polling", "working"}
TaskState == Serving \cup {"absent", "idle", "stopping", "ending", "ended",
                           "panicked"}

TypeOK ==
    /\ sent \in [Users -> 0 .. MaxMos]
    /\ routing \in RoutingState
    /\ mo_in_route \in Mos \cup {None}
    /\ mo_tx \in Dialogs \cup {None}
    /\ per_user_mo_tx \in [Users -> Dialogs \cup {None}]
    /\ task \in [Dialogs -> TaskState]
    /\ mo_queue \in [Dialogs -> Seq(Mos)]
    /\ mo_open \in [Dialogs -> BOOLEAN]
    /\ in_hand \in [Dialogs -> Mos \cup {None}]
    /\ mt_queue \in Seq(Mts)
    /\ Len(mt_queue) <= MtCapacity
    /\ mt_open \in BOOLEAN
    /\ mos_remain \in BOOLEAN
    /\ grace_elapsed \in BOOLEAN
    /\ delivered \in Seq(Mts)
    /\ refused_mos \subseteq Mos
    /\ refused_mts \subseteq Mts

Init ==
    /\ sent = [u \in Users |-> 0]
    /\ routing = "poll"
    /\ mo_in_route = None
    /\ mo_tx = None
    /\ per_user_mo_tx = [u \in Users |-> None]
    /\ task = [d \in Dialogs |-> "absent"]
    /\ mo_queue = [d \in Dialogs |-> <<>>]
    /\ mo_open = [d \in Dialogs |-> FALSE]
    /\ in_hand = [d \in Dialogs |-> None]
    /\ mt_queue = <<>>
    /\ mt_open = TRUE
    /\ mos_remain = FALSE
    /\ grace_elapsed = FALSE
    /\ delivered = <<>>
    /\ refused_mos = {}
    /\ refused_mts = {}

-----------------------------------------------------------------------------
(* The routing task: route_mo.                                             *)

\* The critical section of route_mo on an occupied entry: clone the sender.
RouteToExisting(u) ==
    /\ per_user_mo_tx[u] # None
    /\ mo_tx' = per_user_mo_tx[u]
    /\ UNCHANGED <<per_user_mo_tx, task, mo_open>>

\* The map once the sender of a new channel is stored in it.
NotStored(u, mo)  == per_user_mo_tx \* (mutant: the entry is not inserted)
WithEntry(u, mo) == [per_user_mo_tx EXCEPT ![u] = mo]

\* The critical section of route_mo on a vacant entry: create the channel,
\* store its sender.
RouteToNew(u, mo) ==
    /\ per_user_mo_tx[u] = None
    /\ mo_tx' = mo
    /\ per_user_mo_tx' = WithEntry(u, mo)
    /\ task' = [task EXCEPT ![mo] = "created"]
    /\ mo_open' = [mo_open EXCEPT ![mo] = TRUE]

\* The loop receives the next MO of user u and looks the user's route up.
RouteMo(u) ==
    /\ routing = "poll"
    /\ sent[u] < MaxMos
    /\ sent' = [sent EXCEPT ![u] = @ + 1]
    /\ LET mo == <<u, sent[u] + 1>>
       IN  /\ mo_in_route' = mo
           /\ RouteToExisting(u) \/ RouteToNew(u, mo)
    /\ routing' = "send"
    /\ UNCHANGED <<mos_remain, grace_elapsed, mo_queue, in_hand, mtVars,
                   refusals>>

\* The channel that send_mo sends to, afterwards.
SentTwice(q) == q \o <<mo_in_route, mo_in_route>> \* (mutant)
SentAhead(q) == <<mo_in_route>> \o q              \* (mutant: not a FIFO)
SentUnlessNew(q) ==  \* (mutant: the MO that opens a dialog is not sent)
    IF task[mo_tx] = "created" THEN q ELSE Append(q, mo_in_route)
SentTo(q) == Append(q, mo_in_route)

\* send_mo, outside of the lock: a closed channel refuses the MO, which is
\* then dropped.  For a new dialog the task is spawned right after the send.
SendMo ==
    /\ routing = "send"
    /\ IF mo_open[mo_tx]
       THEN /\ mo_queue' = [mo_queue EXCEPT ![mo_tx] = SentTo(@)]
            /\ UNCHANGED refused_mos
       ELSE /\ refused_mos' = refused_mos \cup {mo_in_route}
            /\ UNCHANGED mo_queue
    /\ task' = IF task[mo_tx] = "created"
               THEN [task EXCEPT ![mo_tx] = "polling"]
               ELSE task
    /\ mo_in_route' = None
    /\ mo_tx' = None
    /\ routing' = "poll"
    /\ UNCHANGED <<sent, mos_remain, grace_elapsed, per_user_mo_tx, mo_open,
                   in_hand, mtVars, refused_mts>>

-----------------------------------------------------------------------------
(* The routing task: the shutdown sequence of `start`.                     *)

\* The gateway's MO stream ended: leave the loop.
EndOfMoStream ==
    /\ routing = "poll"
    /\ routing' = "count_mos"
    /\ UNCHANGED <<sent, mo_in_route, mo_tx, mos_remain, grace_elapsed,
                   per_user_mo_tx, task, channelVars, in_hand, mtVars,
                   refusals>>

\* Sum the lengths of the routed channels, under the lock.
CountMos ==
    /\ routing = "count_mos"
    /\ mos_remain' = (\E u \in Users : /\ per_user_mo_tx[u] # None
                                       /\ mo_queue[per_user_mo_tx[u]] # <<>>)
    /\ routing' = "check"
    /\ UNCHANGED <<sent, mo_in_route, mo_tx, grace_elapsed, per_user_mo_tx,
                   task, channelVars, in_hand, mtVars, refusals>>

\* Nothing is left to be processed, as far as the two counts tell.
NothingRemainsButMos == mt_queue = <<>> \* (mutant: queued MOs not counted)
NothingRemains == ~mos_remain /\ mt_queue = <<>>

\* The loop ends when nothing remains or when the grace period is over.
MayCloseWhenDrained == NothingRemains \* (mutant: no grace period)
MayClose == grace_elapsed \/ NothingRemains

\* Then look at the MT channel: go on waiting (one second), or close.
CheckRemaining ==
    /\ routing = "check"
    /\ routing' = IF MayClose
                  THEN "close_dialogs"
                  ELSE "count_mos"
    /\ UNCHANGED <<sent, mo_in_route, mo_tx, mos_remain, grace_elapsed,
                   per_user_mo_tx, task, channelVars, in_hand, mtVars,
                   refusals>>

\* The channels the shutdown closes: those the map holds a sender of.
NoneToClose == {} \* (mutant: nothing is closed)
RoutedDialogs == {d \in Dialogs : per_user_mo_tx[Owner(d)] = d}

\* Close every routed channel, under the lock; the map keeps its entries.
CloseDialogs ==
    /\ routing = "close_dialogs"
    /\ mo_open' = [d \in Dialogs |-> mo_open[d] /\ d \notin RoutedDialogs]
    /\ routing' = "close_mts"
    /\ UNCHANGED <<sent, mo_in_route, mo_tx, mos_remain, grace_elapsed,
                   per_user_mo_tx, task, mo_queue, in_hand, mtVars, refusals>>

CloseMtChannel ==
    /\ routing = "close_mts"
    /\ mt_open' = FALSE
    /\ routing' = "done"
    /\ UNCHANGED <<sent, mo_in_route, mo_tx, mos_remain, grace_elapsed,
                   per_user_mo_tx, task, channelVars, in_hand, mt_queue,
                   delivered, refusals>>

\* Time passes: shutdown_grace_period is over.
GracePeriodElapses ==
    /\ routing \in {"count_mos", "check"}
    /\ ~grace_elapsed
    /\ grace_elapsed' = TRUE
    /\ UNCHANGED <<sent, routing, mo_in_route, mo_tx, mos_remain,
                   per_user_mo_tx, task, channelVars, in_hand, mtVars,
                   refusals>>

-----------------------------------------------------------------------------
(* The dialog tasks.                                                       *)

\* The MT channel has room for one more MT.
MtRoomOffByOne == Len(mt_queue) <= MtCapacity \* (mutant: off by one)
MtRoom == Len(mt_queue) < MtCapacity

\* The dialog's channel yields an MO, even after it is closed.
HasMo(d) == mo_queue[d] # <<>>

\* The dialog's stream pulls an MO out of the channel (and the throttle or
\* the processor holds it); a closed channel still yields what it contains.
TakeMo(d) ==
    /\ task[d] = "polling"
    /\ HasMo(d)
    /\ in_hand' = [in_hand EXCEPT ![d] = Head(mo_queue[d])]
    /\ mo_queue' = [mo_queue EXCEPT ![d] = Tail(@)]
    /\ task' = [task EXCEPT ![d] = "working"]
    /\ UNCHANGED <<routingVars, per_user_mo_tx, mo_open, mtVars, refusals>>

\* The processor answers the MO with an MT, sent when the channel has room.
SendMt(d) ==
    /\ task[d] = "working"
    /\ mt_open
    /\ MtRoom
    /\ mt_queue' = Append(mt_queue, <<d, in_hand[d]>>)
    /\ in_hand' = [in_hand EXCEPT ![d] = None]
    /\ task' = [task EXCEPT ![d] = "polling"]
    /\ UNCHANGED <<routingVars, per_user_mo_tx, channelVars, mt_open,
                   delivered, refusals>>

\* The MT channel is closed: the MT is dropped, the dialog task goes on.
RefuseMt(d) ==
    /\ task[d] = "working"
    /\ ~mt_open
    /\ refused_mts' = refused_mts \cup {<<d, in_hand[d]>>}
    /\ in_hand' = [in_hand EXCEPT ![d] = None]
    /\ task' = [task EXCEPT ![d] = "polling"]
    /\ UNCHANGED <<routingVars, per_user_mo_tx, channelVars, mtVars,
                   refused_mos>>

\* (mutant: the channel is closed, the route stays)
CloseDialogKeepRoute(d) ==
    /\ mo_open' = [mo_open EXCEPT ![d] = FALSE]
    /\ UNCHANGED per_user_mo_tx

\* close_dialog: remove the user's entry, whichever channel it holds; close
\* the dialog's own channel if an entry was there.
CloseDialog(d) ==
    /\ per_user_mo_tx' = [per_user_mo_tx EXCEPT ![Owner(d)] = None]
    /\ mo_open' = [mo_open EXCEPT
                     ![d] = @ /\ per_user_mo_tx[Owner(d)] = None]

\* No MO came within dialog_processor_idle_timeout.
IdleTimeout(d) ==
    /\ IdleTimeouts
    /\ task[d] = "polling"
    /\ mo_open[d]
    /\ ~HasMo(d)
    /\ task' = [task EXCEPT ![d] = "idle"]
    /\ UNCHANGED <<routingVars, per_user_mo_tx, channelVars, in_hand, mtVars,
                   refusals>>

\* set_close_on_idle, on the timeout: close the dialog, end its stream.
CloseOnIdle(d) ==
    /\ task[d] = "idle"
    /\ CloseDialog(d)
    /\ task' = [task EXCEPT ![d] = "stopping"]
    /\ UNCHANGED <<routingVars, mo_queue, in_hand, mtVars, refusals>>

\* The MT stream ended -- after a timeout, because the MO channel is closed
\* and drained, or because the processor stopped -- and drops the receiver,
\* which closes the MO channel.
EndOfDialogStream(d) ==
    /\ \/ task[d] = "stopping"
       \/ task[d] = "polling" /\ ~mo_open[d] /\ ~HasMo(d)
       \/ task[d] = "polling" /\ "stop" \in Faults
    /\ mo_open' = [mo_open EXCEPT ![d] = FALSE]
    /\ task' = [task EXCEPT ![d] = "ending"]
    /\ UNCHANGED <<routingVars, per_user_mo_tx, mo_queue, in_hand, mtVars,
                   refusals>>

\* The last thing a dialog task does is to close its dialog.
CloseAtEnd(d) ==
    /\ task[d] = "ending"
    /\ CloseDialog(d)
    /\ task' = [task EXCEPT ![d] = "ended"]
    /\ UNCHANGED <<routingVars, mo_queue, in_hand, mtVars, refusals>>

\* The processor panics on an MO: tokio ends the task there, its receiver is
\* dropped, the code after the stream is never reached.
PanicDialog(d) ==
    /\ "panic" \in Faults
    /\ task[d] = "working"
    /\ task' = [task EXCEPT ![d] = "panicked"]
    /\ in_hand' = [in_hand EXCEPT ![d] = None]
    /\ mo_open' = [mo_open EXCEPT ![d] = FALSE]
    /\ UNCHANGED <<routingVars, per_user_mo_tx, mo_queue, mtVars, refusals>>

-----------------------------------------------------------------------------
\* The gateway takes an MT; a closed channel still yields what it contains.
ConsumeMt ==
    /\ mt_queue # <<>>
    /\ delivered' = Append(delivered, Head(mt_queue))
    /\ mt_queue' = Tail(mt_queue)
    /\ UNCHANGED <<routingVars, per_user_mo_tx, task, channelVars, in_hand,
                   mt_open, refusals>>

Finished(d) == task[d] \in {"absent", "ended", "panicked"}

\* Everything has stopped: the only states in which nothing happens any more.
Terminated ==
    /\ routing = "done"
    /\ \A d \in Dialogs : Finished(d)
    /\ mt_queue = <<>>
    /\ UNCHANGED vars

RoutingStep ==
    \/ \E u \in Users : RouteMo(u)
    \/ SendMo
    \/ EndOfMoStream
    \/ CountMos
    \/ CheckRemaining
    \/ CloseDialogs
    \/ CloseMtChannel

DialogStep(d) ==
    \/ TakeMo(d)
    \/ SendMt(d)
    \/ RefuseMt(d)
    \/ IdleTimeout(d)
    \/ CloseOnIdle(d)
    \/ EndOfDialogStream(d)
    \/ CloseAtEnd(d)
    \/ PanicDialog(d)

Next ==
    \/ RoutingStep
    \/ GracePeriodElapses
    \/ \E d \in Dialogs : DialogStep(d)
    \/ ConsumeMt
    \/ Terminated

Spec == Init /\ [][Next]_vars

\* The tokio scheduler runs every task that can run; the grace period elapses;
\* the gateway keeps taking MTs.  The idle timeout may be as long as one likes.
\* Users may stop writing, and nothing obliges the gateway's MO stream to end, so
\* RouteMo and EndOfMoStream get no fairness.
Fairness ==
    /\ WF_vars(SendMo)
    /\ WF_vars(CountMos)
    /\ WF_vars(CheckRemaining)
    /\ WF_vars(CloseDialogs)
    /\ WF_vars(CloseMtChannel)
    /\ WF_vars(GracePeriodElapses)
    /\ WF_vars(ConsumeMt)
    /\ \A d \in Dialogs :
          /\ WF_vars(TakeMo(d))
          /\ WF_vars(RefuseMt(d))
          /\ WF_vars(SendMt(d))
          /\ WF_vars(CloseOnIdle(d))
          /\ WF_vars(task[d] # "polling" /\ EndOfDialogStream(d))
          /\ WF_vars(~mo_open[d] /\ EndOfDialogStream(d))
          /\ WF_vars(CloseAtEnd(d))

FairSpec == Spec /\ Fairness
-----------------------------------------------------------------------------
(* Safety.                                                                 *)

\* What the dialogs have produced, in order: the MTs the gateway took, then
\* the MTs that wait in the channel.
Produced == delivered \o mt_queue

\* No MO is answered twice, not even when two dialogs of its user coexist
\* (see OneDialogPerUser) and not by a dialog that is being closed.
AnsweredOnce ==
    \A i, j \in 1 .. Len(Produced) :
        Produced[i][2] = Produced[j][2] => i = j

\* A dialog answers the MOs of its user in the order they were sent.
DialogAnswersInOrder ==
    \A i, j \in 1 .. Len(Produced) :
        /\ i < j
        /\ Produced[i][1] = Produced[j][1]
        => /\ Owner(Produced[i][2]) = Owner(Produced[j][2])
           /\ Produced[i][2][2] < Produced[j][2][2]

\* No dialog of user u has timed out, stopped or panicked so far.
Undisturbed(u) ==
    \A d \in DialogsOf(u) : task[d] \in Serving \cup {"absent"}

\* Whatever happens to the dialogs of the other users, and in the middle of
\* a shutdown, a user whose own dialog never stopped has a single dialog and
\* none of the user's MOs was refused.
UndisturbedUsersAreServed ==
    \A u \in Users : Undisturbed(u) =>
        /\ \A d, e \in DialogsOf(u) :
               task[d] # "absent" /\ task[e] # "absent" => d = e
        /\ \A mo \in refused_mos : Owner(mo) # u

\* What dialog d has still to answer: the MO it works on, then its channel.
Unanswered == [d \in Dialogs |-> IF in_hand[d] = None
                                 THEN mo_queue[d]
                                 ELSE <<in_hand[d]>> \o mo_queue[d]]

\* The places at which user u's MOs are, with the MO that is there: the answers,
\* the dialogs, the routing task's hands.
Pipeline(u) ==
    {<<1, i, Produced[i][2]>> : i \in {i \in 1 .. Len(Produced) : Owner(Produced[i][1]) = u}}
    \cup (UNION {{<<2, k, Unanswered[d][k]>> : k \in 1 .. Len(Unanswered[d])} : d \in DialogsOf(u)})
    \cup {<<3, 1, mo>> : mo \in {mo_in_route} \cap DialogsOf(u)}

Before(p, q) == p[1] < q[1] \/ (p[1] = q[1] /\ p[2] < q[2])

\* A user whose dialog never stopped, and none of whose MTs the shutdown refused.
Complete(u) == Undisturbed(u) /\ \A mt \in refused_mts : Owner(mt[1]) # u

\* Such a user's MOs are all in the pipeline, each once, in the order sent:
\* nothing is lost, duplicated or overtaken between the gateway's MO stream
\* and its MT stream.
UndisturbedUsersLoseNothing ==
    \A u \in Users : Complete(u) =>
        /\ {p[3] : p \in Pipeline(u)} = {<<u, n>> : n \in 1 .. sent[u]}
        /\ \A p, q \in Pipeline(u) :
              /\ Before(p, q) => p[3][2] < q[3][2]
              /\ p = q \/ Before(p, q) \/ Before(q, p)

\* No routed channel holds an MO.
RoutedChannelsAreEmpty ==
    \A u \in Users : \/ per_user_mo_tx[u] = None
                     \/ mo_queue[per_user_mo_tx[u]] = <<>>

\* The shutdown gives up the MOs queued in a routed channel only when the
\* grace period is over.
DrainedBeforeClosing ==
    routing \in {"close_dialogs", "close_mts", "done"} /\ ~grace_elapsed
    => RoutedChannelsAreEmpty

\* single_user_concurrency's comment: "only one dialog processor per user
\* will be created"; the module's: "using 1 MO stream per user".
OneDialogPerUser ==
    \A u \in Users : \A d, e \in DialogsOf(u) :
        task[d] \in Serving /\ task[e] \in Serving => d = e

\* The comment in `start`: "wait until all MTs are processed -- up until the
\* shutdown grace period".
NoMtLostBeforeGraceIsOver == refused_mts # {} => grace_elapsed

-----------------------------------------------------------------------------
(* Refinement.                                                             *)

\* The MOs a dialog accepted: received, not in the routing task's hands and
\* not refused.
Accepted == {mo \in Mos : /\ mo[2] <= sent[Owner(mo)]
                          /\ mo # mo_in_route
                          /\ mo \notin refused_mos}

Promise == INSTANCE DialogService
           WITH accepted <- Accepted, inbox <- Unanswered,
                outbox <- mt_queue, handed <- delivered, open <- mt_open

\* Each dialog answers the MOs it accepts at most once and in order, on a
\* bounded MT stream, whatever races the router runs into.
ImplementsDialogService == Promise!Spec

-----------------------------------------------------------------------------
(* The inductive invariant behind UndisturbedUsersAreServed and            *)
(* DrainedBeforeClosing: see UserRouterProofs.                             *)

\* An MO is in the routing task's hands exactly while it is being sent, and
\* in a dialog's hands exactly while the dialog works on it.
InHands ==
    /\ routing = "send" <=> mo_in_route # None
    /\ routing = "send" <=> mo_tx # None
    /\ \A d \in Dialogs : task[d] = "working" <=> in_hand[d] # None

\* Routes and senders lead to dialogs of the right user that were opened, and
\* only MOs that were received open dialogs.
RoutesAreSound ==
    /\ \A u \in Users : per_user_mo_tx[u] # None =>
           /\ Owner(per_user_mo_tx[u]) = u
           /\ task[per_user_mo_tx[u]] # "absent"
    /\ mo_tx # None =>
           /\ Owner(mo_tx) = Owner(mo_in_route)
           /\ task[mo_tx] # "absent"
    /\ \A d \in Dialogs : task[d] # "absent" => d[2] <= sent[Owner(d)]

\* The MO being sent is the last one of its user; the refused ones came before.
MosAreInOrder ==
    /\ mo_in_route # None => mo_in_route[2] = sent[Owner(mo_in_route)]
    /\ \A mo \in refused_mos : /\ mo[2] <= sent[Owner(mo)]
                               /\ mo # mo_in_route

\* The only dialog of an undisturbed user is the routed one, it is open until
\* the shutdown closes it, and an MO of the user is being sent to no other.
UndisturbedRoute(u) ==
    /\ \A d \in DialogsOf(u) : task[d] # "absent" =>
           /\ per_user_mo_tx[u] = d
           /\ mo_open[d] \/ routing \in {"close_mts", "done"}
    /\ mo_tx # None /\ Owner(mo_tx) = u => per_user_mo_tx[u] = mo_tx
    /\ \A mo \in refused_mos : Owner(mo) # u

\* Once the shutdown has counted no MO, none comes back.
CountIsFinal ==
    /\ routing = "check" /\ ~mos_remain => RoutedChannelsAreEmpty
    /\ DrainedBeforeClosing

RouterInv ==
    /\ TypeOK
    /\ InHands
    /\ RoutesAreSound
    /\ MosAreInOrder
    /\ \A u \in Users : Undisturbed(u) => UndisturbedRoute(u)
    /\ CountIsFinal

-----------------------------------------------------------------------------
(* Liveness.                                                               *)

\* The end of the MO stream leads to the end of the MT stream, whatever the
\* dialogs are doing.
ShutdownCompletes == routing = "count_mos" ~> routing = "done"

\* After the shutdown every dialog that had a route ends, without the help of an
\* idle timeout: none is left behind waiting for an MO or for room in the MT
\* channel.
DialogsEnd ==
    \A d \in Dialogs :
        routing = "done" /\ per_user_mo_tx[Owner(d)] = d ~> Finished(d)

\* A dialog that stopped serving does not keep its user's route for ever:
\* otherwise every later MO of the user would be refused.
DeadRoutesAreRemoved ==
    \A d \in Dialogs :
        (per_user_mo_tx[Owner(d)] = d /\ task[d] \notin Serving)
        ~> per_user_mo_tx[Owner(d)] # d

\* The same for the dialogs that did not panic, which is what the code does.
EndedRoutesAreRemoved ==
    \A d \in Dialogs :
        (/\ per_user_mo_tx[Owner(d)] = d
         /\ task[d] \notin Serving \cup {"panicked"})
        ~> per_user_mo_tx[Owner(d)] # d

\* What became of an MO: its MT was taken or refused, it was refused itself,
\* it was left in the channel of a dialog that is over, or a dialog of its user
\* panicked (on it, perhaps).
Settled(mo) ==
    \/ \E i \in 1 .. Len(delivered) : delivered[i][2] = mo
    \/ \E mt \in refused_mts : mt[2] = mo
    \/ mo \in refused_mos
    \/ \E d \in DialogsOf(Owner(mo)) :
           /\ Finished(d)
           /\ \E i \in 1 .. Len(mo_queue[d]) : mo_queue[d][i] = mo
    \/ \E d \in DialogsOf(Owner(mo)) : task[d] = "panicked"

\* No MO is stuck half way: each one that was received is settled in the end.
MosSettle ==
    \A mo \in Mos : mo[2] <= sent[Owner(mo)] ~> Settled(mo)
=============================================================================

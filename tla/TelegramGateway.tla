--------------------------- MODULE TelegramGateway --------------------------
(***************************************************************************)
(* The gateway to Telegram,                                                *)
(* src/src/messaging/gateways/telegram_gateway.rs, around the router.      *)
(*                                                                         *)
(* The event loop (teloxide, external) hands updates to the handlers, one  *)
(* at a time per chat; a handler puts its update on a bounded channel of   *)
(* MOs, from which the router takes them.  The MTs of the router are       *)
(* futures that one task runs, a few at a time.  Of the router only its    *)
(* promise is used here, DialogService, which UserRouter implements.       *)
(*                                                                         *)
(* Updates are named like the MOs they become: <<u, n>> is the n-th of     *)
(* user u.  A chat is taken for its user.                                  *)
(***************************************************************************)
EXTENDS Integers, Sequences, FiniteSets, SequencesExt

CONSTANTS Users, MaxMos, MtCapacity,
          MoCapacity,  \* of the MO channel: 64 in the code
          Concurrency, \* all_users_mt_concurrency: 4 in the code
          Unmapped,    \* the updates map_mo makes no MO of
          Callers,     \* the tasks that call await_termination
          Faults,      \* {"mt_panics"}, or {}
          None

Updates == Users \X (1 .. MaxMos)

ASSUME GatewayAssumption ==
    /\ MaxMos \in Nat \ {0}
    /\ {MtCapacity, MoCapacity, Concurrency} \subseteq Nat \ {0}
    /\ Unmapped \subseteq Updates
    /\ Faults \subseteq {"mt_panics"}
    /\ None \notin Callers

VARIABLES
    event_loop, \* the task that runs the dispatcher of teloxide
    received,   \* how many updates of each user came in
    worker,     \* the updates of each chat that wait for their handler
    mo_channel, \* content of the channel of teloxide_mo_producer
    mo_open,    \* FALSE once that channel was closed
    given_back, \* updates whose handler returned an error
    routed,     \* updates that left the MO channel
    started,    \* TRUE once `new` returned
    sending,    \* MTs whose future the MT task runs
    mt_task,    \* "running", "over" or "panicked"
    handle,     \* TRUE while join_handle holds the handle of the MT task
    lock,       \* the caller that holds the lock of join_handle, or None
    caller,     \* where each call of await_termination stands
    accepted, inbox, outbox, handed, open  \* the router: see DialogService

Router == INSTANCE DialogService

intakeVars == <<event_loop, received, worker, mo_channel, mo_open, given_back>>
joinVars   == <<handle, lock, caller>>
mtVars     == <<sending, mt_task>>
routerVars == <<accepted, inbox, outbox, handed, open>>
vars == <<intakeVars, routed, started, mtVars, joinVars, routerVars>>

TypeOK ==
    /\ event_loop \in {"starting", "running", "stopping", "over"}
    /\ received \in [Users -> 0 .. MaxMos]
    /\ worker \in [Users -> Seq(Updates)]
    /\ mo_channel \in Seq(Updates)
    /\ Len(mo_channel) <= MoCapacity
    /\ {mo_open, started, handle, open} \subseteq BOOLEAN
    /\ {given_back, routed, accepted} \subseteq SUBSET Updates
    /\ sending \subseteq Updates \X Updates
    /\ mt_task \in {"running", "over", "panicked"}
    /\ lock \in Callers \cup {None}
    /\ caller \in [Callers -> {"none", "joining", "joined", "failed", "too_late"}]
    /\ inbox \in [Updates -> Seq(Updates)]
    /\ {outbox, handed} \subseteq Seq(Updates \X Updates)

\* `new`, up to the spawn of the event loop.
Init ==
    /\ event_loop = "starting"
    /\ received = [u \in Users |-> 0]
    /\ worker = [u \in Users |-> <<>>]
    /\ mo_channel = <<>>
    /\ mo_open = TRUE
    /\ given_back = {}
    /\ routed = {}
    /\ started = FALSE
    /\ sending = {}
    /\ mt_task = "running"
    /\ handle = FALSE
    /\ lock = None
    /\ caller = [c \in Callers |-> "none"]
    /\ Router!Init

\* `new`, the rest: the router and the MT task are started, the handle kept.
FinishNew ==
    /\ ~started
    /\ started' = TRUE
    /\ handle' = TRUE
    /\ UNCHANGED <<intakeVars, routed, mtVars, lock, caller, routerVars>>

-----------------------------------------------------------------------------
(* The event loop and the handlers.                                        *)

StartEventLoop ==
    /\ event_loop = "starting"
    /\ event_loop' = "running"
    /\ UNCHANGED <<received, worker, mo_channel, mo_open, given_back, routed,
                   started, mtVars, joinVars, routerVars>>

\* Telegram delivers an update (external).
ReceiveUpdate(u) ==
    /\ event_loop = "running"
    /\ received[u] < MaxMos
    /\ received' = [received EXCEPT ![u] = @ + 1]
    /\ worker' = [worker EXCEPT ![u] = Append(@, <<u, received[u] + 1>>)]
    /\ UNCHANGED <<event_loop, mo_channel, mo_open, given_back, routed, started,
                   mtVars, joinVars, routerVars>>

\* handler and on_callback: send(..).await waits while the channel is full, and
\* fails (the update is given back with RetryAfter) only if it is closed.
HasRoom == Len(mo_channel) < MoCapacity
NeverWaits == TRUE \* (mutant: try_send)
SendReturns == HasRoom \/ ~mo_open

HandleUpdate(u) ==
    /\ worker[u] # <<>>
    /\ SendReturns
    /\ IF mo_open /\ HasRoom
       THEN /\ mo_channel' = Append(mo_channel, Head(worker[u]))
            /\ UNCHANGED given_back
       ELSE /\ given_back' = given_back \cup {Head(worker[u])}
            /\ UNCHANGED mo_channel
    /\ worker' = [worker EXCEPT ![u] = Tail(@)]
    /\ UNCHANGED <<event_loop, received, mo_open, routed, started, mtVars,
                   joinVars, routerVars>>

\* CTRL-C: the dispatcher takes no more updates (external).
StopEventLoop ==
    /\ event_loop = "running"
    /\ event_loop' = "stopping"
    /\ UNCHANGED <<received, worker, mo_channel, mo_open, given_back, routed,
                   started, mtVars, joinVars, routerVars>>

\* The webhook could not be set up, or the dispatcher has returned, which it
\* does when its workers are done.
StoppedEarly == event_loop \in {"starting", "stopping"} \* (mutant: not awaited)
LoopReturned ==
    \/ event_loop = "starting"
    \/ event_loop = "stopping" /\ \A u \in Users : worker[u] = <<>>

\* The event loop task ends: it closes the MO channel, of which the gateway
\* itself keeps a sender.
StaysOpen    == mo_open \* (mutant)
ProducerOpen == FALSE

EndEventLoop ==
    /\ LoopReturned
    /\ event_loop' = "over"
    /\ mo_open' = ProducerOpen
    /\ UNCHANGED <<received, worker, mo_channel, given_back, routed, started,
                   mtVars, joinVars, routerVars>>

-----------------------------------------------------------------------------
(* The stream of MOs the router takes, and the MTs it gives.               *)

\* The routing task takes MOs whatever the MTs do: it spawns the dialogs, whose
\* channels are unbounded.
AwaitsTheMts == outbox = <<>> /\ sending = {} \* (mutant: it does not spawn them)
RouterReady  == TRUE

\* get_mo_stream skips what is not an MO.  The router may lose an MO.
RouteUpdate ==
    /\ started
    /\ mo_channel # <<>>
    /\ RouterReady
    /\ LET update == Head(mo_channel)
       IN  /\ routed' = routed \cup {update}
           /\ \/ /\ update \notin Unmapped
                 /\ \E d \in Router!Dialogs : Router!Accept(d, update)
              \/ UNCHANGED routerVars
    /\ mo_channel' = Tail(mo_channel)
    /\ UNCHANGED <<event_loop, received, worker, mo_open, given_back, started,
                   mtVars, joinVars>>

\* A dialog answers, or leaves an MO unanswered.
Converse(d) ==
    /\ Router!Answer(d) \/ Router!LeaveUnanswered(d)
    /\ UNCHANGED <<intakeVars, routed, started, mtVars, joinVars>>

\* The stream of MOs has ended: after the grace period, the router closes the
\* MT channel.
CloseRouter ==
    /\ started
    /\ ~mo_open
    /\ mo_channel = <<>>
    /\ Router!Close
    /\ UNCHANGED <<intakeVars, routed, started, mtVars, joinVars>>

\* consume_mt_stream: the MT task takes one more MT to run.
TakeMt ==
    /\ started
    /\ mt_task = "running"
    /\ Cardinality(sending) < Concurrency
    /\ outbox # <<>>
    /\ sending' = sending \cup {Head(outbox)}
    /\ Router!Deliver
    /\ UNCHANGED <<intakeVars, routed, started, mt_task, joinVars>>

\* The future of an MT ends, sent or failed (which is logged).
FinishMt(mt) ==
    /\ mt \in sending
    /\ sending' = sending \ {mt}
    /\ UNCHANGED <<intakeVars, routed, started, mt_task, joinVars, routerVars>>

\* A future panics: the MT task goes with the futures it ran.
PanicMt ==
    /\ "mt_panics" \in Faults
    /\ sending # {}
    /\ mt_task' = "panicked"
    /\ sending' = {}
    /\ UNCHANGED <<intakeVars, routed, started, joinVars, routerVars>>

\* The stream of MTs has ended, and so have the futures.
StreamIsOver == ~open /\ outbox = <<>> \* (mutant: the futures are spawned)
AllSent      == ~open /\ outbox = <<>> /\ sending = {}

EndMtTask ==
    /\ started
    /\ mt_task = "running"
    /\ AllSent
    /\ mt_task' = "over"
    /\ UNCHANGED <<intakeVars, routed, started, sending, joinVars, routerVars>>

-----------------------------------------------------------------------------
(* await_termination.                                                      *)

\* The guard of the lock is a temporary of the `match`: it lives as long.
UnlocksFirst(c)     == None \* (mutant: the handle is taken in a `let` before)
LockWhileJoining(c) == c

TakeHandle(c) ==
    /\ started
    /\ caller[c] = "none"
    /\ lock = None
    /\ handle
    /\ handle' = FALSE
    /\ lock' = LockWhileJoining(c)
    /\ caller' = [caller EXCEPT ![c] = "joining"]
    /\ UNCHANGED <<intakeVars, routed, started, mtVars, routerVars>>

\* "MT task didn't start yet or has already finished"
FindNoHandle(c) ==
    /\ started
    /\ caller[c] = "none"
    /\ lock = None
    /\ ~handle
    /\ caller' = [caller EXCEPT ![c] = "too_late"]
    /\ UNCHANGED <<intakeVars, routed, started, mtVars, handle, lock, routerVars>>

JoinMtTask(c) ==
    /\ caller[c] = "joining"
    /\ mt_task # "running"
    /\ caller' = [caller EXCEPT ![c] = IF mt_task = "over" THEN "joined"
                                       ELSE "failed"]
    /\ lock' = None
    /\ UNCHANGED <<intakeVars, routed, started, mtVars, handle, routerVars>>

-----------------------------------------------------------------------------
\* Every call has returned and the router is closed: the program exits.
Terminated ==
    /\ \A c \in Callers : caller[c] \notin {"none", "joining"}
    /\ ~open
    /\ UNCHANGED vars

Intake ==
    \/ StartEventLoop
    \/ \E u \in Users : ReceiveUpdate(u) \/ HandleUpdate(u)
    \/ StopEventLoop
    \/ EndEventLoop

Output ==
    \/ RouteUpdate
    \/ \E d \in Router!Dialogs : Converse(d)
    \/ CloseRouter
    \/ TakeMt
    \/ \E mt \in sending : FinishMt(mt)
    \/ PanicMt
    \/ EndMtTask

Joining == \E c \in Callers : TakeHandle(c) \/ FindNoHandle(c) \/ JoinMtTask(c)

Next ==
    \/ FinishNew
    \/ Intake
    \/ Output
    \/ Joining
    \/ Terminated

Spec == Init /\ [][Next]_vars

\* The tasks that can run do, and somebody awaits the end.  The dialogs may stop
\* and a send may hang: no fairness on Converse and FinishMt.
Fairness ==
    /\ WF_vars(FinishNew)
    /\ \A u \in Users : WF_vars(HandleUpdate(u))
    /\ WF_vars(event_loop = "stopping" /\ EndEventLoop)
    /\ WF_vars(RouteUpdate)
    /\ WF_vars(CloseRouter)
    /\ WF_vars(TakeMt)
    /\ WF_vars(EndMtTask)
    /\ \A c \in Callers : WF_vars(TakeHandle(c) \/ FindNoHandle(c) \/ JoinMtTask(c))

FairSpec == Spec /\ Fairness

-----------------------------------------------------------------------------
(* Safety.                                                                 *)

\* How many updates of a user the handlers are done with.
Handled(u) == received[u] - Len(worker[u])

\* What waits for a handler are the last updates that came in, in order.
WaitInOrder(u) ==
    /\ Len(worker[u]) <= received[u]
    /\ \A i \in DOMAIN worker[u] : worker[u][i] = <<u, Handled(u) + i>>

\* Those before them were routed or are in the channel.
NoneIsMissing(u) ==
    \A n \in 1 .. MaxMos :
       <<u, n>> \in routed \cup ToSet(mo_channel) <=> n <= Handled(u)

ChannelIsInOrder ==
    \A i \in DOMAIN mo_channel :
       \A update \in routed \cup {mo_channel[j] : j \in 1 .. (i - 1)} :
          update[1] = mo_channel[i][1] => update[2] < mo_channel[i][2]

\* What came in is routed, in the channel or with its handler, in the order in
\* which it came in, each update once: none is lost, repeated or given back, not
\* even at the shutdown.
UpdatesAreInTransit ==
    /\ given_back = {}
    /\ \A u \in Users : WaitInOrder(u) /\ NoneIsMissing(u)
    /\ ChannelIsInOrder

\* The channel is closed at the end of the event loop and by nobody else, and no
\* handler has an update then.
WorkersEndFirst ==
    /\ mo_open <=> event_loop # "over"
    /\ event_loop \in {"starting", "over"} => \A u \in Users : worker[u] = <<>>

\* The MT task runs each of the MTs it took, a few at a time, and the channel
\* it takes them from ends for good.
MtsAreCounted ==
    /\ IsFiniteSet(sending) /\ Cardinality(sending) <= Concurrency
    /\ sending \subseteq ToSet(handed)
    /\ ~open => ~mo_open /\ mo_channel = <<>>
    /\ mt_task = "over" => ~open /\ outbox = <<>> /\ sending = {}

\* Where the handle of the MT task is, and what a call that returned can tell.
HandleIsOwned ==
    /\ IF started THEN handle <=> \A c \in Callers : caller[c] = "none"
                  ELSE \A c \in Callers : caller[c] = "none"
    /\ \A c \in Callers :
          /\ caller[c] = "joining" <=> lock = c
          /\ caller[c] \in {"joined", "failed", "too_late"} => mt_task # "running"
          /\ caller[c] = "joined" => mt_task = "over"

GatewayInv ==
    /\ TypeOK
    /\ UpdatesAreInTransit
    /\ WorkersEndFirst
    /\ MtsAreCounted
    /\ HandleIsOwned

\* When await_termination returns Ok the program may exit: every update that
\* ever came in was offered to the router, and no MT waits or is being sent.
TerminationIsComplete ==
    (\E c \in Callers : caller[c] = "joined") =>
        /\ outbox = <<>> /\ sending = {}
        /\ \A u \in Users, n \in 1 .. MaxMos : n <= received[u] => <<u, n>> \in routed

\* A caller that is told that the MT task "has already finished" is told so
\* when it has, not while another caller waits for it.
TooLateMeansOver ==
    \A c \in Callers : caller[c] = "too_late" => mt_task # "running"

-----------------------------------------------------------------------------
(* Liveness.                                                               *)

\* No handler waits for ever, even if no send of an MT ever ends: the router
\* takes MOs whatever becomes of the MTs.
IntakeNeverBlocks == \A u \in Users : worker[u] # <<>> ~> worker[u] = <<>>

\* After CTRL-C every call of await_termination returns, if no send hangs.
SendsEnd == <>[](sending = {})
ShutdownReturns ==
    SendsEnd => (event_loop = "stopping" ~>
                 \A c \in Callers : caller[c] \in {"joined", "failed", "too_late"})

\* "On error -- meaning the channel is full -- we instruct Telegram to try
\* again": a handler that meets a full channel gives its update back.
FullChannelGivesBack ==
    \A update \in Updates :
        (/\ worker[update[1]] # <<>> /\ Head(worker[update[1]]) = update
         /\ ~HasRoom)
        ~> update \in given_back
=============================================================================

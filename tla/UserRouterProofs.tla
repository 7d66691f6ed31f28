-------------------------- MODULE UserRouterProofs --------------------------
(***************************************************************************)
(* What TLAPS proves of the router, for every set of users, every number   *)
(* of MOs, every capacity, with or without idle timeouts and faults: its   *)
(* invariant, that it implements DialogService, and what follows from that *)
(* for the order of the answers and for users whose dialogs never stopped. *)
(***************************************************************************)
EXTENDS UserRouter, SequenceTheorems, TLAPS

-----------------------------------------------------------------------------
(* The invariant of the router.                                            *)

LEMMA InitRouterInv == Init => RouterInv
<1> SUFFICES ASSUME Init PROVE RouterInv
  OBVIOUS
<1> USE UserRouterAssumption DEF UserRouterAssumption, Init
<1>1. TypeOK
  <2>1. mo_queue \in [Dialogs -> Seq(Mos)]
    OBVIOUS
  <2>2. mt_queue \in Seq(Mts) /\ Len(mt_queue) <= MtCapacity
    OBVIOUS
  <2>3. delivered \in Seq(Mts)
    OBVIOUS
  <2>4. sent \in [Users -> 0 .. MaxMos]
    OBVIOUS
  <2>5. task \in [Dialogs -> TaskState]
    BY DEF TaskState
  <2>6. /\ per_user_mo_tx \in [Users -> Dialogs \cup {None}]
        /\ in_hand \in [Dialogs -> Mos \cup {None}]
        /\ mo_open \in [Dialogs -> BOOLEAN]
    OBVIOUS
  <2>7. /\ routing \in RoutingState
        /\ mo_in_route \in Mos \cup {None}
        /\ mo_tx \in Dialogs \cup {None}
        /\ mt_open \in BOOLEAN
        /\ mos_remain \in BOOLEAN
        /\ grace_elapsed \in BOOLEAN
        /\ refused_mos \subseteq Mos
        /\ refused_mts \subseteq Mts
    BY DEF RoutingState
  <2>8. QED
    BY <2>1, <2>2, <2>3, <2>4, <2>5, <2>6, <2>7 DEF TypeOK
<1>2. InHands
  BY DEF InHands
<1>3. RoutesAreSound
  BY DEF RoutesAreSound
<1>4. MosAreInOrder
  BY DEF MosAreInOrder
<1>5. \A u \in Users : UndisturbedRoute(u)
  BY DEF UndisturbedRoute, DialogsOf
<1>6. CountIsFinal
  BY DEF CountIsFinal, DrainedBeforeClosing
<1>7. QED
  BY <1>1, <1>2, <1>3, <1>4, <1>5, <1>6 DEF RouterInv

\* Every step keeps every variable in its type; that an MO or an MT is at
\* hand where the actions use one is what InHands adds.
LEMMA TypeStep == TypeOK /\ InHands /\ [Next]_vars => TypeOK'
<1> SUFFICES ASSUME TypeOK, InHands, [Next]_vars PROVE TypeOK'
  OBVIOUS
<1> USE UserRouterAssumption DEF UserRouterAssumption, TypeOK, routingVars,
        channelVars, mtVars, refusals
<1>1. ASSUME NEW u \in Users, RouteMo(u) PROVE TypeOK'
  <2>1. <<u, sent[u] + 1>> \in Mos
    BY <1>1 DEF RouteMo, Mos
  <2>2. sent' \in [Users -> 0 .. MaxMos]
    BY <1>1 DEF RouteMo
  <2>3. CASE RouteToExisting(u)
    BY <1>1, <2>1, <2>2, <2>3 DEF RouteMo, RouteToExisting, RoutingState
  <2>4. CASE RouteToNew(u, <<u, sent[u] + 1>>)
    <3>1. /\ mo_tx' \in Dialogs
          /\ per_user_mo_tx' \in [Users -> Dialogs \cup {None}]
          /\ task' \in [Dialogs -> TaskState]
          /\ mo_open' \in [Dialogs -> BOOLEAN]
      BY <2>1, <2>4 DEF RouteToNew, WithEntry, Dialogs, TaskState, Serving
    <3>2. QED
      BY <1>1, <2>1, <2>2, <3>1 DEF RouteMo, RoutingState
  <2>5. QED
    BY <1>1, <2>3, <2>4 DEF RouteMo
<1>2. CASE SendMo
  <2>1. mo_in_route \in Mos /\ mo_tx \in Dialogs
    BY <1>2 DEF SendMo, SentTo, InHands
  <2>2. Append(mo_queue[mo_tx], mo_in_route) \in Seq(Mos)
    BY <2>1
  <2>3. mo_queue' \in [Dialogs -> Seq(Mos)]
    BY <1>2, <2>1, <2>2 DEF SendMo, SentTo
  <2>4. task' \in [Dialogs -> TaskState]
    BY <1>2 DEF SendMo, SentTo, TaskState, Serving
  <2>5. QED
    BY <1>2, <2>1, <2>3, <2>4 DEF SendMo, SentTo, RoutingState
<1>3. CASE EndOfMoStream
  BY <1>3 DEF EndOfMoStream, RoutingState
<1>4. CASE CountMos
  BY <1>4 DEF CountMos, RoutingState
<1>5. CASE CheckRemaining
  BY <1>5 DEF CheckRemaining, RoutingState
<1>6. CASE CloseDialogs
  BY <1>6 DEF CloseDialogs, RoutingState
<1>7. CASE CloseMtChannel
  BY <1>7 DEF CloseMtChannel, RoutingState
<1>8. CASE GracePeriodElapses
  BY <1>8 DEF GracePeriodElapses
<1>9. ASSUME NEW d \in Dialogs, TakeMo(d) PROVE TypeOK'
  BY <1>9 DEF TakeMo, HasMo, TaskState, Serving
<1>10. ASSUME NEW d \in Dialogs, SendMt(d) PROVE TypeOK'
  <2>1. <<d, in_hand[d]>> \in Mts
    BY <1>10 DEF SendMt, InHands, Mts
  <2>2. Append(mt_queue, <<d, in_hand[d]>>) \in Seq(Mts)
    BY <2>1
  <2>3. Len(Append(mt_queue, <<d, in_hand[d]>>)) <= MtCapacity
    BY <1>10, <2>1 DEF SendMt, MtRoom
  <2>4. QED
    BY <1>10, <2>2, <2>3 DEF SendMt, TaskState, Serving
<1>11. ASSUME NEW d \in Dialogs, RefuseMt(d) PROVE TypeOK'
  <2>1. <<d, in_hand[d]>> \in Mts
    BY <1>11 DEF RefuseMt, InHands, Mts
  <2>2. QED
    BY <1>11, <2>1 DEF RefuseMt, TaskState, Serving
<1>12. ASSUME NEW d \in Dialogs, IdleTimeout(d) PROVE TypeOK'
  BY <1>12 DEF IdleTimeout, TaskState, Serving
<1>13. ASSUME NEW d \in Dialogs, CloseOnIdle(d) PROVE TypeOK'
  BY <1>13 DEF CloseOnIdle, CloseDialog, TaskState, Serving
<1>14. ASSUME NEW d \in Dialogs, EndOfDialogStream(d) PROVE TypeOK'
  BY <1>14 DEF EndOfDialogStream, TaskState, Serving
<1>15. ASSUME NEW d \in Dialogs, CloseAtEnd(d) PROVE TypeOK'
  BY <1>15 DEF CloseAtEnd, CloseDialog, TaskState, Serving
<1>16. ASSUME NEW d \in Dialogs, PanicDialog(d) PROVE TypeOK'
  BY <1>16 DEF PanicDialog, TaskState, Serving
<1>17. CASE ConsumeMt
  <2>1. /\ Head(mt_queue) \in Mts
        /\ Tail(mt_queue) \in Seq(Mts)
        /\ Len(Tail(mt_queue)) <= MtCapacity
    BY <1>17 DEF ConsumeMt
  <2>2. Append(delivered, Head(mt_queue)) \in Seq(Mts)
    BY <2>1
  <2>3. QED
    BY <1>17, <2>1, <2>2 DEF ConsumeMt
<1>18. CASE Terminated \/ UNCHANGED vars
  BY <1>18 DEF Terminated, vars
<1>19. QED
  BY <1>1, <1>2, <1>3, <1>4, <1>5, <1>6, <1>7, <1>8, <1>9, <1>10, <1>11,
     <1>12, <1>13, <1>14, <1>15, <1>16, <1>17, <1>18
     DEF Next, RoutingStep, DialogStep

\* The routing task and the dialogs hold an MO exactly in the states InHands
\* says: each step that enters or leaves such a state moves the MO with it.
LEMMA InHandsStep ==
    TypeOK /\ InHands /\ RoutesAreSound /\ [Next]_vars => InHands'
<1> SUFFICES ASSUME TypeOK, InHands, RoutesAreSound, [Next]_vars
             PROVE  InHands'
  OBVIOUS
<1> USE UserRouterAssumption DEF UserRouterAssumption, TypeOK, InHands,
        routingVars, channelVars, mtVars, refusals
<1>1. ASSUME NEW u \in Users, RouteMo(u) PROVE InHands'
  <2>1. <<u, sent[u] + 1>> \in Mos
    BY <1>1 DEF RouteMo, Mos
  <2>2. mo_in_route' # None /\ mo_tx' # None
    BY <1>1, <2>1 DEF RouteMo, RouteToExisting, RouteToNew, WithEntry, Mos
  <2>3. \A d \in Dialogs : task'[d] = "working" <=> in_hand'[d] # None
    <3>1. CASE RouteToExisting(u)
      BY <1>1, <3>1 DEF RouteMo, RouteToExisting
    <3>2. CASE RouteToNew(u, <<u, sent[u] + 1>>)
      <4>1. task[<<u, sent[u] + 1>>] = "absent"
        BY <2>1 DEF RoutesAreSound, Owner, Dialogs
      <4>2. QED
        BY <1>1, <2>1, <3>2, <4>1 DEF RouteMo, RouteToNew, WithEntry
    <3>3. QED
      BY <1>1, <3>1, <3>2 DEF RouteMo
  <2>4. QED
    BY <1>1, <2>2, <2>3 DEF RouteMo
<1>2. CASE SendMo
  BY <1>2 DEF SendMo, SentTo
<1>3. CASE EndOfMoStream \/ CountMos \/ CheckRemaining \/ CloseDialogs
           \/ CloseMtChannel \/ GracePeriodElapses
  BY <1>3 DEF EndOfMoStream, CountMos, CheckRemaining, CloseDialogs,
              CloseMtChannel, GracePeriodElapses
<1>4. ASSUME NEW d \in Dialogs, TakeMo(d) PROVE InHands'
  <2>1. Head(mo_queue[d]) \in Mos
    BY <1>4 DEF TakeMo, HasMo
  <2>2. QED
    BY <1>4, <2>1 DEF TakeMo, HasMo, Mos
<1>5. ASSUME NEW d \in Dialogs,
             SendMt(d) \/ RefuseMt(d) \/ PanicDialog(d)
      PROVE  InHands'
  <2>1. CASE SendMt(d)
    BY <2>1 DEF SendMt
  <2>2. CASE RefuseMt(d)
    BY <2>2 DEF RefuseMt
  <2>3. CASE PanicDialog(d)
    BY <2>3 DEF PanicDialog
  <2>4. QED
    BY <1>5, <2>1, <2>2, <2>3
<1>6. ASSUME NEW d \in Dialogs,
             IdleTimeout(d) \/ CloseOnIdle(d) \/ EndOfDialogStream(d)
             \/ CloseAtEnd(d)
      PROVE  InHands'
  BY <1>6 DEF IdleTimeout, CloseOnIdle, EndOfDialogStream, CloseAtEnd,
              CloseDialog
<1>7. CASE ConsumeMt \/ Terminated \/ UNCHANGED vars
  BY <1>7 DEF ConsumeMt, Terminated, vars
<1>8. QED
  BY <1>1, <1>2, <1>3, <1>4, <1>5, <1>6, <1>7
     DEF Next, RoutingStep, DialogStep

\* Routes lead to dialogs that were opened, for the right user: the map only
\* ever gets the name of a dialog it opens, and loses entries otherwise.
LEMMA RoutesStep ==
    TypeOK /\ InHands /\ RoutesAreSound /\ [Next]_vars => RoutesAreSound'
<1> SUFFICES ASSUME TypeOK, InHands, RoutesAreSound, [Next]_vars
             PROVE  RoutesAreSound'
  OBVIOUS
<1> USE UserRouterAssumption DEF UserRouterAssumption, TypeOK, RoutesAreSound,
        routingVars, channelVars, mtVars, refusals
<1>1. ASSUME NEW u \in Users, RouteMo(u) PROVE RoutesAreSound'
  <2> DEFINE mo == <<u, sent[u] + 1>>
  <2>1. mo \in Mos /\ Owner(mo) = u /\ mo[2] = sent[u] + 1 /\ mo # None
    BY <1>1 DEF RouteMo, Mos, Owner
  <2>2. \A v \in Users : sent[v] <= sent'[v]
    BY <1>1 DEF RouteMo
  <2>3. CASE RouteToExisting(u)
    <3>1. \A d \in Dialogs : task'[d] # "absent" => d[2] <= sent'[Owner(d)]
      BY <1>1, <2>2, <2>3 DEF RouteMo, RouteToExisting, Owner, Dialogs, Mos
    <3>2. QED
      BY <1>1, <2>1, <2>3, <3>1 DEF RouteMo, RouteToExisting
  <2>4. CASE RouteToNew(u, mo)
    <3>1. task' = [task EXCEPT ![mo] = "created"] /\ mo_tx' = mo
          /\ per_user_mo_tx' = [per_user_mo_tx EXCEPT ![u] = mo]
          /\ mo_in_route' = mo
          /\ sent' = [sent EXCEPT ![u] = @ + 1]
      BY <1>1, <2>4 DEF RouteToNew, WithEntry, RouteMo
    <3> HIDE DEF mo
    <3>2. \A d \in Dialogs : task'[d] # "absent" => d[2] <= sent'[Owner(d)]
      <4> TAKE d \in Dialogs
      <4>1. CASE d = mo
        BY <2>1, <3>1, <4>1
      <4>2. CASE d # mo
        BY <2>2, <3>1, <4>2 DEF Owner, Dialogs, Mos
      <4>3. QED
        BY <4>1, <4>2
    <3>3. \A v \in Users : per_user_mo_tx'[v] # None =>
              /\ Owner(per_user_mo_tx'[v]) = v
              /\ task'[per_user_mo_tx'[v]] # "absent"
      BY <2>1, <3>1 DEF Dialogs
    <3>4. QED
      BY <2>1, <3>1, <3>2, <3>3 DEF Dialogs
  <2>5. QED
    BY <1>1, <2>3, <2>4 DEF RouteMo
<1>2. CASE SendMo
  BY <1>2 DEF SendMo, SentTo
<1>3. CASE EndOfMoStream \/ CountMos \/ CheckRemaining \/ CloseDialogs
           \/ CloseMtChannel \/ GracePeriodElapses
  BY <1>3 DEF EndOfMoStream, CountMos, CheckRemaining, CloseDialogs,
              CloseMtChannel, GracePeriodElapses
<1>4. ASSUME NEW d \in Dialogs, DialogStep(d) PROVE RoutesAreSound'
  <2>1. \A e \in Dialogs : task'[e] # "absent" <=> task[e] # "absent"
    BY <1>4 DEF DialogStep, TakeMo, HasMo, SendMt, RefuseMt, IdleTimeout,
                CloseOnIdle, EndOfDialogStream, CloseAtEnd, PanicDialog
  <2>2. \A u \in Users : per_user_mo_tx'[u] \in {None, per_user_mo_tx[u]}
    BY <1>4 DEF DialogStep, TakeMo, HasMo, SendMt, RefuseMt, IdleTimeout,
                CloseOnIdle, EndOfDialogStream, CloseAtEnd, PanicDialog,
                CloseDialog
  <2>3. UNCHANGED <<sent, mo_in_route, mo_tx>>
    BY <1>4 DEF DialogStep, TakeMo, HasMo, SendMt, RefuseMt, IdleTimeout,
                CloseOnIdle, EndOfDialogStream, CloseAtEnd, PanicDialog
  <2>4. QED
    BY <2>1, <2>2, <2>3
<1>5. CASE ConsumeMt \/ Terminated \/ UNCHANGED vars
  BY <1>5 DEF ConsumeMt, Terminated, vars
<1>6. QED
  BY <1>1, <1>2, <1>3, <1>4, <1>5 DEF Next, RoutingStep

\* MOs are numbered in the order they are received, and an MO that was refused
\* is not sent again.
LEMMA MosInOrderStep ==
    TypeOK /\ InHands /\ MosAreInOrder /\ [Next]_vars => MosAreInOrder'
<1> SUFFICES ASSUME TypeOK, InHands, MosAreInOrder, [Next]_vars
             PROVE  MosAreInOrder'
  OBVIOUS
<1> USE DEF MosAreInOrder, routingVars, channelVars, mtVars, refusals
<1>1. ASSUME NEW u \in Users, RouteMo(u) PROVE MosAreInOrder'
  <2>1. /\ mo_in_route' = <<u, sent[u] + 1>>
        /\ sent' = [sent EXCEPT ![u] = @ + 1]
        /\ UNCHANGED refused_mos
    BY <1>1 DEF RouteMo
  <2>2. sent \in [Users -> Nat] /\ refused_mos \subseteq Users \X Nat
    BY UserRouterAssumption DEF TypeOK, Mos, UserRouterAssumption
  <2>3. Owner(mo_in_route') = u /\ mo_in_route'[2] = sent'[u]
    BY <2>1, <2>2 DEF Owner
  <2>4. \A mo \in refused_mos :
            mo[2] <= sent'[Owner(mo)] /\ mo # mo_in_route'
    <3> TAKE mo \in refused_mos
    <3>1. Owner(mo) \in Users /\ mo[2] \in Nat /\ mo[2] <= sent[Owner(mo)]
      BY <2>2 DEF Owner
    <3>2. CASE Owner(mo) = u
      BY <2>1, <2>2, <2>3, <3>1, <3>2
    <3>3. CASE Owner(mo) # u
      BY <2>1, <2>2, <2>3, <3>1, <3>3
    <3>4. QED
      BY <3>2, <3>3
  <2>5. QED
    BY <2>1, <2>3, <2>4
<1>2. CASE SendMo
  <2>1. mo_in_route \in Mos /\ mo_in_route[2] \in Int
    BY <1>2, UserRouterAssumption
       DEF SendMo, SentTo, InHands, TypeOK, Mos, UserRouterAssumption
  <2>2. mo_in_route' = None /\ UNCHANGED sent
        /\ refused_mos' \subseteq refused_mos \cup {mo_in_route}
    BY <1>2 DEF SendMo, SentTo
  <2>3. \A mo \in Mos : mo # None
    BY UserRouterAssumption DEF Mos, UserRouterAssumption
  <2>4. QED
    BY <1>2, <2>1, <2>2, <2>3 DEF InHands, SendMo, TypeOK
<1>3. CASE EndOfMoStream \/ CountMos \/ CheckRemaining \/ CloseDialogs
           \/ CloseMtChannel \/ GracePeriodElapses
  BY <1>3 DEF EndOfMoStream, CountMos, CheckRemaining, CloseDialogs,
              CloseMtChannel, GracePeriodElapses
<1>4. ASSUME NEW d \in Dialogs, DialogStep(d) PROVE MosAreInOrder'
  BY <1>4 DEF DialogStep, TakeMo, HasMo, SendMt, RefuseMt, IdleTimeout,
              CloseOnIdle, EndOfDialogStream, CloseAtEnd, PanicDialog
<1>5. CASE ConsumeMt \/ Terminated \/ UNCHANGED vars
  BY <1>5 DEF ConsumeMt, Terminated, vars
<1>6. QED
  BY <1>1, <1>2, <1>3, <1>4, <1>5 DEF Next, RoutingStep

\* A dialog that stopped serving never serves again, so a user who is
\* undisturbed after a step was undisturbed before it.
LEMMA DisturbedForGood ==
    ASSUME TypeOK, InHands, RoutesAreSound, [Next]_vars,
           NEW u \in Users, Undisturbed(u)'
    PROVE  Undisturbed(u)
<1> USE DEF TypeOK, Undisturbed, DialogsOf, routingVars, channelVars, mtVars,
            refusals, Serving
<1>1. ASSUME NEW v \in Users, RouteMo(v) PROVE Undisturbed(u)
  <2> DEFINE mo == <<v, sent[v] + 1>>
  <2>1. mo \in Dialogs /\ Owner(mo) = v /\ mo[2] = sent[v] + 1
    BY <1>1, UserRouterAssumption
       DEF RouteMo, Mos, Dialogs, Owner, UserRouterAssumption
  <2>2. task[mo] = "absent"
    BY <2>1 DEF RoutesAreSound
  <2>3. \A d \in Dialogs : task'[d] = task[d] \/ task[d] = "absent"
    BY <1>1, <2>1, <2>2 DEF RouteMo, RouteToExisting, RouteToNew, WithEntry
  <2>4. QED
    BY <2>3
<1>2. CASE SendMo
  BY <1>2 DEF SendMo, SentTo
<1>3. CASE EndOfMoStream \/ CountMos \/ CheckRemaining \/ CloseDialogs
           \/ CloseMtChannel \/ GracePeriodElapses
  BY <1>3 DEF EndOfMoStream, CountMos, CheckRemaining, CloseDialogs,
              CloseMtChannel, GracePeriodElapses
<1>4. ASSUME NEW d \in Dialogs, DialogStep(d) PROVE Undisturbed(u)
  BY <1>4 DEF DialogStep, TakeMo, HasMo, SendMt, RefuseMt, IdleTimeout,
              CloseOnIdle, EndOfDialogStream, CloseAtEnd, PanicDialog
<1>5. CASE ConsumeMt \/ Terminated \/ UNCHANGED vars
  BY <1>5 DEF ConsumeMt, Terminated, vars
<1>6. QED
  BY <1>1, <1>2, <1>3, <1>4, <1>5 DEF Next, RoutingStep

\* The route of an undisturbed user stays: only that user's own dialogs remove
\* it, and none of them reaches a state where it would.
LEMMA UndisturbedStep ==
    ASSUME TypeOK, InHands, RoutesAreSound, [Next]_vars,
           NEW u \in Users, Undisturbed(u) => UndisturbedRoute(u),
           Undisturbed(u)'
    PROVE  UndisturbedRoute(u)'
<1>1. Undisturbed(u) /\ UndisturbedRoute(u)
  BY DisturbedForGood
<1>2. /\ \A d \in DialogsOf(u) : task[d] \in Serving \cup {"absent"}
      /\ \A d \in DialogsOf(u) : task'[d] \in Serving \cup {"absent"}
      /\ \A d \in Dialogs : Owner(d) \in Users
      /\ DialogsOf(u) \subseteq Dialogs
      /\ \A d \in Dialogs : d \in DialogsOf(u) <=> Owner(d) = u
  BY <1>1 DEF Undisturbed, DialogsOf, Owner, Dialogs, Mos
<1> USE DEF TypeOK, UndisturbedRoute, routingVars, channelVars, mtVars,
            refusals
<1>3. ASSUME NEW v \in Users, RouteMo(v) PROVE UndisturbedRoute(u)'
  <2> DEFINE mo == <<v, sent[v] + 1>>
  <2>1. mo \in Dialogs /\ Owner(mo) = v /\ mo[2] = sent[v] + 1 /\ mo # None
    BY <1>3, UserRouterAssumption
       DEF RouteMo, Mos, Dialogs, Owner, UserRouterAssumption
  <2>2. task[mo] = "absent"
    BY <2>1, UserRouterAssumption DEF RoutesAreSound, UserRouterAssumption,
       Dialogs, Mos
  <2>3. CASE RouteToExisting(v)
    BY <1>1, <1>2, <1>3, <2>3
       DEF RouteMo, RouteToExisting, RoutesAreSound
  <2>4. CASE RouteToNew(v, mo)
    <3>1. /\ per_user_mo_tx[v] = None
          /\ per_user_mo_tx' = [per_user_mo_tx EXCEPT ![v] = mo]
          /\ task' = [task EXCEPT ![mo] = "created"]
          /\ mo_open' = [mo_open EXCEPT ![mo] = TRUE]
          /\ mo_tx' = mo
          /\ routing = "poll" /\ routing' = "send"
          /\ UNCHANGED refused_mos
      BY <1>3, <2>4 DEF RouteMo, RouteToNew, WithEntry
    <3> HIDE DEF mo
    <3>2. CASE u = v
      <4>1. \A d \in DialogsOf(u) : task[d] = "absent"
        BY <1>1, <1>2, <3>1, <3>2, UserRouterAssumption
           DEF UserRouterAssumption, Dialogs, Mos
      <4>2. \A d \in DialogsOf(u) : task'[d] # "absent" => d = mo
        BY <1>2, <3>1, <4>1
      <4>3. mo_open'[mo] /\ per_user_mo_tx'[u] = mo /\ mo_tx' = mo
        BY <2>1, <3>1, <3>2
      <4>4. QED
        BY <1>1, <3>1, <4>2, <4>3 DEF DialogsOf
    <3>3. CASE u # v
      BY <1>1, <1>2, <2>1, <3>1, <3>3
    <3>4. QED
      BY <3>2, <3>3
  <2>5. QED
    BY <1>3, <2>3, <2>4 DEF RouteMo
<1>4. CASE SendMo
  <2>1. /\ mo_tx \in Dialogs /\ mo_in_route \in Mos
        /\ Owner(mo_tx) = Owner(mo_in_route)
        /\ task[mo_tx] # "absent"
        /\ mo_tx' = None
        /\ routing = "send"
    BY <1>4 DEF SendMo, SentTo, InHands, RoutesAreSound
  <2>2. \A d \in Dialogs : task'[d] # "absent" <=> task[d] # "absent"
    BY <1>4, <2>1 DEF SendMo, SentTo
  <2>3. Owner(mo_tx) = u => mo_open[mo_tx]
    BY <1>1, <1>2, <2>1
  <2>4. \A mo \in refused_mos' : Owner(mo) # u
    BY <1>1, <1>4, <2>1, <2>3 DEF SendMo, SentTo
  <2>5. UNCHANGED <<per_user_mo_tx, mo_open>>
    BY <1>4 DEF SendMo, SentTo
  <2>6. QED
    BY <1>1, <1>2, <2>1, <2>2, <2>4, <2>5
<1>5. CASE EndOfMoStream \/ CountMos \/ CheckRemaining \/ GracePeriodElapses
  BY <1>1, <1>2, <1>5
     DEF EndOfMoStream, CountMos, CheckRemaining, GracePeriodElapses
<1>6. CASE CloseDialogs \/ CloseMtChannel
  BY <1>1, <1>2, <1>6 DEF CloseDialogs, CloseMtChannel
<1>7. ASSUME NEW d \in Dialogs, DialogStep(d) PROVE UndisturbedRoute(u)'
  <2>1. UNCHANGED <<mo_tx, refused_mos, routing>>
    BY <1>7 DEF DialogStep, TakeMo, HasMo, SendMt, RefuseMt, IdleTimeout,
                CloseOnIdle, EndOfDialogStream, CloseAtEnd, PanicDialog
  <2>2. \A e \in Dialogs : task'[e] # "absent" <=> task[e] # "absent"
    BY <1>7 DEF DialogStep, TakeMo, HasMo, SendMt, RefuseMt, IdleTimeout,
                CloseOnIdle, EndOfDialogStream, CloseAtEnd, PanicDialog
  <2>3. per_user_mo_tx'[u] = per_user_mo_tx[u]
    <3>1. CASE Owner(d) = u
      BY <1>2, <1>7, <3>1
         DEF DialogStep, TakeMo, HasMo, SendMt, RefuseMt, IdleTimeout, CloseOnIdle,
             EndOfDialogStream, CloseAtEnd, PanicDialog, Serving
    <3>2. CASE Owner(d) # u
      BY <1>2, <1>7, <3>2
         DEF DialogStep, TakeMo, HasMo, SendMt, RefuseMt, IdleTimeout, CloseOnIdle,
             EndOfDialogStream, CloseAtEnd, PanicDialog, CloseDialog
    <3>3. QED
      BY <3>1, <3>2
  <2>4. \A e \in DialogsOf(u) : mo_open'[e] = mo_open[e]
    <3>1. CASE Owner(d) = u
      BY <1>2, <1>7, <3>1
         DEF DialogStep, TakeMo, HasMo, SendMt, RefuseMt, IdleTimeout, CloseOnIdle,
             EndOfDialogStream, CloseAtEnd, PanicDialog, Serving
    <3>2. CASE Owner(d) # u
      BY <1>2, <1>7, <3>2
         DEF DialogStep, TakeMo, HasMo, SendMt, RefuseMt, IdleTimeout, CloseOnIdle,
             EndOfDialogStream, CloseAtEnd, PanicDialog, CloseDialog
    <3>3. QED
      BY <3>1, <3>2
  <2>5. QED
    BY <1>1, <1>2, <2>1, <2>2, <2>3, <2>4
<1>8. CASE ConsumeMt \/ Terminated \/ UNCHANGED vars
  BY <1>1, <1>8 DEF ConsumeMt, Terminated, vars
<1>9. QED
  BY <1>3, <1>4, <1>5, <1>6, <1>7, <1>8 DEF Next, RoutingStep

\* After the routing loop no MO is sent any more: a channel counted as empty
\* stays empty, and the map only loses entries.
LEMMA CountStep ==
    TypeOK /\ RoutesAreSound /\ CountIsFinal /\ [Next]_vars => CountIsFinal'
<1> SUFFICES ASSUME TypeOK, RoutesAreSound, CountIsFinal, [Next]_vars
             PROVE  CountIsFinal'
  OBVIOUS
<1> USE DEF TypeOK, CountIsFinal, DrainedBeforeClosing, RoutedChannelsAreEmpty,
            routingVars, channelVars, mtVars, refusals
<1>1. CASE (\E u \in Users : RouteMo(u)) \/ SendMo \/ EndOfMoStream
  BY <1>1 DEF RouteMo, SendMo, EndOfMoStream
<1>2. CASE CountMos
  BY <1>2 DEF CountMos
<1>3. CASE CheckRemaining
  BY <1>3 DEF CheckRemaining, MayClose, NothingRemains
<1>4. CASE CloseDialogs \/ CloseMtChannel \/ GracePeriodElapses
  BY <1>4 DEF CloseDialogs, CloseMtChannel, GracePeriodElapses
<1>5. ASSUME NEW d \in Dialogs, DialogStep(d) PROVE CountIsFinal'
  <2>1. UNCHANGED <<routing, mos_remain, grace_elapsed>>
    BY <1>5 DEF DialogStep, TakeMo, HasMo, SendMt, RefuseMt, IdleTimeout,
                CloseOnIdle, EndOfDialogStream, CloseAtEnd, PanicDialog
  <2>2. \A u \in Users : per_user_mo_tx'[u] \in {None, per_user_mo_tx[u]}
    BY <1>5 DEF DialogStep, TakeMo, HasMo, SendMt, RefuseMt, IdleTimeout,
                CloseOnIdle, EndOfDialogStream, CloseAtEnd, PanicDialog,
                CloseDialog
  <2>3. \A e \in Dialogs : mo_queue[e] = <<>> => mo_queue'[e] = <<>>
    BY <1>5 DEF DialogStep, TakeMo, HasMo, SendMt, RefuseMt, IdleTimeout,
                CloseOnIdle, EndOfDialogStream, CloseAtEnd, PanicDialog
  <2>4. RoutedChannelsAreEmpty => RoutedChannelsAreEmpty'
    BY <2>2, <2>3
  <2>5. QED
    BY <2>1, <2>4
<1>6. CASE ConsumeMt \/ Terminated \/ UNCHANGED vars
  BY <1>6 DEF ConsumeMt, Terminated, vars
<1>7. QED
  BY <1>1, <1>2, <1>3, <1>4, <1>5, <1>6 DEF Next, RoutingStep

-----------------------------------------------------------------------------
\* The inductive invariant of the router holds in every behaviour.
THEOREM RouterInvariant == Spec => []RouterInv
<1>1. Init => RouterInv
  BY InitRouterInv
<1>2. RouterInv /\ [Next]_vars => RouterInv'
  <2> SUFFICES ASSUME RouterInv, [Next]_vars PROVE RouterInv'
    OBVIOUS
  <2>1. TypeOK' /\ InHands' /\ RoutesAreSound' /\ MosAreInOrder'
        /\ CountIsFinal'
    BY TypeStep, InHandsStep, RoutesStep, MosInOrderStep, CountStep
       DEF RouterInv
  <2>2. ASSUME NEW u \in Users, Undisturbed(u)' PROVE UndisturbedRoute(u)'
    BY <2>2, UndisturbedStep DEF RouterInv
  <2>3. QED
    BY <2>1, <2>2 DEF RouterInv
<1>3. QED
  BY <1>1, <1>2, PTL DEF Spec

\* Isolation: whatever happens to other users, a user whose dialog never timed
\* out, stopped or panicked has one dialog and none of the user's MOs refused.
THEOREM UndisturbedUsersTheorem == Spec => []UndisturbedUsersAreServed
<1>1. RouterInv => UndisturbedUsersAreServed
  BY DEF RouterInv, UndisturbedRoute, UndisturbedUsersAreServed
<1>2. QED
  BY <1>1, RouterInvariant, PTL

\* Graceful shutdown: MOs queued in a routed channel are given up only when
\* the grace period is over.
THEOREM DrainedTheorem == Spec => []DrainedBeforeClosing
<1>1. RouterInv => DrainedBeforeClosing
  BY DEF RouterInv, CountIsFinal
<1>2. QED
  BY <1>1, RouterInvariant, PTL

-----------------------------------------------------------------------------
(* The router implements DialogService.                                    *)

\* Putting the MO in hand in front of a channel commutes with sending to it.
LEMMA ConsAppend ==
    ASSUME NEW S, NEW h \in S, NEW q \in Seq(S), NEW m \in S
    PROVE  <<h>> \o Append(q, m) = Append(<<h>> \o q, m)
  OBVIOUS

\* Taking the head of a channel in hand leaves the same MOs in the same order.
LEMMA ConsHeadTail ==
    ASSUME NEW S, NEW q \in Seq(S), q # <<>>
    PROVE  <<Head(q)>> \o Tail(q) = q
  OBVIOUS

LEMMA HeadTailCons ==
    ASSUME NEW S, NEW h \in S, NEW q \in Seq(S)
    PROVE  /\ <<h>> \o q # <<>>
           /\ Head(<<h>> \o q) = h
           /\ Tail(<<h>> \o q) = q
  OBVIOUS

\* The initial state of the router is the initial state of the service.
LEMMA RefinementInit == Init => Promise!Init
<1> SUFFICES ASSUME Init PROVE Promise!Init
  OBVIOUS
<1>1. Accepted = {}
  BY UserRouterAssumption
     DEF Init, Accepted, Mos, Owner, UserRouterAssumption
<1>2. Unanswered = [d \in Dialogs |-> <<>>]
  BY DEF Init, Unanswered
<1>3. QED
  BY <1>1, <1>2
     DEF Init, Promise!Init, Promise!Dialogs, Promise!Mos, Dialogs, Mos

\* An MO is left unanswered only where its MT is refused or its dialog panics.
Abandons(d) == RefuseMt(d) \/ PanicDialog(d)

\* A step of the service, by the step of the router that takes it, or nothing that
\* the service speaks of.
ServiceStep ==
    \/ UNCHANGED Promise!vars
    \/ \E d \in Dialogs, mo \in Mos : Promise!Accept(d, mo)
    \/ \E d \in Dialogs : Promise!Answer(d)
    \/ \E d \in Dialogs : Promise!LeaveUnanswered(d) /\ Abandons(d)
    \/ Promise!Deliver
    \/ Promise!Close

\* Every step of the router is such a step.
LEMMA RouterStep == RouterInv /\ [Next]_vars => ServiceStep
<1> SUFFICES ASSUME RouterInv, [Next]_vars PROVE ServiceStep
  OBVIOUS
<1> USE UserRouterAssumption DEF UserRouterAssumption, RouterInv, TypeOK,
        routingVars, channelVars, mtVars, refusals
<1>0. UNCHANGED Promise!vars => ServiceStep
  BY DEF ServiceStep
<1>1. ASSUME NEW u \in Users, RouteMo(u) PROVE ServiceStep
  <2>1. /\ mo_in_route = None
        /\ mo_in_route' = <<u, sent[u] + 1>>
        /\ sent' = [sent EXCEPT ![u] = @ + 1]
        /\ UNCHANGED <<refused_mos, mo_queue, in_hand, mt_queue, mt_open,
                       delivered>>
    BY <1>1 DEF RouteMo, InHands
  <2>2. ASSUME NEW mo \in Mos PROVE mo \in Accepted <=> mo \in Accepted'
    <3>1. /\ Owner(mo) \in Users /\ mo[2] \in Int
          /\ mo = <<Owner(mo), mo[2]>> /\ mo # None
      BY DEF Mos, Owner
    <3>2. CASE Owner(mo) = u
      BY <2>1, <3>1, <3>2 DEF Accepted
    <3>3. CASE Owner(mo) # u
      BY <2>1, <3>1, <3>3 DEF Accepted, Owner
    <3>4. QED
      BY <3>2, <3>3
  <2>3. Accepted' = Accepted
    BY <2>2 DEF Accepted
  <2>4. Unanswered' = Unanswered
    BY <2>1 DEF Unanswered
  <2>5. QED
    BY <1>0, <2>1, <2>3, <2>4 DEF Promise!vars
<1>2. CASE SendMo
  <2>1. /\ mo_in_route \in Mos /\ mo_tx \in Dialogs
        /\ Owner(mo_tx) = Owner(mo_in_route)
        /\ mo_in_route[2] = sent[Owner(mo_in_route)]
        /\ mo_in_route \notin refused_mos
        /\ \A mo \in Mos : mo # None
    BY <1>2 DEF SendMo, SentTo, InHands, RoutesAreSound, MosAreInOrder, Mos
  <2>2. /\ mo_in_route' = None
        /\ UNCHANGED <<sent, in_hand, mt_queue, mt_open, delivered>>
    BY <1>2 DEF SendMo, SentTo
  <2>3. CASE mo_open[mo_tx]
    <3>1. /\ mo_queue' = [mo_queue EXCEPT
                            ![mo_tx] = Append(@, mo_in_route)]
          /\ UNCHANGED refused_mos
      BY <1>2, <2>3 DEF SendMo, SentTo
    <3>2. Accepted' = Accepted \cup {mo_in_route}
      <4>1. mo_in_route[2] <= sent[Owner(mo_in_route)]
        BY <2>1 DEF Mos, Owner
      <4>2. QED
        BY <2>1, <2>2, <3>1, <4>1 DEF Accepted
    <3>3. \A mo \in Accepted : Owner(mo) = Owner(mo_in_route)
                                   => mo[2] < mo_in_route[2]
      <4> TAKE mo \in Accepted
      <4>1. /\ mo \in Mos /\ mo # mo_in_route
            /\ mo[2] <= sent[Owner(mo)]
        BY DEF Accepted
      <4>2. /\ mo = <<Owner(mo), mo[2]>> /\ mo[2] \in Int
            /\ mo_in_route = <<Owner(mo_in_route), mo_in_route[2]>>
            /\ mo_in_route[2] \in Int
        BY <2>1, <4>1 DEF Mos, Owner
      <4>3. ASSUME Owner(mo) = Owner(mo_in_route)
            PROVE  mo[2] < mo_in_route[2]
        <5>1. mo[2] # mo_in_route[2]
          BY <4>1, <4>2, <4>3
        <5>2. mo[2] <= mo_in_route[2]
          BY <2>1, <4>1, <4>3
        <5>3. QED
          BY <4>2, <5>1, <5>2
      <4>4. QED
        BY <4>3
    <3>4. Unanswered' = [Unanswered EXCEPT
                           ![mo_tx] = Append(@, mo_in_route)]
      <4>1. ASSUME NEW d \in Dialogs
            PROVE  Unanswered'[d] = IF d = mo_tx
                                    THEN Append(Unanswered[d], mo_in_route)
                                    ELSE Unanswered[d]
        <5>1. CASE d = mo_tx /\ in_hand[d] # None
          <6>1. <<in_hand[d]>> \o Append(mo_queue[d], mo_in_route)
                = Append(<<in_hand[d]>> \o mo_queue[d], mo_in_route)
            BY <2>1, <5>1, ConsAppend
          <6>2. QED
            BY <2>1, <2>2, <3>1, <5>1, <6>1 DEF Unanswered
        <5>2. CASE d = mo_tx /\ in_hand[d] = None
          BY <2>1, <2>2, <3>1, <5>2 DEF Unanswered
        <5>3. CASE d # mo_tx
          BY <2>1, <2>2, <3>1, <5>3 DEF Unanswered
        <5>4. QED
          BY <5>1, <5>2, <5>3
      <4>2. QED
        BY <2>1, <4>1 DEF Unanswered
    <3>5. Promise!Accept(mo_tx, mo_in_route)
      BY <2>1, <2>2, <3>2, <3>3, <3>4 DEF Promise!Accept, Promise!Owner, Owner
    <3>6. QED
      BY <2>1, <3>5 DEF ServiceStep
  <2>4. CASE ~mo_open[mo_tx]
    <3>1. /\ refused_mos' = refused_mos \cup {mo_in_route}
          /\ UNCHANGED mo_queue
      BY <1>2, <2>4 DEF SendMo, SentTo
    <3>2. Accepted' = Accepted
      BY <2>1, <2>2, <3>1 DEF Accepted
    <3>3. Unanswered' = Unanswered
      BY <2>2, <3>1 DEF Unanswered
    <3>4. QED
      BY <1>0, <2>2, <3>2, <3>3 DEF Promise!vars
  <2>5. QED
    BY <2>3, <2>4
<1>3. CASE EndOfMoStream \/ CountMos \/ CheckRemaining \/ CloseDialogs
           \/ GracePeriodElapses
  BY <1>0, <1>3 DEF EndOfMoStream, CountMos, CheckRemaining, CloseDialogs,
              GracePeriodElapses, Promise!vars, Accepted, Unanswered
<1>4. CASE CloseMtChannel
  BY <1>4 DEF CloseMtChannel, Promise!vars, Promise!Close, Accepted, Unanswered,
              ServiceStep
<1>5. ASSUME NEW d \in Dialogs, TakeMo(d) PROVE ServiceStep
  <2>1. /\ in_hand[d] = None
        /\ mo_queue[d] \in Seq(Mos) /\ mo_queue[d] # <<>>
        /\ in_hand' = [in_hand EXCEPT ![d] = Head(mo_queue[d])]
        /\ mo_queue' = [mo_queue EXCEPT ![d] = Tail(@)]
        /\ Head(mo_queue[d]) # None
    BY <1>5 DEF TakeMo, HasMo, InHands, Mos
  <2>2. <<Head(mo_queue[d])>> \o Tail(mo_queue[d]) = mo_queue[d]
    BY <2>1, ConsHeadTail
  <2>3. Unanswered' = Unanswered
    BY <2>1, <2>2 DEF Unanswered
  <2>4. QED
    BY <1>0, <1>5, <2>3 DEF TakeMo, HasMo, Promise!vars, Accepted
<1>6. ASSUME NEW d \in Dialogs, SendMt(d) \/ RefuseMt(d) \/ PanicDialog(d)
      PROVE  ServiceStep
  <2>1. /\ in_hand[d] \in Mos /\ in_hand[d] # None
        /\ in_hand' = [in_hand EXCEPT ![d] = None]
        /\ UNCHANGED <<sent, mo_in_route, refused_mos, mo_queue, mt_open,
                       delivered>>
    BY <1>6 DEF SendMt, RefuseMt, PanicDialog, InHands
  <2>2. /\ Unanswered[d] = <<in_hand[d]>> \o mo_queue[d]
        /\ Unanswered[d] # <<>>
        /\ Head(Unanswered[d]) = in_hand[d]
        /\ Tail(Unanswered[d]) = mo_queue[d]
    BY <2>1, HeadTailCons DEF Unanswered
  <2>3. Unanswered' = [Unanswered EXCEPT ![d] = Tail(@)]
    BY <2>1, <2>2 DEF Unanswered
  <2>4. Accepted' = Accepted
    BY <2>1 DEF Accepted
  <2>5. CASE SendMt(d)
    <3>1. Promise!Answer(d)
      BY <2>1, <2>2, <2>3, <2>4, <2>5 DEF SendMt, MtRoom, Promise!Answer
    <3>2. QED
      BY <3>1 DEF ServiceStep
  <2>6. CASE RefuseMt(d) \/ PanicDialog(d)
    <3>1. Promise!LeaveUnanswered(d)
      BY <2>1, <2>2, <2>3, <2>4, <2>6
         DEF RefuseMt, PanicDialog, Promise!LeaveUnanswered
    <3>2. QED
      BY <2>6, <3>1 DEF ServiceStep, Abandons
  <2>7. QED
    BY <1>6, <2>5, <2>6
<1>7. ASSUME NEW d \in Dialogs,
             IdleTimeout(d) \/ CloseOnIdle(d) \/ EndOfDialogStream(d)
             \/ CloseAtEnd(d)
      PROVE  ServiceStep
  BY <1>0, <1>7 DEF IdleTimeout, CloseOnIdle, EndOfDialogStream, CloseAtEnd,
              Promise!vars, Accepted, Unanswered
<1>8. CASE ConsumeMt
  <2>1. Promise!Deliver
    BY <1>8 DEF ConsumeMt, Promise!Deliver, Accepted, Unanswered
  <2>2. QED
    BY <2>1 DEF ServiceStep
<1>9. CASE Terminated \/ UNCHANGED vars
  BY <1>0, <1>9 DEF Terminated, vars, Promise!vars, Accepted, Unanswered
<1>10. QED
  BY <1>1, <1>2, <1>3, <1>4, <1>5, <1>6, <1>7, <1>8, <1>9
     DEF Next, RoutingStep, DialogStep

\* Each of them is a step of the service, or leaves it alone.
LEMMA RefinementStep ==
    RouterInv /\ [Next]_vars => [Promise!Next]_(Promise!vars)
<1>1. Promise!Dialogs = Dialogs /\ Promise!Mos = Mos
  BY DEF Promise!Dialogs, Promise!Mos, Dialogs, Mos
<1>2. ServiceStep => [Promise!Next]_(Promise!vars)
  BY <1>1 DEF ServiceStep, Promise!Next
<1> QED
  BY <1>2, RouterStep

\* UserRouter implements DialogService: in every behaviour each dialog answers
\* the MOs it accepted at most once and in order, on a bounded MT stream.
THEOREM RouterImplementsDialogService == Spec => ImplementsDialogService
<1>1. RouterInv /\ [Next]_vars => [Promise!Next]_(Promise!vars)
  BY RefinementStep
<1>2. QED
  BY RefinementInit, <1>1, RouterInvariant, PTL
     DEF Spec, ImplementsDialogService, Promise!Spec
-----------------------------------------------------------------------------
(* The order of the answers.  The argument is the one of DialogService,     *)
(* which has five actions only; ServiceStep carries it to the router's.     *)

\* The MOs that dialogs have accepted (acc), have still to answer (inbox) and have
\* answered (P) are in order dialog by dialog, answered before unanswered, and
\* each has one place.
Ordered(acc, inbox, P) ==
    /\ \A d \in Dialogs : \A k \in 1 .. Len(inbox[d]) :
          inbox[d][k] \in acc /\ Owner(inbox[d][k]) = Owner(d)
    /\ \A d \in Dialogs : \A k, l \in 1 .. Len(inbox[d]) :
          k < l => inbox[d][k][2] < inbox[d][l][2]
    /\ \A d, e \in Dialogs : \A k \in 1 .. Len(inbox[d]), l \in 1 .. Len(inbox[e]) :
          inbox[d][k] = inbox[e][l] => d = e
    /\ \A i \in 1 .. Len(P) : P[i][2] \in acc /\ Owner(P[i][2]) = Owner(P[i][1])
    /\ \A i, j \in 1 .. Len(P) :
          /\ i < j /\ P[i][1] = P[j][1] => P[i][2][2] < P[j][2][2]
          /\ P[i][2] = P[j][2] => P[i][1] = P[j][1]
    /\ \A i \in 1 .. Len(P), d \in Dialogs : \A k \in 1 .. Len(inbox[d]) :
          /\ P[i][1] = d => P[i][2][2] < inbox[d][k][2]
          /\ P[i][2] = inbox[d][k] => P[i][1] = d

\* A new MO is later than all of its user's that were accepted: it goes behind them.
LEMMA AcceptKeepsOrder ==
    ASSUME NEW acc \in SUBSET Mos, NEW inbox \in [Dialogs -> Seq(Mos)], NEW P \in Seq(Mts),
           Ordered(acc, inbox, P), NEW d \in Dialogs, NEW mo \in Mos, Owner(d) = Owner(mo),
           \A m \in acc : Owner(m) = Owner(mo) => m[2] < mo[2]
    PROVE  Ordered(acc \cup {mo}, [inbox EXCEPT ![d] = Append(@, mo)], P)
<1> DEFINE in2 == [inbox EXCEPT ![d] = Append(@, mo)]
<1>1. mo \notin acc
  BY UserRouterAssumption DEF Mos, Owner, UserRouterAssumption
<1>2. \A e \in Dialogs : e # d => in2[e] = inbox[e]
  OBVIOUS
<1>3. /\ Len(in2[d]) = Len(inbox[d]) + 1 /\ Len(inbox[d]) \in Nat
      /\ in2[d][Len(inbox[d]) + 1] = mo
      /\ \A k \in 1 .. Len(inbox[d]) : in2[d][k] = inbox[d][k]
  OBVIOUS
<1> HIDE DEF in2
<1>4. \A e \in Dialogs : \A k \in 1 .. Len(in2[e]) :
         \/ k \in 1 .. Len(inbox[e]) /\ in2[e][k] = inbox[e][k] /\ in2[e][k] \in acc
                                     /\ Owner(in2[e][k]) = Owner(e)
         \/ e = d /\ k = Len(inbox[d]) + 1 /\ in2[e][k] = mo
  BY <1>2, <1>3 DEF Ordered
<1>5. \A e \in Dialogs : \A k \in 1 .. Len(in2[e]) :
         in2[e][k] \in acc \cup {mo} /\ Owner(in2[e][k]) = Owner(e)
  BY <1>4
<1>6. \A e \in Dialogs : \A k, l \in 1 .. Len(in2[e]) : k < l => in2[e][k][2] < in2[e][l][2]
  <2> SUFFICES ASSUME NEW e \in Dialogs, NEW k \in 1 .. Len(in2[e]), NEW l \in 1 .. Len(in2[e]),
                      k < l
               PROVE  in2[e][k][2] < in2[e][l][2]
    OBVIOUS
  <2>1. CASE e = d /\ l = Len(inbox[d]) + 1
    BY <2>1, <1>3, <1>4
  <2>2. CASE ~(e = d /\ l = Len(inbox[d]) + 1)
    <3>1. Len(inbox[e]) \in Nat /\ Len(in2[e]) \in Nat
      BY <1>2, <1>3
    <3>2. l \in 1 .. Len(inbox[e]) /\ in2[e][l] = inbox[e][l]
      BY <2>2, <1>4
    <3>3. k \in 1 .. Len(inbox[e])
      BY <3>1, <3>2
    <3>4. in2[e][k] = inbox[e][k]
      BY <3>3, <1>2, <1>3
    <3> QED
      BY <3>2, <3>3, <3>4 DEF Ordered
  <2> QED
    BY <2>1, <2>2
<1>7. \A e, f \in Dialogs : \A k \in 1 .. Len(in2[e]), l \in 1 .. Len(in2[f]) :
         in2[e][k] = in2[f][l] => e = f
  <2> SUFFICES ASSUME NEW e \in Dialogs, NEW f \in Dialogs, NEW k \in 1 .. Len(in2[e]),
                      NEW l \in 1 .. Len(in2[f]), in2[e][k] = in2[f][l], e # f
               PROVE  FALSE
    OBVIOUS
  <2>1. in2[e][k] \in acc /\ in2[f][l] \in acc
    BY <1>4, <1>1
  <2>2. /\ k \in 1 .. Len(inbox[e]) /\ in2[e][k] = inbox[e][k]
        /\ l \in 1 .. Len(inbox[f]) /\ in2[f][l] = inbox[f][l]
    BY <2>1, <1>1, <1>4
  <2> QED
    BY <2>2 DEF Ordered
<1>8. \A i \in 1 .. Len(P), e \in Dialogs : \A k \in 1 .. Len(in2[e]) :
         /\ P[i][1] = e => P[i][2][2] < in2[e][k][2]
         /\ P[i][2] = in2[e][k] => P[i][1] = e
  <2> SUFFICES ASSUME NEW i \in 1 .. Len(P), NEW e \in Dialogs, NEW k \in 1 .. Len(in2[e])
               PROVE  /\ P[i][1] = e => P[i][2][2] < in2[e][k][2]
                      /\ P[i][2] = in2[e][k] => P[i][1] = e
    OBVIOUS
  <2>1. P[i][2] \in acc /\ Owner(P[i][2]) = Owner(P[i][1])
    BY DEF Ordered
  <2>2. CASE k \in 1 .. Len(inbox[e]) /\ in2[e][k] = inbox[e][k]
    BY <2>2 DEF Ordered
  <2>3. CASE e = d /\ in2[e][k] = mo
    BY <2>1, <2>3, <1>1
  <2> QED
    BY <2>2, <2>3, <1>4
<1>9. /\ \A i \in 1 .. Len(P) : P[i][2] \in acc \cup {mo} /\ Owner(P[i][2]) = Owner(P[i][1])
      /\ \A i, j \in 1 .. Len(P) :
            /\ i < j /\ P[i][1] = P[j][1] => P[i][2][2] < P[j][2][2]
            /\ P[i][2] = P[j][2] => P[i][1] = P[j][1]
  BY DEF Ordered
<1> QED
  BY <1>5, <1>6, <1>7, <1>8, <1>9 DEF Ordered, in2

\* Where an MO stands that d took from the head of its inbox.
IsNext(mo, d, acc, inbox, P) ==
    /\ mo \in acc /\ Owner(mo) = Owner(d)
    /\ \A e \in Dialogs : \A k \in 1 .. Len(inbox[e]) :
          /\ e = d => mo[2] < inbox[e][k][2]
          /\ inbox[e][k] = mo => e = d
    /\ \A i \in 1 .. Len(P) : /\ P[i][1] = d => P[i][2][2] < mo[2]
                              /\ P[i][2] = mo => P[i][1] = d

\* An MO at the head of an inbox goes: the others of the dialog are all later.
LEMMA RemovalKeepsOrder ==
    ASSUME NEW acc \in SUBSET Mos, NEW inbox \in [Dialogs -> Seq(Mos)], NEW P \in Seq(Mts),
           Ordered(acc, inbox, P), NEW d \in Dialogs, inbox[d] # <<>>,
           NEW in2, in2 = [inbox EXCEPT ![d] = Tail(@)]
    PROVE  Ordered(acc, in2, P) /\ IsNext(Head(inbox[d]), d, acc, in2, P)
<1>1. /\ Len(inbox[d]) \in Nat \ {0} /\ Len(in2[d]) = Len(inbox[d]) - 1
      /\ Head(inbox[d]) = inbox[d][1]
      /\ \A k \in 1 .. Len(in2[d]) : in2[d][k] = inbox[d][k + 1]
  OBVIOUS
<1>2. \A e \in Dialogs : e # d => in2[e] = inbox[e]
  OBVIOUS
<1>3. \A e \in Dialogs : Len(in2[e]) \in Nat /\ Len(inbox[e]) \in Nat
  BY <1>1, <1>2
<1>4. \A e \in Dialogs : \A k \in 1 .. Len(in2[e]) :
         \E m \in 1 .. Len(inbox[e]) : /\ m = IF e = d THEN k + 1 ELSE k
                                       /\ in2[e][k] = inbox[e][m]
  BY <1>1, <1>2, <1>3
<1>5. Ordered(acc, in2, P)
  <2>1. \A e \in Dialogs : \A k \in 1 .. Len(in2[e]) :
           in2[e][k] \in acc /\ Owner(in2[e][k]) = Owner(e)
    BY <1>4 DEF Ordered
  <2>2. \A e \in Dialogs : \A k, l \in 1 .. Len(in2[e]) :
           k < l => in2[e][k][2] < in2[e][l][2]
    <3> SUFFICES ASSUME NEW e \in Dialogs, NEW k \in 1 .. Len(in2[e]),
                        NEW l \in 1 .. Len(in2[e]), k < l
                 PROVE  in2[e][k][2] < in2[e][l][2]
      OBVIOUS
    <3>1. CASE e = d
      BY <3>1, <1>1 DEF Ordered
    <3>2. CASE e # d
      BY <3>2, <1>2 DEF Ordered
    <3> QED
      BY <3>1, <3>2
  <2>3. \A e, f \in Dialogs : \A k \in 1 .. Len(in2[e]), l \in 1 .. Len(in2[f]) :
           in2[e][k] = in2[f][l] => e = f
    BY <1>4 DEF Ordered
  <2>4. \A i \in 1 .. Len(P), e \in Dialogs : \A k \in 1 .. Len(in2[e]) :
           /\ P[i][1] = e => P[i][2][2] < in2[e][k][2]
           /\ P[i][2] = in2[e][k] => P[i][1] = e
    BY <1>4 DEF Ordered
  <2> QED
    BY <2>1, <2>2, <2>3, <2>4 DEF Ordered
<1>6. \A e \in Dialogs : \A k \in 1 .. Len(in2[e]) :
         /\ e = d => Head(inbox[d])[2] < in2[e][k][2]
         /\ in2[e][k] = Head(inbox[d]) => e = d
  BY <1>1, <1>4 DEF Ordered
<1>7. /\ Head(inbox[d]) \in acc /\ Owner(Head(inbox[d])) = Owner(d)
      /\ \A i \in 1 .. Len(P) : /\ P[i][1] = d => P[i][2][2] < Head(inbox[d])[2]
                                /\ P[i][2] = Head(inbox[d]) => P[i][1] = d
  BY <1>1 DEF Ordered
<1> QED
  BY <1>5, <1>6, <1>7 DEF IsNext

\* If it is answered, its MT goes behind those of the dialog.
LEMMA AnswerKeepsOrder ==
    ASSUME NEW acc \in SUBSET Mos, NEW inbox \in [Dialogs -> Seq(Mos)], NEW P \in Seq(Mts),
           Ordered(acc, inbox, P), NEW d \in Dialogs, inbox[d] # <<>>
    PROVE  Ordered(acc, [inbox EXCEPT ![d] = Tail(@)], Append(P, <<d, Head(inbox[d])>>))
<1> DEFINE in2 == [inbox EXCEPT ![d] = Tail(@)]
           mo == Head(inbox[d])
           Q == Append(P, <<d, mo>>)
<1>0. in2 = [inbox EXCEPT ![d] = Tail(@)] /\ \A e \in Dialogs : Len(in2[e]) \in Nat
  OBVIOUS
<1> HIDE DEF in2
<1>1. Ordered(acc, in2, P) /\ IsNext(mo, d, acc, in2, P)
  BY <1>0, RemovalKeepsOrder
<1>2. mo \in Mos
  OBVIOUS
<1> HIDE DEF mo
<1>3. /\ Len(Q) = Len(P) + 1 /\ Len(P) \in Nat
      /\ Q[Len(P) + 1] = <<d, mo>>
      /\ \A i \in 1 .. Len(P) : Q[i] = P[i]
  BY <1>2
<1> HIDE DEF Q
<1>4. \A i \in 1 .. Len(Q) : \/ i \in 1 .. Len(P) /\ Q[i] = P[i]
                             \/ i = Len(P) + 1 /\ Q[i][1] = d /\ Q[i][2] = mo
  BY <1>3
<1>5. \A i \in 1 .. Len(Q) : Q[i][2] \in acc /\ Owner(Q[i][2]) = Owner(Q[i][1])
  BY <1>1, <1>4 DEF Ordered, IsNext
<1>6. \A i, j \in 1 .. Len(Q) : /\ i < j /\ Q[i][1] = Q[j][1] => Q[i][2][2] < Q[j][2][2]
                                /\ Q[i][2] = Q[j][2] => Q[i][1] = Q[j][1]
  <2> SUFFICES ASSUME NEW i \in 1 .. Len(Q), NEW j \in 1 .. Len(Q)
               PROVE  /\ i < j /\ Q[i][1] = Q[j][1] => Q[i][2][2] < Q[j][2][2]
                      /\ Q[i][2] = Q[j][2] => Q[i][1] = Q[j][1]
    OBVIOUS
  <2>1. CASE i \in 1 .. Len(P) /\ j \in 1 .. Len(P)
    BY <2>1, <1>1, <1>3 DEF Ordered, IsNext
  <2>2. CASE i \in 1 .. Len(P) /\ j = Len(P) + 1
    BY <2>2, <1>1, <1>3 DEF IsNext
  <2>3. CASE i = Len(P) + 1
    BY <2>3, <1>1, <1>3, <1>4 DEF IsNext
  <2> QED
    BY <2>1, <2>2, <2>3, <1>3
<1>7. \A i \in 1 .. Len(Q), e \in Dialogs : \A k \in 1 .. Len(in2[e]) :
         /\ Q[i][1] = e => Q[i][2][2] < in2[e][k][2]
         /\ Q[i][2] = in2[e][k] => Q[i][1] = e
  <2> SUFFICES ASSUME NEW i \in 1 .. Len(Q), NEW e \in Dialogs, NEW k \in 1 .. Len(in2[e])
               PROVE  /\ Q[i][1] = e => Q[i][2][2] < in2[e][k][2]
                      /\ Q[i][2] = in2[e][k] => Q[i][1] = e
    OBVIOUS
  <2>1. CASE i \in 1 .. Len(P) /\ Q[i] = P[i]
    BY <2>1, <1>1 DEF Ordered
  <2>2. CASE Q[i][1] = d /\ Q[i][2] = mo
    BY <2>2, <1>1 DEF IsNext
  <2> QED
    BY <2>1, <2>2, <1>4
<1> QED
  BY <1>1, <1>5, <1>6, <1>7 DEF Ordered, in2, mo, Q

\* Taking an MT from the channel changes nothing in what was produced.
LEMMA DeliverKeepsOrder ==
    ASSUME NEW h \in Seq(Mts), NEW q \in Seq(Mts), q # <<>>
    PROVE  Append(h, Head(q)) \o Tail(q) = h \o q
  OBVIOUS

\* What is put in the channel is produced last.
LEMMA AppendToProduced ==
    ASSUME NEW h \in Seq(Mts), NEW q \in Seq(Mts), NEW mt \in Mts
    PROVE  h \o Append(q, mt) = Append(h \o q, mt)
  OBVIOUS

\* What the dialogs accepted, have still to answer and have answered, in order.
OrderInv == Ordered(Accepted, Unanswered, Produced)

\* The three have the types that the lemmas ask for.
LEMMA OrderTypes ==
    ASSUME TypeOK
    PROVE  /\ Accepted \in SUBSET Mos
           /\ Unanswered \in [Dialogs -> Seq(Mos)]
           /\ Produced \in Seq(Mts)
<1>1. Unanswered \in [Dialogs -> Seq(Mos)]
  <2> SUFFICES ASSUME NEW d \in Dialogs
               PROVE  (IF in_hand[d] = None THEN mo_queue[d]
                       ELSE <<in_hand[d]>> \o mo_queue[d]) \in Seq(Mos)
    BY DEF Unanswered
  <2> QED
    BY DEF TypeOK
<1> QED
  BY <1>1 DEF TypeOK, Accepted, Produced

\* Every step of the router is one of the promise's, and keeps the order.
LEMMA OrderStep == RouterInv /\ OrderInv /\ [Next]_vars => OrderInv'
<1> SUFFICES ASSUME RouterInv, OrderInv, [Next]_vars PROVE OrderInv'
  OBVIOUS
<1>1. /\ Accepted \in SUBSET Mos
      /\ Unanswered \in [Dialogs -> Seq(Mos)]
      /\ Produced \in Seq(Mts)
      /\ delivered \in Seq(Mts) /\ mt_queue \in Seq(Mts)
  BY OrderTypes DEF RouterInv, TypeOK
<1>2. Promise!Dialogs = Dialogs /\ Promise!Mos = Mos /\ \A d : Promise!Owner(d) = Owner(d)
  BY DEF Promise!Dialogs, Promise!Mos, Dialogs, Mos, Promise!Owner, Owner
<1>3. ASSUME NEW d \in Dialogs, NEW mo \in Mos, Promise!Accept(d, mo) PROVE OrderInv'
  <2>1. /\ Owner(d) = Owner(mo)
        /\ \A m \in Accepted : Owner(m) = Owner(mo) => m[2] < mo[2]
        /\ Accepted' = Accepted \cup {mo}
        /\ Unanswered' = [Unanswered EXCEPT ![d] = Append(@, mo)]
        /\ Produced' = Produced
    BY <1>2, <1>3 DEF Promise!Accept, Produced
  <2> QED
    BY <1>1, <2>1, AcceptKeepsOrder DEF OrderInv
<1>4. ASSUME NEW d \in Dialogs, Promise!Answer(d) PROVE OrderInv'
  <2>1. /\ Unanswered[d] # <<>>
        /\ mt_queue' = Append(mt_queue, <<d, Head(Unanswered[d])>>)
        /\ Unanswered' = [Unanswered EXCEPT ![d] = Tail(@)]
        /\ Accepted' = Accepted /\ delivered' = delivered
    BY <1>4 DEF Promise!Answer
  <2>2. <<d, Head(Unanswered[d])>> \in Mts
    BY <1>1, <2>1 DEF Mts
  <2>3. Produced' = Append(Produced, <<d, Head(Unanswered[d])>>)
    BY <1>1, <2>1, <2>2, AppendToProduced DEF Produced
  <2> QED
    BY <1>1, <2>1, <2>3, AnswerKeepsOrder DEF OrderInv
<1>5. ASSUME NEW d \in Dialogs, Promise!LeaveUnanswered(d) PROVE OrderInv'
  <2>1. /\ Unanswered[d] # <<>>
        /\ Unanswered' = [Unanswered EXCEPT ![d] = Tail(@)]
        /\ Accepted' = Accepted /\ Produced' = Produced
    BY <1>5 DEF Promise!LeaveUnanswered, Produced
  <2> QED
    BY <1>1, <2>1, RemovalKeepsOrder DEF OrderInv
<1>6. CASE Promise!Deliver
  <2>1. /\ Produced' = Produced
        /\ Accepted' = Accepted /\ Unanswered' = Unanswered
    BY <1>1, <1>6, DeliverKeepsOrder DEF Promise!Deliver, Produced
  <2> QED
    BY <2>1 DEF OrderInv
<1>7. CASE Promise!Close
  BY <1>7 DEF Promise!Close, OrderInv, Produced
<1>8. CASE UNCHANGED Promise!vars
  BY <1>8 DEF Promise!vars, OrderInv, Produced
<1> QED
  BY RouterStep, <1>2, <1>3, <1>4, <1>5, <1>6, <1>7, <1>8 DEF ServiceStep

\* What the dialogs accepted, hold and answered is in order in every reachable state.
THEOREM OrderTheorem == Spec => []OrderInv
<1>1. Init => OrderInv
  <2> SUFFICES ASSUME Init PROVE OrderInv
    OBVIOUS
  <2>1. Unanswered = [d \in Dialogs |-> <<>>] /\ Produced = <<>>
    BY DEF Init, Unanswered, Produced
  <2> QED
    BY <2>1 DEF OrderInv, Ordered
<1> QED
  BY <1>1, OrderStep, RouterInvariant, PTL DEF Spec

\* No MO is answered twice, not by two dialogs of its user either (user_router.rs:330
\* lets two of them live at once).
THEOREM AnsweredOnceTheorem == Spec => []AnsweredOnce
<1>1. TypeOK /\ OrderInv => AnsweredOnce
  <2> SUFFICES ASSUME TypeOK, OrderInv, NEW i \in 1 .. Len(Produced), NEW j \in 1 .. Len(Produced),
                      Produced[i][2] = Produced[j][2]
               PROVE  i = j
    BY DEF AnsweredOnce
  <2>1. Produced[i] \in Mts /\ Produced[j] \in Mts /\ i \in Int /\ j \in Int
    BY OrderTypes
  <2>2. Produced[i][2][2] \in Int /\ Produced[i][1] = Produced[j][1]
    BY <2>1 DEF OrderInv, Ordered, Mts, Mos
  <2> QED
    BY <2>1, <2>2 DEF OrderInv, Ordered
<1> QED
  BY <1>1, OrderTheorem, RouterInvariant, PTL DEF RouterInv

\* A dialog answers only its own user's MOs, in the order they were sent.
THEOREM DialogAnswersInOrderTheorem == Spec => []DialogAnswersInOrder
<1>1. OrderInv => DialogAnswersInOrder
  BY DEF OrderInv, Ordered, DialogAnswersInOrder
<1> QED
  BY <1>1, OrderTheorem, PTL
-----------------------------------------------------------------------------
(* Users whose dialogs never stopped lose nothing.  That no MO is lost is    *)
(* again an argument about DialogService's five actions; that there is one   *)
(* dialog to be lost in is the router's.                                     *)

\* An MO has a place: it was answered (P), or a dialog has still to answer it.
HasPlace(mo, inbox, P) ==
    \/ \E i \in 1 .. Len(P) : P[i][2] = mo
    \/ \E d \in Dialogs : \E k \in 1 .. Len(inbox[d]) : inbox[d][k] = mo

\* An accepted MO gets a place, and the others keep theirs.
LEMMA AcceptGivesPlace ==
    ASSUME NEW inbox \in [Dialogs -> Seq(Mos)], NEW P, NEW d \in Dialogs, NEW mo \in Mos,
           NEW m, HasPlace(m, inbox, P) \/ m = mo
    PROVE  HasPlace(m, [inbox EXCEPT ![d] = Append(@, mo)], P)
<1> DEFINE in2 == [inbox EXCEPT ![d] = Append(@, mo)]
<1>1. /\ Len(in2[d]) = Len(inbox[d]) + 1 /\ Len(inbox[d]) \in Nat
      /\ in2[d][Len(inbox[d]) + 1] = mo
      /\ \A k \in 1 .. Len(inbox[d]) : in2[d][k] = inbox[d][k]
      /\ \A e \in Dialogs : e # d => in2[e] = inbox[e]
  OBVIOUS
<1> HIDE DEF in2
<1>2. CASE m = mo
  <2>1. Len(inbox[d]) + 1 \in 1 .. Len(in2[d])
    BY <1>1
  <2> QED
    BY <1>1, <1>2, <2>1 DEF HasPlace
<1>3. ASSUME NEW e \in Dialogs, NEW k \in 1 .. Len(inbox[e]), inbox[e][k] = m
      PROVE  HasPlace(m, in2, P)
  <2>1. k \in 1 .. Len(in2[e]) /\ in2[e][k] = m
    BY <1>1, <1>3
  <2> QED
    BY <2>1 DEF HasPlace
<1>4. HasPlace(m, inbox, P) => HasPlace(m, in2, P)
  BY <1>3 DEF HasPlace
<1> QED
  BY <1>2, <1>4 DEF in2

\* Where the head of an inbox goes, the others keep their places.
LEMMA RemovalKeepsPlaces ==
    ASSUME NEW inbox \in [Dialogs -> Seq(Mos)], NEW P, NEW d \in Dialogs, inbox[d] # <<>>,
           NEW in2, in2 = [inbox EXCEPT ![d] = Tail(@)],
           NEW m, HasPlace(m, inbox, P), m # Head(inbox[d])
    PROVE  HasPlace(m, in2, P)
<1>1. /\ Len(inbox[d]) \in Nat \ {0} /\ Len(in2[d]) = Len(inbox[d]) - 1
      /\ Head(inbox[d]) = inbox[d][1]
      /\ \A k \in 1 .. Len(in2[d]) : in2[d][k] = inbox[d][k + 1]
      /\ \A e \in Dialogs : e # d => in2[e] = inbox[e]
  OBVIOUS
<1>2. ASSUME NEW k \in 1 .. Len(inbox[d]), inbox[d][k] = m PROVE HasPlace(m, in2, P)
  <2>1. k - 1 \in 1 .. Len(in2[d]) /\ in2[d][k - 1] = m
    BY <1>1, <1>2
  <2> QED
    BY <2>1 DEF HasPlace
<1>3. ASSUME NEW e \in Dialogs, e # d, NEW k \in 1 .. Len(inbox[e]), inbox[e][k] = m
      PROVE  HasPlace(m, in2, P)
  BY <1>1, <1>3 DEF HasPlace
<1> QED
  BY <1>2, <1>3 DEF HasPlace

\* If it is answered, it keeps a place as well.
LEMMA AnswerKeepsPlaces ==
    ASSUME NEW inbox \in [Dialogs -> Seq(Mos)], NEW P \in Seq(Mts), NEW d \in Dialogs,
           inbox[d] # <<>>, NEW m, HasPlace(m, inbox, P)
    PROVE  HasPlace(m, [inbox EXCEPT ![d] = Tail(@)], Append(P, <<d, Head(inbox[d])>>))
<1> DEFINE in2 == [inbox EXCEPT ![d] = Tail(@)]
           Q == Append(P, <<d, Head(inbox[d])>>)
<1>1. /\ Len(Q) = Len(P) + 1 /\ Len(P) \in Nat
      /\ Q[Len(P) + 1][2] = Head(inbox[d])
      /\ \A i \in 1 .. Len(P) : Q[i] = P[i]
  BY DEF Mts, Dialogs
<1>2. in2 = [inbox EXCEPT ![d] = Tail(@)]
  OBVIOUS
<1> HIDE DEF in2, Q
<1>3. CASE m = Head(inbox[d])
  <2>1. Len(P) + 1 \in 1 .. Len(Q)
    BY <1>1
  <2> QED
    BY <1>1, <1>3, <2>1 DEF HasPlace, in2, Q
<1>4. CASE m # Head(inbox[d])
  <2>1. HasPlace(m, in2, P)
    BY <1>2, <1>4, RemovalKeepsPlaces
  <2>2. \A i \in 1 .. Len(P) : i \in 1 .. Len(Q) /\ Q[i] = P[i]
    BY <1>1
  <2>3. HasPlace(m, in2, Q)
    BY <2>1, <2>2 DEF HasPlace
  <2> QED
    BY <2>3 DEF in2, Q
<1> QED
  BY <1>3, <1>4

\* No accepted MO of a user whose dialog never stopped has lost its place.
NothingLost ==
    \A u \in Users : Complete(u) =>
        \A mo \in Accepted : Owner(mo) = u => HasPlace(mo, Unanswered, Produced)

\* A user who lost an MO once does not count as complete any more.
LEMMA IncompleteForGood ==
    ASSUME RouterInv, [Next]_vars, NEW u \in Users, Complete(u)'
    PROVE  Complete(u)
<1>1. Undisturbed(u)
  BY DisturbedForGood DEF RouterInv, Complete
<1>2. refused_mts \subseteq refused_mts'
  BY DEF Next, RoutingStep, RouteMo, SendMo, EndOfMoStream, CountMos, CheckRemaining,
         CloseDialogs, CloseMtChannel, GracePeriodElapses, DialogStep, TakeMo, SendMt,
         RefuseMt, IdleTimeout, CloseOnIdle, EndOfDialogStream, CloseAtEnd, PanicDialog,
         ConsumeMt, Terminated, vars, refusals
<1> QED
  BY <1>1, <1>2 DEF Complete

\* An MO is abandoned by a dialog that stops, or whose MT is refused.
LEMMA AbandonedIsIncomplete ==
    ASSUME RouterInv, NEW d \in Dialogs, Abandons(d), NEW u \in Users, Complete(u)'
    PROVE  Owner(d) # u
<1>1. CASE RefuseMt(d)
  <2>1. <<d, in_hand[d]>> \in refused_mts'
    BY <1>1 DEF RefuseMt
  <2> QED
    BY <2>1 DEF Complete
<1>2. CASE PanicDialog(d)
  <2>1. task'[d] = "panicked"
    BY <1>2 DEF PanicDialog, RouterInv, TypeOK
  <2> QED
    BY <2>1 DEF Complete, Undisturbed, DialogsOf, Serving
<1> QED
  BY <1>1, <1>2 DEF Abandons

\* Every step keeps the places of complete users' MOs, and gives one to a new MO.
LEMMA NothingLostStep == RouterInv /\ OrderInv /\ NothingLost /\ [Next]_vars => NothingLost'
<1> SUFFICES ASSUME RouterInv, OrderInv, NothingLost, [Next]_vars,
                    NEW u \in Users, Complete(u)', NEW mo \in Accepted', Owner(mo) = u
             PROVE  HasPlace(mo, Unanswered', Produced')
  BY DEF NothingLost, HasPlace
<1>1. /\ Accepted \in SUBSET Mos
      /\ Unanswered \in [Dialogs -> Seq(Mos)]
      /\ Produced \in Seq(Mts)
      /\ delivered \in Seq(Mts) /\ mt_queue \in Seq(Mts)
  BY OrderTypes DEF RouterInv, TypeOK
<1>2. \A m \in Accepted : Owner(m) = u => HasPlace(m, Unanswered, Produced)
  BY IncompleteForGood DEF NothingLost
<1>3. ASSUME NEW d \in Dialogs, NEW new \in Mos, Promise!Accept(d, new)
      PROVE  HasPlace(mo, Unanswered', Produced')
  <2>1. /\ Accepted' = Accepted \cup {new}
        /\ Unanswered' = [Unanswered EXCEPT ![d] = Append(@, new)]
        /\ Produced' = Produced
    BY <1>3 DEF Promise!Accept, Produced
  <2>2. HasPlace(mo, Unanswered, Produced) \/ mo = new
    BY <1>2, <2>1
  <2>3. HasPlace(mo, Unanswered', Produced)
    BY <1>1, <2>1, <2>2, AcceptGivesPlace
  <2> QED
    BY <2>1, <2>3
<1>4. ASSUME NEW d \in Dialogs, Promise!Answer(d)
      PROVE  HasPlace(mo, Unanswered', Produced')
  <2>1. /\ Unanswered[d] # <<>>
        /\ mt_queue' = Append(mt_queue, <<d, Head(Unanswered[d])>>)
        /\ Unanswered' = [Unanswered EXCEPT ![d] = Tail(@)]
        /\ Accepted' = Accepted /\ delivered' = delivered
    BY <1>4 DEF Promise!Answer
  <2>2. <<d, Head(Unanswered[d])>> \in Mts
    BY <1>1, <2>1 DEF Mts
  <2>3. Produced' = Append(Produced, <<d, Head(Unanswered[d])>>)
    BY <1>1, <2>1, <2>2, AppendToProduced DEF Produced
  <2> QED
    BY <1>1, <1>2, <2>1, <2>3, AnswerKeepsPlaces
<1>5. ASSUME NEW d \in Dialogs, Promise!LeaveUnanswered(d), Abandons(d)
      PROVE  HasPlace(mo, Unanswered', Produced')
  <2>1. /\ Unanswered[d] # <<>>
        /\ Unanswered' = [Unanswered EXCEPT ![d] = Tail(@)]
        /\ Accepted' = Accepted /\ Produced' = Produced
    BY <1>5 DEF Promise!LeaveUnanswered, Produced
  <2>2. Owner(Head(Unanswered[d])) = Owner(d)
    <3>1. 1 \in 1 .. Len(Unanswered[d]) /\ Head(Unanswered[d]) = Unanswered[d][1]
      BY <1>1, <2>1
    <3> QED
      BY <3>1 DEF OrderInv, Ordered
  <2>3. mo # Head(Unanswered[d])
    BY <1>5, <2>2, AbandonedIsIncomplete
  <2> QED
    BY <1>1, <1>2, <2>1, <2>3, RemovalKeepsPlaces
<1>6. CASE Promise!Deliver
  <2>1. /\ Produced' = Produced
        /\ Accepted' = Accepted /\ Unanswered' = Unanswered
    BY <1>1, <1>6, DeliverKeepsOrder DEF Promise!Deliver, Produced
  <2> QED
    BY <1>2, <2>1
<1>7. CASE Promise!Close \/ UNCHANGED Promise!vars
  <2>1. /\ Produced' = Produced
        /\ Accepted' = Accepted /\ Unanswered' = Unanswered
    BY <1>7 DEF Promise!Close, Promise!vars, Produced
  <2> QED
    BY <1>2, <2>1
<1> QED
  BY RouterStep, <1>3, <1>4, <1>5, <1>6, <1>7 DEF ServiceStep

\* Only dialogs that were opened have something to answer, or have answered.
OnlyOpened ==
    \A d \in Dialogs : task[d] = "absent" =>
        /\ mo_queue[d] = <<>>
        /\ \A i \in 1 .. Len(Produced) : Produced[i][1] # d

LEMMA OnlyOpenedStep == RouterInv /\ OnlyOpened /\ [Next]_vars => OnlyOpened'
<1> SUFFICES ASSUME RouterInv, OnlyOpened, [Next]_vars PROVE OnlyOpened'
  OBVIOUS
<1>0. /\ delivered \in Seq(Mts) /\ mt_queue \in Seq(Mts) /\ Produced \in Seq(Mts)
      /\ task \in [Dialogs -> TaskState] /\ mo_queue \in [Dialogs -> Seq(Mos)]
  BY OrderTypes DEF RouterInv, TypeOK
<1> USE DEF OnlyOpened, routingVars, channelVars, mtVars, refusals
<1>1. ASSUME NEW u \in Users, RouteMo(u) PROVE OnlyOpened'
  <2>1. \A d \in Dialogs : task'[d] = "absent" => task[d] = "absent"
    BY <1>0, <1>1 DEF RouteMo, RouteToExisting, RouteToNew
  <2>2. UNCHANGED <<mo_queue, delivered, mt_queue>>
    BY <1>1 DEF RouteMo
  <2> QED
    BY <2>1, <2>2 DEF Produced
<1>2. CASE SendMo
  <2>1. mo_tx \in Dialogs /\ task[mo_tx] # "absent"
    BY <1>2 DEF SendMo, RouterInv, TypeOK, InHands, RoutesAreSound
  <2>2. \A d \in Dialogs : task'[d] = "absent" => d # mo_tx /\ task[d] = "absent"
    BY <1>0, <1>2, <2>1 DEF SendMo
  <2>3. \A d \in Dialogs : d # mo_tx => mo_queue'[d] = mo_queue[d]
    BY <1>0, <1>2, <2>1 DEF SendMo
  <2> QED
    BY <1>2, <2>2, <2>3 DEF SendMo, Produced
<1>3. CASE EndOfMoStream \/ CountMos \/ CheckRemaining \/ CloseDialogs
           \/ CloseMtChannel \/ GracePeriodElapses
  BY <1>3 DEF EndOfMoStream, CountMos, CheckRemaining, CloseDialogs,
              CloseMtChannel, GracePeriodElapses, Produced
<1>4. ASSUME NEW d \in Dialogs, DialogStep(d) PROVE OnlyOpened'
  <2>1. task[d] # "absent"
    BY <1>4 DEF DialogStep, TakeMo, SendMt, RefuseMt, IdleTimeout, CloseOnIdle,
                EndOfDialogStream, CloseAtEnd, PanicDialog
  <2>2. \A e \in Dialogs : task'[e] = "absent" => task[e] = "absent" /\ e # d
    BY <1>0, <1>4, <2>1 DEF DialogStep, TakeMo, SendMt, RefuseMt, IdleTimeout, CloseOnIdle,
                EndOfDialogStream, CloseAtEnd, PanicDialog
  <2>3. \A e \in Dialogs : e # d => mo_queue'[e] = mo_queue[e]
    BY <1>0, <1>4 DEF DialogStep, TakeMo, SendMt, RefuseMt, IdleTimeout, CloseOnIdle,
                EndOfDialogStream, CloseAtEnd, PanicDialog
  <2>4. CASE SendMt(d)
    <3>1. <<d, in_hand[d]>> \in Mts
      BY <2>4 DEF SendMt, RouterInv, TypeOK, InHands, Mts
    <3>2. Produced' = Append(Produced, <<d, in_hand[d]>>)
      BY <1>0, <2>4, <3>1, AppendToProduced DEF SendMt, Produced
    <3>3. \A i \in 1 .. Len(Produced') :
             \/ Produced'[i][1] = d
             \/ i \in 1 .. Len(Produced) /\ Produced'[i] = Produced[i]
      BY <1>0, <3>1, <3>2
    <3> QED
      BY <2>2, <2>3, <3>3
  <2>5. CASE ~SendMt(d)
    <3>1. Produced' = Produced
      BY <1>4, <2>5 DEF DialogStep, TakeMo, RefuseMt, IdleTimeout, CloseOnIdle,
                EndOfDialogStream, CloseAtEnd, PanicDialog, Produced
    <3> QED
      BY <2>2, <2>3, <3>1
  <2> QED
    BY <2>4, <2>5
<1>5. CASE ConsumeMt
  <2>1. Produced' = Produced
    BY <1>0, <1>5, DeliverKeepsOrder DEF ConsumeMt, Produced
  <2> QED
    BY <1>5, <2>1 DEF ConsumeMt
<1>6. CASE Terminated \/ UNCHANGED vars
  BY <1>6 DEF Terminated, vars, Produced
<1> QED
  BY <1>1, <1>2, <1>3, <1>4, <1>5, <1>6 DEF Next, RoutingStep

\* A complete user has one dialog, in which all that is not in the routing task's
\* hands is, or was answered.
LEMMA OneDialogToBeIn ==
    ASSUME RouterInv, OrderInv, OnlyOpened, NEW u \in Users, Complete(u)
    PROVE  \E d : /\ \A i \in 1 .. Len(Produced) :
                        Owner(Produced[i][1]) = u => Produced[i][1] = d
                  /\ \A e \in DialogsOf(u) : Unanswered[e] # <<>> => e = d
<1>1. \A e \in DialogsOf(u) : task[e] # "absent" => e = per_user_mo_tx[u]
  BY DEF RouterInv, UndisturbedRoute, Complete
<1>2. \A i \in 1 .. Len(Produced) : Produced[i] \in Mts
  BY OrderTypes DEF RouterInv
<1>3. ASSUME NEW i \in 1 .. Len(Produced), Owner(Produced[i][1]) = u
      PROVE  Produced[i][1] = per_user_mo_tx[u]
  <2>1. Produced[i][1] \in DialogsOf(u)
    BY <1>2, <1>3 DEF Mts, DialogsOf
  <2> QED
    BY <1>1, <2>1 DEF OnlyOpened, DialogsOf
<1>4. ASSUME NEW e \in DialogsOf(u), Unanswered[e] # <<>> PROVE e = per_user_mo_tx[u]
  <2>1. mo_queue[e] # <<>> \/ task[e] = "working"
    BY <1>4 DEF Unanswered, DialogsOf, RouterInv, InHands
  <2> QED
    BY <1>1, <2>1 DEF OnlyOpened, DialogsOf
<1> QED
  BY <1>3, <1>4

\* The three kinds of places of a pipeline.
LEMMA PipelineMembers ==
    ASSUME NEW u
    PROVE  \A p : p \in Pipeline(u) <=>
              \/ \E i \in 1 .. Len(Produced) :
                    Owner(Produced[i][1]) = u /\ p = <<1, i, Produced[i][2]>>
              \/ \E d \in DialogsOf(u) : \E k \in 1 .. Len(Unanswered[d]) :
                    p = <<2, k, Unanswered[d][k]>>
              \/ mo_in_route \in DialogsOf(u) /\ p = <<3, 1, mo_in_route>>
<1> DEFINE Answered == {<<1, i, Produced[i][2]>> :
                           i \in {i \in 1 .. Len(Produced) : Owner(Produced[i][1]) = u}}
           Places(d) == {<<2, k, Unanswered[d][k]>> : k \in 1 .. Len(Unanswered[d])}
           InDialogs == UNION {Places(d) : d \in DialogsOf(u)}
           InRouting == {<<3, 1, mo>> : mo \in {mo_in_route} \cap DialogsOf(u)}
<1>1. Pipeline(u) = Answered \cup InDialogs \cup InRouting
  BY DEF Pipeline
<1>2. \A p : p \in Answered <=> \E i \in 1 .. Len(Produced) :
                Owner(Produced[i][1]) = u /\ p = <<1, i, Produced[i][2]>>
  OBVIOUS
<1>3. \A p : p \in InDialogs <=> \E d \in DialogsOf(u) : \E k \in 1 .. Len(Unanswered[d]) :
                p = <<2, k, Unanswered[d][k]>>
  <2>1. \A p, d : p \in Places(d)
                    <=> \E k \in 1 .. Len(Unanswered[d]) : p = <<2, k, Unanswered[d][k]>>
    OBVIOUS
  <2> HIDE DEF Places
  <2> QED
    BY <2>1
<1>4. \A p : p \in InRouting <=> mo_in_route \in DialogsOf(u) /\ p = <<3, 1, mo_in_route>>
  OBVIOUS
<1> HIDE DEF Answered, InDialogs, InRouting
<1> QED
  BY <1>1, <1>2, <1>3, <1>4

\* What stands at a place of a complete user's pipeline.
LEMMA PipelinePlaces ==
    ASSUME RouterInv, OrderInv, NEW u \in Users, NEW p \in Pipeline(u)
    PROVE  /\ p[3] \in Mos /\ Owner(p[3]) = u /\ p[3][2] <= sent[u]
           /\ \/ /\ p[1] = 1 /\ p[2] \in 1 .. Len(Produced) /\ p[3] = Produced[p[2]][2]
                 /\ p[3] \in Accepted /\ Owner(Produced[p[2]][1]) = u
              \/ \E d \in DialogsOf(u) :
                    /\ p[1] = 2 /\ p[2] \in 1 .. Len(Unanswered[d])
                    /\ p[3] = Unanswered[d][p[2]] /\ p[3] \in Accepted
              \/ p[1] = 3 /\ p[2] = 1 /\ p[3] = mo_in_route
           /\ p = <<p[1], p[2], p[3]>>
<1>1. \A mo \in Accepted : mo \in Mos /\ mo[2] <= sent[Owner(mo)]
  BY DEF Accepted
<1>2. CASE \E i \in 1 .. Len(Produced) :
              Owner(Produced[i][1]) = u /\ p = <<1, i, Produced[i][2]>>
  <2>1. PICK i \in 1 .. Len(Produced) :
              Owner(Produced[i][1]) = u /\ p = <<1, i, Produced[i][2]>>
    BY <1>2
  <2>2. Produced[i][2] \in Accepted /\ Owner(Produced[i][2]) = u
    BY <2>1 DEF OrderInv, Ordered
  <2> QED
    BY <1>1, <2>1, <2>2
<1>3. CASE \E d \in DialogsOf(u) : \E k \in 1 .. Len(Unanswered[d]) :
              p = <<2, k, Unanswered[d][k]>>
  <2>1. PICK d \in DialogsOf(u) : \E k \in 1 .. Len(Unanswered[d]) :
              p = <<2, k, Unanswered[d][k]>>
    BY <1>3
  <2>2. PICK k \in 1 .. Len(Unanswered[d]) : p = <<2, k, Unanswered[d][k]>>
    BY <2>1
  <2>3. Unanswered[d][k] \in Accepted /\ Owner(Unanswered[d][k]) = u
    BY DEF OrderInv, Ordered, DialogsOf
  <2> QED
    BY <1>1, <2>2, <2>3
<1>4. CASE mo_in_route \in DialogsOf(u) /\ p = <<3, 1, mo_in_route>>
  <2>1. mo_in_route \in Mos /\ Owner(mo_in_route) = u /\ mo_in_route # None
    BY <1>4, UserRouterAssumption DEF DialogsOf, Dialogs, Mos, UserRouterAssumption
  <2>2. mo_in_route[2] = sent[u] /\ sent[u] \in Int
    BY <2>1, UserRouterAssumption DEF RouterInv, TypeOK, MosAreInOrder, UserRouterAssumption
  <2> QED
    BY <1>4, <2>1, <2>2
<1>5. \/ \E i \in 1 .. Len(Produced) :
            Owner(Produced[i][1]) = u /\ p = <<1, i, Produced[i][2]>>
      \/ \E d \in DialogsOf(u) : \E k \in 1 .. Len(Unanswered[d]) :
            p = <<2, k, Unanswered[d][k]>>
      \/ mo_in_route \in DialogsOf(u) /\ p = <<3, 1, mo_in_route>>
  BY PipelineMembers
<1> QED
  BY <1>2, <1>3, <1>4, <1>5

\* Nothing is in the pipeline of a complete user but what the user sent, and all of it.
LEMMA PipelineIsComplete ==
    ASSUME RouterInv, OrderInv, NothingLost, NEW u \in Users, Complete(u)
    PROVE  {p[3] : p \in Pipeline(u)} = {<<u, n>> : n \in 1 .. sent[u]}
<1>0. sent[u] \in 0 .. MaxMos /\ MaxMos \in Nat
  BY UserRouterAssumption DEF RouterInv, TypeOK, UserRouterAssumption
<1>1. ASSUME NEW p \in Pipeline(u) PROVE p[3] \in {<<u, n>> : n \in 1 .. sent[u]}
  <2>1. p[3] \in Mos /\ Owner(p[3]) = u /\ p[3][2] <= sent[u]
    BY PipelinePlaces
  <2> QED
    BY <1>0, <2>1 DEF Mos, Owner
<1>2. ASSUME NEW n \in 1 .. sent[u] PROVE \E p \in Pipeline(u) : p[3] = <<u, n>>
  <2> DEFINE mo == <<u, n>>
  <2>1. mo \in Mos /\ Owner(mo) = u /\ mo[2] = n /\ mo \in DialogsOf(u)
    BY <1>0 DEF Mos, Owner, DialogsOf, Dialogs
  <2> HIDE DEF mo
  <2>2. CASE mo = mo_in_route
    <3>1. <<3, 1, mo>> \in Pipeline(u)
      BY <2>1, <2>2, PipelineMembers
    <3> QED
      BY <3>1 DEF mo
  <2>3. CASE mo # mo_in_route
    <3>1. mo \notin refused_mos
      BY <2>1 DEF RouterInv, UndisturbedRoute, Complete
    <3>2. mo \in Accepted
      BY <1>0, <2>1, <2>3, <3>1 DEF Accepted
    <3>3. HasPlace(mo, Unanswered, Produced)
      BY <2>1, <3>2 DEF NothingLost
    <3>4. ASSUME NEW i \in 1 .. Len(Produced), Produced[i][2] = mo
          PROVE  \E p \in Pipeline(u) : p[3] = mo
      <4>1. Owner(Produced[i][1]) = u
        BY <2>1, <3>4 DEF OrderInv, Ordered
      <4>2. <<1, i, mo>> \in Pipeline(u)
        BY <3>4, <4>1, PipelineMembers
      <4> QED
        BY <4>2
    <3>5. ASSUME NEW d \in Dialogs, NEW k \in 1 .. Len(Unanswered[d]), Unanswered[d][k] = mo
          PROVE  \E p \in Pipeline(u) : p[3] = mo
      <4>1. d \in DialogsOf(u)
        BY <2>1, <3>5 DEF OrderInv, Ordered, DialogsOf
      <4>2. <<2, k, mo>> \in Pipeline(u)
        BY <3>5, <4>1, PipelineMembers
      <4> QED
        BY <4>2
    <3> QED
      BY <3>3, <3>4, <3>5 DEF HasPlace, mo
  <2> QED
    BY <2>2, <2>3
<1> QED
  BY <1>1, <1>2

\* Its places are in the order in which the MOs were sent.
LEMMA PipelineIsInOrder ==
    ASSUME RouterInv, OrderInv, OnlyOpened, NEW u \in Users, Complete(u),
           NEW p \in Pipeline(u), NEW q \in Pipeline(u)
    PROVE  /\ Before(p, q) => p[3][2] < q[3][2]
           /\ p = q \/ Before(p, q) \/ Before(q, p)
<1>1. PICK d : /\ \A i \in 1 .. Len(Produced) :
                     Owner(Produced[i][1]) = u => Produced[i][1] = d
               /\ \A e \in DialogsOf(u) : Unanswered[e] # <<>> => e = d
  BY OneDialogToBeIn
<1>2. Len(Produced) \in Nat /\ \A e \in DialogsOf(u) : Len(Unanswered[e]) \in Nat
  BY OrderTypes DEF RouterInv, DialogsOf
<1> DEFINE Answered(r) == /\ r[1] = 1 /\ r[2] \in 1 .. Len(Produced) /\ r[3] = Produced[r[2]][2]
                          /\ r[3] \in Accepted /\ Produced[r[2]][1] = d
           Waits(r) == /\ r[1] = 2 /\ d \in Dialogs /\ r[2] \in 1 .. Len(Unanswered[d])
                       /\ r[3] = Unanswered[d][r[2]] /\ r[3] \in Accepted
           Routed(r) == r[1] = 3 /\ r[2] = 1 /\ r[3] = mo_in_route
<1>3. ASSUME NEW r \in Pipeline(u)
      PROVE  /\ Answered(r) \/ Waits(r) \/ Routed(r)
             /\ r[2] \in Int /\ r[3] \in Mos /\ Owner(r[3]) = u
             /\ r = <<r[1], r[2], r[3]>>
  <2>1. ASSUME NEW e \in DialogsOf(u), r[2] \in 1 .. Len(Unanswered[e]) PROVE e = d
    BY <1>1, <1>2, <2>1
  <2> QED
    BY <1>1, <1>2, <2>1, PipelinePlaces DEF DialogsOf
<1>4. ASSUME NEW r \in Pipeline(u), Answered(r) \/ Waits(r), NEW t \in Pipeline(u), Routed(t)
      PROVE  r[3][2] < t[3][2]
  <2>1. r[3][2] <= sent[u] /\ r[3] # mo_in_route
    BY <1>3, <1>4 DEF Accepted
  <2>2. mo_in_route \in Mos /\ Owner(mo_in_route) = u /\ r[3] \in Mos /\ Owner(r[3]) = u
    BY <1>3, <1>4
  <2>3. mo_in_route[2] = sent[u]
    BY <2>2, UserRouterAssumption DEF RouterInv, MosAreInOrder, Mos, UserRouterAssumption
  <2>4. /\ r[3] = <<u, r[3][2]>> /\ mo_in_route = <<u, mo_in_route[2]>>
        /\ r[3][2] \in Int /\ mo_in_route[2] \in Int
    BY <2>2 DEF Mos, Owner
  <2>5. r[3][2] # mo_in_route[2]
    BY <2>1, <2>4
  <2> QED
    BY <1>4, <2>1, <2>3, <2>4, <2>5
<1>5. ASSUME NEW r \in Pipeline(u), NEW t \in Pipeline(u), Before(r, t)
      PROVE  r[3][2] < t[3][2]
  <2>1. CASE Answered(r) /\ Answered(t)
    BY <1>5, <2>1 DEF OrderInv, Ordered, Before
  <2>2. CASE Answered(r) /\ Waits(t)
    BY <1>5, <2>2 DEF OrderInv, Ordered, Before
  <2>3. CASE Waits(r) /\ Waits(t)
    BY <1>5, <2>3 DEF OrderInv, Ordered, Before
  <2>4. CASE Routed(t)
    BY <1>3, <1>4, <1>5, <2>4 DEF Before
  <2>5. ~(Waits(r) /\ Answered(t)) /\ ~(Routed(r) /\ ~Routed(t))
    BY <1>3, <1>5 DEF Before
  <2> QED
    BY <1>3, <2>1, <2>2, <2>3, <2>4, <2>5
<1>6. p = q \/ Before(p, q) \/ Before(q, p)
  <2>1. p[1] = q[1] /\ p[2] = q[2] => p[3] = q[3]
    BY <1>3
  <2>2. {p[1], q[1]} \subseteq Int /\ {p[2], q[2]} \subseteq Int
    BY <1>3
  <2>3. p[1] = q[1] /\ p[2] = q[2] => p = q
    BY <1>3, <2>1
  <2> QED
    BY <2>2, <2>3 DEF Before
<1> QED
  BY <1>5, <1>6

\* A user whose dialog never timed out, stopped or panicked, and none of whose MTs
\* came after the shutdown, finds all that was sent in the pipeline, each MO once and
\* in order (user_router.rs:136 to 213).
THEOREM NothingLostTheorem == Spec => []UndisturbedUsersLoseNothing
<1>1. Init => NothingLost /\ OnlyOpened
  <2> SUFFICES ASSUME Init PROVE NothingLost /\ OnlyOpened
    OBVIOUS
  <2>1. Accepted = {} /\ Produced = <<>>
    BY UserRouterAssumption DEF Init, Accepted, Produced, Mos, Owner, UserRouterAssumption
  <2> QED
    BY <2>1 DEF Init, NothingLost, OnlyOpened
<1>2. RouterInv /\ OrderInv /\ NothingLost /\ OnlyOpened /\ [Next]_vars
         => NothingLost' /\ OnlyOpened'
  BY NothingLostStep, OnlyOpenedStep
<1>3. RouterInv /\ OrderInv /\ NothingLost /\ OnlyOpened => UndisturbedUsersLoseNothing
  BY PipelineIsComplete, PipelineIsInOrder DEF UndisturbedUsersLoseNothing
<1> QED
  BY <1>1, <1>2, <1>3, OrderTheorem, RouterInvariant, PTL DEF Spec
=============================================================================

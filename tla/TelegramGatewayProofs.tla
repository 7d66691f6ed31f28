------------------------ MODULE TelegramGatewayProofs -----------------------
(* What TLAPS proves of the gateway, for every set of users and callers,   *)
(* every number of updates, every capacity and every size of the pool.     *)
EXTENDS TelegramGateway, FiniteSetTheorems, TLAPS

LEMMA InitGatewayInv == Init => GatewayInv
<1> SUFFICES ASSUME Init PROVE GatewayInv
  OBVIOUS
<1> USE GatewayAssumption DEF GatewayAssumption, Init, Router!Init
<1>1. TypeOK
  <2>1. /\ worker \in [Users -> Seq(Updates)]
        /\ mo_channel \in Seq(Updates)
        /\ Len(mo_channel) <= MoCapacity
    OBVIOUS
  <2>2. /\ inbox \in [Updates -> Seq(Updates)]
        /\ outbox \in Seq(Updates \X Updates)
        /\ handed \in Seq(Updates \X Updates)
    BY DEF Router!Dialogs, Router!Mos, Updates
  <2>3. received \in [Users -> 0 .. MaxMos]
    OBVIOUS
  <2>4. QED
    BY <2>1, <2>2, <2>3 DEF TypeOK
<1>2. UpdatesAreInTransit
  BY DEF UpdatesAreInTransit, WaitInOrder, NoneIsMissing, ChannelIsInOrder,
         Handled, ToSet
<1>3. WorkersEndFirst
  BY DEF WorkersEndFirst
<1>4. MtsAreCounted
  <2>1. IsFiniteSet(sending) /\ Cardinality(sending) = 0
    BY FS_EmptySet
  <2>2. QED
    BY <2>1 DEF MtsAreCounted
<1>5. HandleIsOwned
  BY DEF HandleIsOwned
<1>6. QED
  BY <1>1, <1>2, <1>3, <1>4, <1>5 DEF GatewayInv

\* Every step keeps every variable in its type.
LEMMA TypeStep == TypeOK /\ [Next]_vars => TypeOK'
<1> SUFFICES ASSUME TypeOK, [Next]_vars PROVE TypeOK'
  OBVIOUS
<1> USE GatewayAssumption DEF GatewayAssumption, TypeOK, intakeVars, joinVars,
        mtVars, routerVars
<1>1. CASE FinishNew \/ StartEventLoop \/ StopEventLoop \/ EndEventLoop
  BY <1>1 DEF FinishNew, StartEventLoop, StopEventLoop, EndEventLoop, ProducerOpen
<1>2. ASSUME NEW u \in Users, ReceiveUpdate(u) PROVE TypeOK'
  <2>1. <<u, received[u] + 1>> \in Updates
    BY <1>2 DEF ReceiveUpdate, Updates
  <2>2. Append(worker[u], <<u, received[u] + 1>>) \in Seq(Updates)
    BY <2>1
  <2>3. QED
    BY <1>2, <2>2 DEF ReceiveUpdate
<1>3. ASSUME NEW u \in Users, HandleUpdate(u) PROVE TypeOK'
  <2>1. Head(worker[u]) \in Updates /\ Tail(worker[u]) \in Seq(Updates)
    BY <1>3 DEF HandleUpdate
  <2>2. worker' \in [Users -> Seq(Updates)]
    BY <1>3, <2>1 DEF HandleUpdate
  <2>3. CASE mo_open /\ HasRoom
    <3>1. /\ Append(mo_channel, Head(worker[u])) \in Seq(Updates)
          /\ Len(Append(mo_channel, Head(worker[u]))) <= MoCapacity
      BY <2>1, <2>3 DEF HasRoom
    <3>2. QED
      BY <1>3, <2>2, <2>3, <3>1 DEF HandleUpdate
  <2>4. CASE ~(mo_open /\ HasRoom)
    <3>1. given_back' \subseteq Updates /\ mo_channel' = mo_channel
      BY <1>3, <2>1, <2>4 DEF HandleUpdate
    <3>2. QED
      BY <1>3, <2>2, <3>1 DEF HandleUpdate
  <2>5. QED
    BY <2>3, <2>4
<1>4. CASE RouteUpdate
  <2>1. /\ Head(mo_channel) \in Updates
        /\ Tail(mo_channel) \in Seq(Updates)
        /\ Len(Tail(mo_channel)) <= MoCapacity
    BY <1>4 DEF RouteUpdate
  <2>2. accepted' \subseteq Updates /\ inbox' \in [Updates -> Seq(Updates)]
        /\ UNCHANGED <<outbox, handed, open>>
    <3>1. ASSUME NEW d \in Router!Dialogs, Router!Accept(d, Head(mo_channel))
          PROVE  /\ accepted' \subseteq Updates
                 /\ inbox' \in [Updates -> Seq(Updates)]
                 /\ UNCHANGED <<outbox, handed, open>>
      <4>1. /\ accepted' = accepted \cup {Head(mo_channel)}
            /\ inbox' = [inbox EXCEPT ![d] = Append(@, Head(mo_channel))]
            /\ UNCHANGED <<outbox, handed, open>>
        BY <3>1 DEF Router!Accept
      <4>2. d \in Updates
        BY DEF Router!Dialogs, Router!Mos, Updates
      <4>3. Append(inbox[d], Head(mo_channel)) \in Seq(Updates)
        BY <2>1, <4>2
      <4>4. accepted \subseteq Updates
        OBVIOUS
      <4>5. QED
        BY <2>1, <4>1, <4>2, <4>3, <4>4
    <3>2. QED
      BY <1>4, <3>1 DEF RouteUpdate
  <2>3. QED
    BY <1>4, <2>1, <2>2 DEF RouteUpdate
<1>5. ASSUME NEW d \in Router!Dialogs, Converse(d) PROVE TypeOK'
  <2>1. d \in Updates /\ inbox[d] # <<>>
    BY <1>5 DEF Converse, Router!Answer, Router!LeaveUnanswered,
                Router!Dialogs, Router!Mos, Updates
  <2>2. Head(inbox[d]) \in Updates /\ Tail(inbox[d]) \in Seq(Updates)
    BY <2>1
  <2>3. inbox' \in [Updates -> Seq(Updates)]
    BY <1>5, <2>1, <2>2 DEF Converse, Router!Answer, Router!LeaveUnanswered
  <2>4. outbox' \in Seq(Updates \X Updates)
    <3>1. <<d, Head(inbox[d])>> \in Updates \X Updates
      BY <2>1, <2>2
    <3>2. Append(outbox, <<d, Head(inbox[d])>>) \in Seq(Updates \X Updates)
      BY <3>1
    <3>3. QED
      BY <1>5, <3>2 DEF Converse, Router!Answer, Router!LeaveUnanswered
  <2>5. UNCHANGED <<intakeVars, routed, started, mtVars, joinVars, accepted,
                    handed, open>>
    BY <1>5 DEF Converse, Router!Answer, Router!LeaveUnanswered
  <2>6. QED
    BY <2>3, <2>4, <2>5
<1>6. CASE CloseRouter
  BY <1>6 DEF CloseRouter, Router!Close
<1>7. CASE TakeMt
  <2>1. /\ Head(outbox) \in Updates \X Updates
        /\ Tail(outbox) \in Seq(Updates \X Updates)
    BY <1>7 DEF TakeMt
  <2>2. handed' \in Seq(Updates \X Updates)
    BY <1>7, <2>1 DEF TakeMt, Router!Deliver
  <2>3. QED
    BY <1>7, <2>1, <2>2 DEF TakeMt, Router!Deliver
<1>8. ASSUME NEW mt \in sending, FinishMt(mt) PROVE TypeOK'
  BY <1>8 DEF FinishMt
<1>9. CASE PanicMt \/ EndMtTask
  BY <1>9 DEF PanicMt, EndMtTask
<1>10. ASSUME NEW c \in Callers, TakeHandle(c) \/ FindNoHandle(c) \/ JoinMtTask(c)
       PROVE  TypeOK'
  BY <1>10 DEF TakeHandle, FindNoHandle, JoinMtTask, LockWhileJoining
<1>11. CASE Terminated \/ UNCHANGED vars
  BY <1>11 DEF Terminated, vars
<1>12. QED
  BY <1>1, <1>2, <1>3, <1>4, <1>5, <1>6, <1>7, <1>8, <1>9, <1>10, <1>11
     DEF Next, Intake, Output, Joining

\* The channel stays open while the event loop runs, and a loop that never
\* started, or has ended, has no update left.
LEMMA WorkersStep == TypeOK /\ WorkersEndFirst /\ [Next]_vars => WorkersEndFirst'
<1> SUFFICES ASSUME TypeOK, WorkersEndFirst, [Next]_vars PROVE WorkersEndFirst'
  OBVIOUS
<1> USE DEF WorkersEndFirst, intakeVars
<1>1. CASE UNCHANGED intakeVars
  BY <1>1
<1>2. CASE StartEventLoop \/ StopEventLoop
  BY <1>2 DEF StartEventLoop, StopEventLoop
<1>3. CASE EndEventLoop
  BY <1>3 DEF EndEventLoop, LoopReturned, ProducerOpen
<1>4. ASSUME NEW u \in Users, ReceiveUpdate(u) PROVE WorkersEndFirst'
  BY <1>4 DEF ReceiveUpdate
<1>5. ASSUME NEW u \in Users, HandleUpdate(u) PROVE WorkersEndFirst'
  BY <1>5 DEF HandleUpdate
<1>6. CASE RouteUpdate
  BY <1>6 DEF RouteUpdate
<1>7. QED
  BY <1>1, <1>2, <1>3, <1>4, <1>5, <1>6
     DEF Next, Intake, Output, Joining, FinishNew, Converse, CloseRouter, TakeMt,
         FinishMt, PanicMt, EndMtTask, TakeHandle, FindNoHandle, JoinMtTask,
         Terminated, vars

\* The MT task holds no more MTs than it may, all of them taken from the router,
\* whose channel is closed only after the last MO.
LEMMA MtsStep ==
    TypeOK /\ WorkersEndFirst /\ MtsAreCounted /\ [Next]_vars => MtsAreCounted'
<1> SUFFICES ASSUME TypeOK, WorkersEndFirst, MtsAreCounted, [Next]_vars
             PROVE  MtsAreCounted'
  OBVIOUS
<1> USE GatewayAssumption DEF GatewayAssumption, TypeOK, MtsAreCounted,
        intakeVars, mtVars, routerVars
<1>1. CASE UNCHANGED <<mo_channel, mo_open, mtVars, handed, outbox, open>>
  BY <1>1
<1>2. CASE EndEventLoop
  BY <1>2 DEF EndEventLoop, ProducerOpen
<1>3. ASSUME NEW u \in Users, HandleUpdate(u) PROVE MtsAreCounted'
  <2>1. mo_open
    BY <1>3 DEF HandleUpdate, WorkersEndFirst
  <2>2. QED
    BY <1>3, <2>1 DEF HandleUpdate
<1>4. CASE RouteUpdate
  <2>1. open /\ mo_channel # <<>>
    BY <1>4 DEF RouteUpdate
  <2>2. UNCHANGED <<mtVars, handed, outbox, open>>
    BY <1>4 DEF RouteUpdate, Router!Accept
  <2>3. QED
    BY <2>1, <2>2
<1>5. ASSUME NEW d \in Router!Dialogs, Converse(d) PROVE MtsAreCounted'
  <2>1. outbox' = outbox \/ open
    BY <1>5 DEF Converse, Router!Answer, Router!LeaveUnanswered
  <2>2. UNCHANGED <<mo_channel, mo_open, mtVars, handed, open>>
    BY <1>5 DEF Converse, Router!Answer, Router!LeaveUnanswered
  <2>3. QED
    BY <2>1, <2>2
<1>6. CASE CloseRouter
  BY <1>6 DEF CloseRouter, Router!Close
<1>7. CASE TakeMt
  <2>1. /\ mt_task = "running" /\ mt_task' = mt_task
        /\ sending' = sending \cup {Head(outbox)}
        /\ handed' = Append(handed, Head(outbox))
        /\ Cardinality(sending) < Concurrency
        /\ UNCHANGED <<mo_channel, mo_open, open>>
    BY <1>7 DEF TakeMt, Router!Deliver
  <2>2. IsFiniteSet(sending') /\ Cardinality(sending') <= Concurrency
    <3>1. /\ IsFiniteSet(sending \cup {Head(outbox)})
          /\ Cardinality(sending \cup {Head(outbox)}) =
                IF Head(outbox) \in sending THEN Cardinality(sending)
                                           ELSE Cardinality(sending) + 1
      BY FS_AddElement
    <3>2. Cardinality(sending) \in Nat /\ Concurrency \in Nat
      BY FS_CardinalityType
    <3>3. QED
      BY <2>1, <3>1, <3>2
  <2>3. sending' \subseteq ToSet(handed')
    <3>1. Head(outbox) \in Updates \X Updates
      BY <1>7 DEF TakeMt
    <3>2. /\ Len(handed') = Len(handed) + 1
          /\ handed'[Len(handed) + 1] = Head(outbox)
          /\ \A i \in 1 .. Len(handed) : handed'[i] = handed[i]
      BY <2>1, <3>1
    <3>3. DOMAIN handed = 1 .. Len(handed) /\ DOMAIN handed' = 1 .. Len(handed')
          /\ Len(handed) \in Nat
      BY <2>1, <3>1
    <3>4. ToSet(handed) \subseteq ToSet(handed')
      BY <3>2, <3>3 DEF ToSet
    <3>5. Head(outbox) \in ToSet(handed')
      <4>1. Len(handed) + 1 \in DOMAIN handed'
        BY <3>2, <3>3
      <4>2. QED
        BY <3>2, <4>1, Zenon DEF ToSet
    <3>6. QED
      BY <2>1, <3>4, <3>5
  <2>4. QED
    BY <2>1, <2>2, <2>3
<1>8. ASSUME NEW mt \in sending, FinishMt(mt) PROVE MtsAreCounted'
  <2>1. IsFiniteSet(sending') /\ Cardinality(sending') <= Concurrency
    <3>1. /\ IsFiniteSet(sending \ {mt})
          /\ Cardinality(sending \ {mt}) =
                IF mt \in sending THEN Cardinality(sending) - 1
                                 ELSE Cardinality(sending)
      BY FS_RemoveElement
    <3>2. Cardinality(sending) \in Nat /\ Concurrency \in Nat
      BY FS_CardinalityType
    <3>3. QED
      BY <1>8, <3>1, <3>2 DEF FinishMt
  <2>2. sending' \subseteq sending
    BY <1>8 DEF FinishMt
  <2>3. UNCHANGED <<mo_channel, mo_open, mt_task, outbox, handed, open>>
    BY <1>8 DEF FinishMt
  <2>4. QED
    BY <2>1, <2>2, <2>3
<1>9. CASE PanicMt
  <2>1. sending' = {} /\ IsFiniteSet({}) /\ Cardinality({}) = 0
    BY <1>9, FS_EmptySet DEF PanicMt
  <2>2. QED
    BY <1>9, <2>1 DEF PanicMt
<1>10. CASE EndMtTask
  BY <1>10 DEF EndMtTask, AllSent
<1>11. QED
  BY <1>1, <1>2, <1>3, <1>4, <1>5, <1>6, <1>7, <1>8, <1>9, <1>10
     DEF Next, Intake, Output, Joining, FinishNew, StartEventLoop, StopEventLoop,
         ReceiveUpdate, TakeHandle, FindNoHandle, JoinMtTask, Terminated, vars

\* One caller at a time has the handle, and it is the one that holds the lock;
\* who finds no handle finds a call that returned, hence a task that is done.
LEMMA HandleStep ==
    TypeOK /\ MtsAreCounted /\ HandleIsOwned /\ [Next]_vars => HandleIsOwned'
<1> SUFFICES ASSUME TypeOK, MtsAreCounted, HandleIsOwned, [Next]_vars
             PROVE  HandleIsOwned'
  OBVIOUS
<1> USE GatewayAssumption DEF GatewayAssumption, HandleIsOwned, joinVars
<1>1. CASE UNCHANGED <<started, joinVars, mt_task>>
  BY <1>1
<1>2. CASE FinishNew
  BY <1>2 DEF FinishNew, mtVars
<1>3. CASE PanicMt
  <2>1. mt_task # "over"
    BY <1>3 DEF PanicMt, MtsAreCounted
  <2>2. QED
    BY <1>3, <2>1 DEF PanicMt
<1>4. CASE EndMtTask
  BY <1>4 DEF EndMtTask
<1>5. ASSUME NEW c \in Callers, TakeHandle(c) PROVE HandleIsOwned'
  <2>1. /\ started' = started /\ started /\ handle' = FALSE /\ lock' = c
        /\ caller \in [Callers -> {"none", "joining", "joined", "failed", "too_late"}]
        /\ caller' = [caller EXCEPT ![c] = "joining"]
        /\ mt_task' = mt_task /\ lock = None
    BY <1>5 DEF TakeHandle, LockWhileJoining, mtVars, TypeOK
  <2>2. QED
    BY <2>1
<1>6. ASSUME NEW c \in Callers, FindNoHandle(c) PROVE HandleIsOwned'
  <2>1. /\ started /\ ~handle /\ lock = None
        /\ UNCHANGED <<started, handle, lock, mt_task>>
        /\ caller \in [Callers -> {"none", "joining", "joined", "failed", "too_late"}]
        /\ caller' = [caller EXCEPT ![c] = "too_late"]
    BY <1>6 DEF FindNoHandle, mtVars, TypeOK
  <2>2. PICK other \in Callers : caller[other] # "none"
    BY <2>1
  <2>3. caller[other] \in {"joined", "failed", "too_late"}
    BY <2>1, <2>2
  <2>4. mt_task # "running"
    BY <2>3
  <2>5. caller[c] = "none"
    BY <1>6 DEF FindNoHandle
  <2>6. QED
    BY <2>1, <2>2, <2>4, <2>5
<1>7. ASSUME NEW c \in Callers, JoinMtTask(c) PROVE HandleIsOwned'
  <2>1. /\ caller[c] = "joining" /\ mt_task # "running" /\ lock' = None
        /\ UNCHANGED <<started, handle, mt_task>>
        /\ caller \in [Callers -> {"none", "joining", "joined", "failed", "too_late"}]
        /\ caller' = [caller EXCEPT ![c] = IF mt_task = "over" THEN "joined"
                                           ELSE "failed"]
    BY <1>7 DEF JoinMtTask, mtVars, TypeOK
  <2>2. lock = c
    BY <2>1
  <2>3. QED
    BY <2>1, <2>2
<1>8. QED
  BY <1>1, <1>2, <1>3, <1>4, <1>5, <1>6, <1>7
     DEF Next, Intake, Output, Joining, StartEventLoop, StopEventLoop,
         EndEventLoop, ReceiveUpdate, HandleUpdate, RouteUpdate, Converse,
         CloseRouter, TakeMt, FinishMt, Terminated, mtVars, vars

\* Of the updates that came in, none leaves the line, or its place in it: a
\* handler puts the first of its chat behind all of that chat in the channel.
LEMMA TransitStep ==
    TypeOK /\ WorkersEndFirst /\ UpdatesAreInTransit /\ [Next]_vars
    => UpdatesAreInTransit'
<1> SUFFICES ASSUME TypeOK, WorkersEndFirst, UpdatesAreInTransit, [Next]_vars
             PROVE  UpdatesAreInTransit'
  OBVIOUS
<1> USE GatewayAssumption DEF GatewayAssumption
<1>1. CASE UNCHANGED <<received, worker, mo_channel, given_back, routed>>
  BY <1>1 DEF UpdatesAreInTransit, WaitInOrder, NoneIsMissing, ChannelIsInOrder,
              Handled
<1>2. ASSUME NEW u \in Users, ReceiveUpdate(u) PROVE UpdatesAreInTransit'
  <2> DEFINE update == <<u, received[u] + 1>>
  <2>1. /\ received' = [received EXCEPT ![u] = @ + 1]
        /\ worker' = [worker EXCEPT ![u] = Append(@, update)]
        /\ UNCHANGED <<mo_channel, given_back, routed>>
    BY <1>2 DEF ReceiveUpdate
  <2>2. update \in Updates
    BY <1>2 DEF ReceiveUpdate, Updates, TypeOK
  <2>3. /\ received[u] \in Nat /\ Len(worker[u]) \in Nat
        /\ received'[u] = received[u] + 1
        /\ Len(worker'[u]) = Len(worker[u]) + 1
        /\ worker'[u][Len(worker[u]) + 1] = update
        /\ \A i \in 1 .. Len(worker[u]) : worker'[u][i] = worker[u][i]
        /\ DOMAIN worker[u] = 1 .. Len(worker[u])
        /\ DOMAIN worker'[u] = 1 .. (Len(worker[u]) + 1)
    BY <2>1, <2>2 DEF TypeOK
  <2>4. \A v \in Users \ {u} : worker'[v] = worker[v] /\ received'[v] = received[v]
    BY <2>1 DEF TypeOK
  <2>5. \A v \in Users : Handled(v)' = Handled(v)
    <3>1. Handled(u)' = Handled(u)
      <4> HIDE DEF update
      <4>1. \A r, l \in Nat : (r + 1) - (l + 1) = r - l
        OBVIOUS
      <4>2. received'[u] - Len(worker'[u]) = received[u] - Len(worker[u])
        BY <2>3, <4>1
      <4>3. QED
        BY <4>2, Zenon DEF Handled
    <3>2. ASSUME NEW v \in Users \ {u} PROVE Handled(v)' = Handled(v)
      BY <2>4, Zenon DEF Handled
    <3>3. QED
      BY <3>1, <3>2
  <2>6. WaitInOrder(u)'
    <3>1. Len(worker[u]) <= received[u]
          /\ \A i \in DOMAIN worker[u] : worker[u][i] = <<u, Handled(u) + i>>
      BY DEF UpdatesAreInTransit, WaitInOrder
    <3>2. Len(worker'[u]) <= received'[u]
      BY <2>3, <3>1
    <3>3. update = <<u, Handled(u) + (Len(worker[u]) + 1)>>
      <4>1. received[u] + 1 = (received[u] - Len(worker[u])) + (Len(worker[u]) + 1)
        BY <2>3
      <4>2. QED
        BY <4>1, Zenon DEF Handled
    <3>4. \A i \in DOMAIN worker'[u] : worker'[u][i] = <<u, Handled(u) + i>>
      <4> HIDE DEF update
      <4>1. \A i \in DOMAIN worker'[u] :
               i \in DOMAIN worker[u] \/ i = Len(worker[u]) + 1
        BY <2>3
      <4>2. QED
        BY <2>3, <3>1, <3>3, <4>1
    <3>5. QED
      BY <2>5, <3>2, <3>4 DEF WaitInOrder
  <2>7. \A v \in Users : WaitInOrder(v)'
    BY <2>4, <2>6 DEF UpdatesAreInTransit, WaitInOrder, Handled
  <2>8. \A v \in Users : NoneIsMissing(v)'
    BY <2>1, <2>5 DEF UpdatesAreInTransit, NoneIsMissing
  <2>9. QED
    BY <2>1, <2>7, <2>8 DEF UpdatesAreInTransit, ChannelIsInOrder
<1>3. ASSUME NEW u \in Users, HandleUpdate(u) PROVE UpdatesAreInTransit'
  <2> DEFINE update == Head(worker[u])
  <2>1. worker[u] # <<>> /\ mo_open /\ HasRoom
    BY <1>3 DEF HandleUpdate, WorkersEndFirst, SendReturns, TypeOK
  <2>2. /\ worker' = [worker EXCEPT ![u] = Tail(@)]
        /\ mo_channel' = Append(mo_channel, update)
        /\ UNCHANGED <<received, given_back, routed>>
    BY <1>3, <2>1 DEF HandleUpdate
  <2>3. /\ received[u] \in Nat /\ Len(worker[u]) \in Nat \ {0}
        /\ Len(worker'[u]) = Len(worker[u]) - 1
        /\ DOMAIN worker[u] = 1 .. Len(worker[u])
        /\ DOMAIN worker'[u] = 1 .. (Len(worker[u]) - 1)
        /\ \A i \in 1 .. (Len(worker[u]) - 1) : worker'[u][i] = worker[u][i + 1]
        /\ update = worker[u][1] /\ update \in Updates
    BY <2>1, <2>2 DEF TypeOK
  <2>4. \A v \in Users \ {u} : worker'[v] = worker[v]
    BY <2>2 DEF TypeOK
  <2>5. /\ Handled(u)' = Handled(u) + 1
        /\ \A v \in Users \ {u} : Handled(v)' = Handled(v)
        /\ Handled(u) \in Nat
    BY <2>2, <2>3, <2>4 DEF Handled, UpdatesAreInTransit, WaitInOrder
  <2>6. update = <<u, Handled(u) + 1>>
    BY <2>3 DEF UpdatesAreInTransit, WaitInOrder
  <2> HIDE DEF update
  <2>7. /\ Len(mo_channel) \in Nat
        /\ Len(mo_channel') = Len(mo_channel) + 1
        /\ mo_channel'[Len(mo_channel) + 1] = update
        /\ \A i \in 1 .. Len(mo_channel) : mo_channel'[i] = mo_channel[i]
        /\ DOMAIN mo_channel = 1 .. Len(mo_channel)
        /\ DOMAIN mo_channel' = 1 .. (Len(mo_channel) + 1)
    BY <2>2, <2>3 DEF TypeOK
  <2>8. ToSet(mo_channel') = ToSet(mo_channel) \cup {update}
    <3>1. Len(mo_channel) + 1 \in DOMAIN mo_channel'
      BY <2>7
    <3>2. DOMAIN mo_channel' = DOMAIN mo_channel \cup {Len(mo_channel) + 1}
      BY <2>7
    <3>3. ToSet(mo_channel') = {mo_channel'[i] : i \in DOMAIN mo_channel} \cup {update}
      BY <2>7, <3>1, <3>2, Zenon DEF ToSet
    <3>4. {mo_channel'[i] : i \in DOMAIN mo_channel} = ToSet(mo_channel)
      BY <2>7 DEF ToSet
    <3>5. QED
      BY <3>3, <3>4
  <2>9. WaitInOrder(u)'
    <3>1. Len(worker'[u]) <= received'[u]
      BY <2>2, <2>3 DEF UpdatesAreInTransit, WaitInOrder
    <3>2. ASSUME NEW i \in DOMAIN worker'[u]
          PROVE  worker'[u][i] = <<u, Handled(u)' + i>>
      <4>1. i \in Int /\ i + 1 \in DOMAIN worker[u]
            /\ worker'[u][i] = worker[u][i + 1]
        BY <2>3
      <4>2. worker[u][i + 1] = <<u, Handled(u) + (i + 1)>>
        BY <4>1 DEF UpdatesAreInTransit, WaitInOrder
      <4>3. Handled(u) + (i + 1) = Handled(u)' + i
        BY <2>5, <4>1
      <4>4. QED
        BY <4>1, <4>2, <4>3
    <3>3. QED
      BY <3>1, <3>2 DEF WaitInOrder
  <2>10. \A v \in Users : WaitInOrder(v)'
    BY <2>2, <2>4, <2>9 DEF UpdatesAreInTransit, WaitInOrder, Handled
  <2>11. ASSUME NEW v \in Users, NEW n \in 1 .. MaxMos
         PROVE  <<v, n>> \in routed' \cup ToSet(mo_channel') <=> n <= Handled(v)'
    <3>1. <<v, n>> \in routed \cup ToSet(mo_channel) <=> n <= Handled(v)
      BY DEF UpdatesAreInTransit, NoneIsMissing
    <3>2. <<v, n>> = update <=> v = u /\ n = Handled(u) + 1
      BY <2>6
    <3>3. CASE v = u
      <4>1. n <= Handled(u) + 1 <=> n <= Handled(u) \/ n = Handled(u) + 1
        BY <2>5
      <4>2. QED
        BY <2>2, <2>5, <2>8, <3>1, <3>2, <3>3, <4>1
    <3>4. CASE v # u
      BY <2>2, <2>5, <2>8, <3>1, <3>2, <3>4
    <3>5. QED
      BY <3>3, <3>4
  <2>12. ASSUME NEW other \in routed \cup ToSet(mo_channel), other[1] = u
         PROVE  other[2] < update[2]
    <3>1. other \in Updates
      BY <2>7 DEF ToSet, TypeOK
    <3>2. other = <<u, other[2]>> /\ other[2] \in 1 .. MaxMos
      BY <2>12, <3>1 DEF Updates
    <3>3. other[2] <= Handled(u)
      BY <3>2 DEF UpdatesAreInTransit, NoneIsMissing
    <3>4. QED
      BY <2>5, <2>6, <3>2, <3>3
  <2>13. ASSUME NEW i \in DOMAIN mo_channel',
                NEW other \in routed' \cup {mo_channel'[j] : j \in 1 .. (i - 1)},
                other[1] = mo_channel'[i][1]
         PROVE  other[2] < mo_channel'[i][2]
    <3>1. i \in Int /\ \A j \in 1 .. (i - 1) :
                          j \in DOMAIN mo_channel /\ mo_channel'[j] = mo_channel[j]
      BY <2>7
    <3>2. other \in routed \cup {mo_channel[j] : j \in 1 .. (i - 1)}
      BY <2>2, <3>1
    <3>3. CASE i = Len(mo_channel) + 1
      <4>1. other \in routed \cup ToSet(mo_channel)
        BY <3>1, <3>2 DEF ToSet
      <4>2. mo_channel'[i] = update /\ update[1] = u
        BY <2>6, <2>7, <3>3
      <4>3. QED
        BY <2>12, <2>13, <4>1, <4>2
    <3>4. CASE i # Len(mo_channel) + 1
      <4>1. i \in DOMAIN mo_channel /\ mo_channel'[i] = mo_channel[i]
        BY <2>7, <3>4
      <4>2. QED
        BY <2>13, <3>2, <4>1 DEF UpdatesAreInTransit, ChannelIsInOrder
    <3>5. QED
      BY <3>3, <3>4
  <2>14. QED
    BY <2>2, <2>10, <2>11, <2>13
       DEF UpdatesAreInTransit, NoneIsMissing, ChannelIsInOrder
<1>4. CASE RouteUpdate
  <2> DEFINE update == Head(mo_channel)
  <2>1. /\ mo_channel # <<>>
        /\ routed' = routed \cup {update}
        /\ mo_channel' = Tail(mo_channel)
        /\ UNCHANGED <<received, worker, given_back>>
    BY <1>4 DEF RouteUpdate
  <2>2. /\ Len(mo_channel) \in Nat \ {0}
        /\ mo_channel[1] = update
        /\ DOMAIN mo_channel = 1 .. Len(mo_channel)
        /\ DOMAIN mo_channel' = 1 .. (Len(mo_channel) - 1)
        /\ \A i \in 1 .. (Len(mo_channel) - 1) : mo_channel'[i] = mo_channel[i + 1]
    BY <2>1 DEF TypeOK
  <2> HIDE DEF update
  <2>3. routed' \cup ToSet(mo_channel') = routed \cup ToSet(mo_channel)
    <3>1. ToSet(mo_channel) \subseteq {update} \cup ToSet(mo_channel')
      <4>1. ASSUME NEW i \in DOMAIN mo_channel, i # 1
            PROVE  mo_channel[i] \in ToSet(mo_channel')
        <5>1. /\ i - 1 \in DOMAIN mo_channel'
              /\ mo_channel'[i - 1] = mo_channel[i]
          BY <2>2, <4>1
        <5>2. QED
          BY <5>1, Zenon DEF ToSet
      <4>2. QED
        BY <2>2, <4>1 DEF ToSet
    <3>2. {update} \cup ToSet(mo_channel') \subseteq ToSet(mo_channel)
      <4>1. \A i \in DOMAIN mo_channel' : i + 1 \in DOMAIN mo_channel
        BY <2>2
      <4>2. 1 \in DOMAIN mo_channel
        BY <2>2
      <4>3. QED
        BY <2>2, <4>1, <4>2 DEF ToSet
    <3>3. QED
      BY <2>1, <3>1, <3>2
  <2>4. ASSUME NEW i \in DOMAIN mo_channel',
               NEW other \in routed' \cup {mo_channel'[j] : j \in 1 .. (i - 1)},
               other[1] = mo_channel'[i][1]
        PROVE  other[2] < mo_channel'[i][2]
    <3>1. i \in Int /\ i + 1 \in DOMAIN mo_channel
          /\ mo_channel'[i] = mo_channel[i + 1]
      BY <2>2
    <3>2. other \in routed \cup {mo_channel[j] : j \in 1 .. ((i + 1) - 1)}
      <4>1. CASE other = update
        BY <2>2, <3>1, <4>1
      <4>2. ASSUME NEW j \in 1 .. (i - 1), other = mo_channel'[j]
            PROVE  other \in {mo_channel[k] : k \in 1 .. ((i + 1) - 1)}
        <5>1. j + 1 \in 1 .. ((i + 1) - 1) /\ mo_channel'[j] = mo_channel[j + 1]
          BY <2>2, <3>1
        <5>2. QED
          BY <4>2, <5>1
      <4>3. QED
        BY <2>1, <4>1, <4>2
    <3>3. QED
      BY <2>4, <3>1, <3>2 DEF UpdatesAreInTransit, ChannelIsInOrder
  <2>5. \A v \in Users : WaitInOrder(v)' /\ NoneIsMissing(v)'
    BY <2>1, <2>3 DEF UpdatesAreInTransit, WaitInOrder, NoneIsMissing, Handled
  <2>6. QED
    BY <2>1, <2>4, <2>5 DEF UpdatesAreInTransit, ChannelIsInOrder
<1>5. QED
  BY <1>1, <1>2, <1>3, <1>4
     DEF Next, Intake, Output, Joining, FinishNew, StartEventLoop, StopEventLoop,
         EndEventLoop, Converse, CloseRouter, TakeMt, FinishMt, PanicMt,
         EndMtTask, TakeHandle, FindNoHandle, JoinMtTask, Terminated,
         intakeVars, vars

LEMMA GatewayInvStep == GatewayInv /\ [Next]_vars => GatewayInv'
BY TypeStep, WorkersStep, MtsStep, HandleStep, TransitStep DEF GatewayInv

\* What came in goes to the router in order, the MT task keeps to its pool, and
\* the handle of that task has one owner: `new`, the handlers, the MT task and
\* await_termination together.
THEOREM GatewayInvariant == Spec => []GatewayInv
<1>1. Init => GatewayInv
  BY InitGatewayInv
<1>2. GatewayInv /\ [Next]_vars => GatewayInv'
  BY GatewayInvStep
<1>3. QED
  BY <1>1, <1>2, PTL DEF Spec

\* An Ok of await_termination means that the MT task is over, hence that its
\* stream ended after the last MO, hence that no update is left anywhere.
LEMMA JoinedIsComplete == GatewayInv => TerminationIsComplete
<1> SUFFICES ASSUME GatewayInv, NEW c \in Callers, caller[c] = "joined"
             PROVE  /\ outbox = <<>> /\ sending = {}
                    /\ \A u \in Users, n \in 1 .. MaxMos :
                          n <= received[u] => <<u, n>> \in routed
  BY DEF TerminationIsComplete
<1>1. mt_task = "over"
  BY DEF GatewayInv, HandleIsOwned
<1>2. outbox = <<>> /\ sending = {} /\ ~mo_open /\ mo_channel = <<>>
  BY <1>1 DEF GatewayInv, MtsAreCounted
<1>3. ASSUME NEW u \in Users, NEW n \in 1 .. MaxMos, n <= received[u]
      PROVE  <<u, n>> \in routed
  <2>1. worker[u] = <<>> /\ received[u] \in Nat
    BY <1>2 DEF GatewayInv, WorkersEndFirst, TypeOK
  <2>2. Handled(u) = received[u]
    BY <2>1 DEF Handled
  <2>3. <<u, n>> \in routed \cup ToSet(mo_channel)
    BY <1>3, <2>2 DEF GatewayInv, UpdatesAreInTransit, NoneIsMissing
  <2>4. ToSet(mo_channel) = {}
    BY <1>2 DEF ToSet
  <2>5. QED
    BY <2>3, <2>4
<1>4. QED
  BY <1>2, <1>3

\* When await_termination returns Ok, every update was offered to the router, and
\* every MT of the router was sent or failed.
THEOREM TerminationCompletes == Spec => []TerminationIsComplete
BY GatewayInvariant, JoinedIsComplete, PTL

\* "already finished" is never said of an MT task that still runs.
THEOREM TooLateIsOver == Spec => []TooLateMeansOver
<1>1. GatewayInv => TooLateMeansOver
  BY DEF GatewayInv, HandleIsOwned, TooLateMeansOver
<1>2. QED
  BY <1>1, GatewayInvariant, PTL
=============================================================================

---------------------------- MODULE DialogService ----------------------------
(***************************************************************************)
(* What the router promises to the two gateways, without channels, routes  *)
(* and tasks: every dialog is a responder that accepts MOs of one user and *)
(* answers each of them at most once, in the order it accepted them, to a  *)
(* bounded stream of MTs.  An MO may be refused (it is then never accepted)*)
(* and an accepted MO may be left unanswered, but nothing is duplicated,   *)
(* reordered inside a dialog or answered by the dialog of another user.    *)
(* UserRouter implements this specification: see `Promise` there.          *)
(***************************************************************************)
EXTENDS Integers, Sequences

CONSTANTS Users, MaxMos, MtCapacity

Mos      == Users \X (1 .. MaxMos)
Dialogs  == Mos
Owner(d) == d[1]

VARIABLES
    accepted, \* the MOs some dialog accepted
    inbox,    \* inbox[d]: the MOs dialog d has still to answer, in order
    outbox,   \* the MTs produced and not yet taken, in order
    handed,   \* the MTs taken by the gateway, in order
    open      \* whether dialogs can still produce MTs

vars == <<accepted, inbox, outbox, handed, open>>

Init ==
    /\ accepted = {}
    /\ inbox = [d \in Dialogs |-> <<>>]
    /\ outbox = <<>>
    /\ handed = <<>>
    /\ open = TRUE

\* MOs of a user are accepted in the order in which the user sent them.
Accept(d, mo) ==
    /\ Owner(d) = Owner(mo)
    /\ \A m \in accepted : Owner(m) = Owner(mo) => m[2] < mo[2]
    /\ accepted' = accepted \cup {mo}
    /\ inbox' = [inbox EXCEPT ![d] = Append(@, mo)]
    /\ UNCHANGED <<outbox, handed, open>>

Answer(d) ==
    /\ open
    /\ inbox[d] # <<>>
    /\ Len(outbox) < MtCapacity
    /\ outbox' = Append(outbox, <<d, Head(inbox[d])>>)
    /\ inbox' = [inbox EXCEPT ![d] = Tail(@)]
    /\ UNCHANGED <<accepted, handed, open>>

LeaveUnanswered(d) ==
    /\ inbox[d] # <<>>
    /\ inbox' = [inbox EXCEPT ![d] = Tail(@)]
    /\ UNCHANGED <<accepted, outbox, handed, open>>

Deliver ==
    /\ outbox # <<>>
    /\ handed' = Append(handed, Head(outbox))
    /\ outbox' = Tail(outbox)
    /\ UNCHANGED <<accepted, inbox, open>>

Close ==
    /\ open
    /\ open' = FALSE
    /\ UNCHANGED <<accepted, inbox, outbox, handed>>

Next ==
    \/ \E d \in Dialogs, mo \in Mos : Accept(d, mo)
    \/ \E d \in Dialogs : Answer(d) \/ LeaveUnanswered(d)
    \/ Deliver
    \/ Close

Spec == Init /\ [][Next]_vars
=============================================================================

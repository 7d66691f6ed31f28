---------------------------- MODULE MCUserRouter ----------------------------
(* Small instances of UserRouter for TLC: see the README's table of runs.  *)
EXTENDS UserRouter, TLC

\* Users are interchangeable: nothing in the router tells one from another.
UserSymmetry == Permutations(Users)

\* At most one user sends more than one MO.
OneBusyUser == \A u, v \in Users : sent[u] > 1 /\ sent[v] > 1 => u = v
=============================================================================

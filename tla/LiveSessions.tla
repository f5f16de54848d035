----------------------------- MODULE LiveSessions -----------------------------
(***************************************************************************)
(* What the login system promises, without tokens and clocks: a login      *)
(* starts a session of one user, any sessions may end at any time, and     *)
(* what has ended stays ended.                                             *)
(***************************************************************************)
EXTENDS Naturals

CONSTANT Users

VARIABLES
    live,       \* the sessions that can still be used, each with its user
    started     \* how many sessions were ever started

Start(u) ==
    /\ started' = started + 1
    /\ live' = live \cup {<<started', u>>}

End ==
    /\ live' \subseteq live
    /\ UNCHANGED started

Init == live = {} /\ started = 0

Next == End \/ \E u \in Users : Start(u)

Spec == Init /\ [][Next]_<<live, started>>
=============================================================================

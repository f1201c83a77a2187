----------------------------- MODULE MCConsole -----------------------------
(* Two users who share one organization; one of them has another.          *)
EXTENDS CustomerConsole, TLC

CONSTANTS u1, u2, o1, o2
MCMember == (u1 :> {o1, o2}) @@ (u2 :> {o2})
=============================================================================

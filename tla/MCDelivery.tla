----------------------------- MODULE MCDelivery -----------------------------
(* Small instances of Delivery: both processes run on one host.            *)
EXTENDS Delivery

CONSTANTS h1
SameHost == [p \in Procs |-> h1]
=============================================================================

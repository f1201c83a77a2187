----------------------------- MODULE MCJobQueue -----------------------------
(* Small instances of JobQueue: both processes start on one host.          *)
EXTENDS JobQueue

CONSTANTS h1
SameHost == [p \in Procs |-> h1]
=============================================================================

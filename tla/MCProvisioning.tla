--------------------------- MODULE MCProvisioning ---------------------------
(* Small instances of Provisioning.                                        *)
EXTENDS Provisioning, TLC

CONSTANTS i1, a, b
OwnNames == [i \in Insts |-> IF i = i1 THEN a ELSE b]
SameName == [i \in Insts |-> a]
VMSymmetry == Permutations(VMs) \cup Permutations(Runs)
=============================================================================

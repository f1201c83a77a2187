---------------------------- MODULE MCSettlement ----------------------------
(* Small instances of Settlement: one wallet, so that every row shares it. *)
EXTENDS Settlement, TLC

CONSTANT w1
MCWallets == {w1}
MCWalletOf == [x \in Orders \cup Payments |-> w1]
MCRefs == LedgerRefs
MCAmounts == {1, 2}
UnitAmounts == {1}
PaymentSymmetry == Permutations(Payments)
=============================================================================

----------------------------- MODULE MCWalletTx -----------------------------
(* Two transactions on one wallet, two references, amounts around zero.    *)
EXTENDS WalletTx

MCAmounts == {-1, 0, 1, 2}
=============================================================================

---------------------------- MODULE MCAffiliate ----------------------------
(* Two invoices of one referred payer, 2 and 3 units, at half or the full   *)
(* base: rounding matters, and 2 is just the minimum.                      *)
EXTENDS Affiliate, TLC

CONSTANTS i1, i2, referrer, payer, w1
MCReferrer == [i \in Invoices |-> referrer]
MCPayer == [i \in Invoices |-> payer]
MCBase == (i1 :> 2) @@ (i2 :> 3)
MCPercents == {5000, 10000}
MCMinTotals == {2}
MCWalletsOf == [u \in Users |-> {w1}]
MCAmounts == 0 .. 10
WithdrawalSymmetry == Permutations(Withdrawals)
=============================================================================

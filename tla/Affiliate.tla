----------------------------- MODULE Affiliate -----------------------------
(***************************************************************************)
(* Referral commissions: affiliate/service.go.  A settled invoice accrues  *)
(* a commission for the referrer and a bonus for the referee; an owner     *)
(* withdraws all approved earnings into the wallet of an organisation;     *)
(* administrators reverse approved earnings and change the program.        *)
(*                                                                         *)
(* Withdraw is one transaction of several statements at READ COMMITTED: it *)
(* selects and locks the approved rows, credits their sum, and marks as    *)
(* paid the rows that are approved by then.  Rows inserted in between are  *)
(* not locked.  One currency is modelled: the loop over currencies repeats *)
(* the same two statements on other rows and another wallet.               *)
(***************************************************************************)
EXTENDS Wallet, FiniteSetsExt

CONSTANTS
    Invoices,       \* invoices of referred organisations
    Users,
    Withdrawals,    \* withdrawal requests that may be open at a time
    Referrer, Payer,\* of each invoice
    Base,           \* subtotal - discount of each invoice, in minor units
    Percents,       \* percentages the settings may be given, in basis points
    MinTotals,      \* minimum invoice totals the settings may be given
    WalletsOf,      \* wallets of the organisations each user is a member of
    PayoutRef       \* reference_type affiliate_payout

Types == {"referrer_commission", "referee_bonus"}
Earnings == Invoices \X Types

ASSUME AffiliateAssumption ==
    /\ Referrer \in [Invoices -> Users] /\ Payer \in [Invoices -> Users]
    /\ Base \in [Invoices -> Nat]
    /\ Percents \subseteq 0 .. 10000 /\ MinTotals \subseteq Nat
    /\ WalletsOf \in [Users -> SUBSET Wallets]
    /\ PayoutRef \in Refs

VARIABLES
    settings,       \* affiliate_settings
    settled,        \* invoices with status paid
    earnings,       \* affiliate_earnings, by invoice and earning_type
    selected        \* per withdrawal: the rows it has locked

affiliateVars == <<balance, ledger, settings, settled, earnings, selected>>

EarningStatus == {"none", "approved", "paid", "reversed"}
AffiliateTypeOK ==
    /\ settings \in [enabled : BOOLEAN, percent : Percents, bonus : Percents, minTotal : MinTotals]
    /\ settled \subseteq Invoices
    /\ earnings \in [Earnings -> [status : EarningStatus, amount : Nat]]
    /\ \A e \in Earnings : earnings[e].status # "none" => earnings[e].amount \in 1 .. Base[e[1]]
    /\ selected \in [Withdrawals -> SUBSET Earnings]

AffiliateInit ==
    /\ WalletInit
    /\ settings \in [enabled : {TRUE}, percent : Percents, bonus : Percents, minTotal : MinTotals]
    /\ settled = {}
    /\ earnings = [e \in Earnings |-> [status |-> "none", amount |-> 0]]
    /\ selected = [q \in Withdrawals |-> {}]

\* Who may withdraw an earning.
Owner(e) == IF e[2] = "referrer_commission" THEN Referrer[e[1]] ELSE Payer[e[1]]

Approved(u) == {e \in Earnings : Owner(e) = u /\ earnings[e].status = "approved"}
Locked(e) == \E q \in Withdrawals : e \in selected[q]
Total(S) == MapThenSumSet(LAMBDA e : earnings[e].amount, S)

-----------------------------------------------------------------------------
UpdateSettings(new) ==
    /\ settings' = new
    /\ UNCHANGED <<walletVars, settled, earnings, selected>>

\* The invoice becomes paid (Settlement): only paid invoices earn anything.
Settle(i) ==
    /\ i \notin settled
    /\ settled' = settled \cup {i}
    /\ UNCHANGED <<walletVars, settings, earnings, selected>>

\* percent of the base, rounded half up to whole minor units
ComputeCommission(base, percent) ==
    IF percent <= 0 \/ base <= 0 THEN 0 ELSE (base * percent + 5000) \div 10000

Eligible(i) ==
    /\ settings.enabled
    /\ Base[i] >= settings.minTotal
    /\ Referrer[i] # Payer[i]

\* Mutant of Insert: a repeated call updates the row.
InsertOrUpdate(row, amount) ==
    IF amount > 0 THEN [status |-> "approved", amount |-> amount] ELSE row

\* INSERT ... ON CONFLICT (invoice_id, earning_type) DO NOTHING
Insert(row, amount) ==
    IF amount > 0 /\ row.status = "none" THEN [status |-> "approved", amount |-> amount] ELSE row

\* May run any number of times for an invoice; the bonus is only looked at when
\* there is a commission.
RecordCommissionForInvoice(i) ==
    LET commission == ComputeCommission(Base[i], settings.percent)
        bonus == ComputeCommission(Base[i], settings.bonus)
    IN
    /\ i \in settled
    /\ Eligible(i)
    /\ commission > 0
    /\ earnings' = [earnings EXCEPT ![<<i, "referrer_commission">>] = Insert(@, commission),
                                    ![<<i, "referee_bonus">>] = Insert(@, bonus)]
    /\ UNCHANGED <<walletVars, settings, settled, selected>>

\* Mutant of WithdrawSelect: the rows are read without FOR UPDATE.
WithdrawSelectUnlocked(q, u) ==
    /\ selected[q] = {} /\ Approved(u) # {}
    /\ selected' = [selected EXCEPT ![q] = Approved(u)]
    /\ UNCHANGED <<walletVars, settings, settled, earnings>>

\* SELECT ... FOR UPDATE waits for whoever holds one of the rows.  (It locks them
\* one by one; a deadlock that PostgreSQL breaks is a rollback.)
WithdrawSelect(q, u) ==
    /\ selected[q] = {} /\ Approved(u) # {}
    /\ \A e \in Approved(u) : ~Locked(e)
    /\ selected' = [selected EXCEPT ![q] = Approved(u)]
    /\ UNCHANGED <<walletVars, settings, settled, earnings>>

\* An open withdrawal holds rows of one user.
WithdrawalOf(q, u) == selected[q] # {} /\ \A e \in selected[q] : Owner(e) = u

\* Mutant of WithdrawCommit: the balance is raised without a ledger entry.
WithdrawCommitUnbooked(q, u, w) ==
    /\ WithdrawalOf(q, u)
    /\ balance' = [balance EXCEPT ![w] = @ + Total(selected[q])]
    /\ earnings' = [e \in Earnings |->
                      IF e \in Approved(u) THEN [earnings[e] EXCEPT !.status = "paid"]
                                           ELSE earnings[e]]
    /\ selected' = [selected EXCEPT ![q] = {}]
    /\ UNCHANGED <<ledger, settings, settled>>

\* The credit is the sum of the selected rows; the UPDATE repeats the condition
\* instead of naming them, and rolls back when it finds none.
WithdrawCommit(q, u, w) ==
    /\ WithdrawalOf(q, u)
    /\ Approved(u) # {}
    /\ ApplyTransaction(w, "credit", Total(selected[q]), PayoutRef, NoKey)
    /\ earnings' = [e \in Earnings |->
                      IF e \in Approved(u) THEN [earnings[e] EXCEPT !.status = "paid"]
                                           ELSE earnings[e]]
    /\ selected' = [selected EXCEPT ![q] = {}]
    /\ UNCHANGED <<settings, settled>>

WithdrawRollback(q) ==
    /\ selected[q] # {}
    /\ selected' = [selected EXCEPT ![q] = {}]
    /\ UNCHANGED <<walletVars, settings, settled, earnings>>

\* One UPDATE with the status in its WHERE clause; it waits for a locked row and
\* then looks at the status again.
Reverse(e) ==
    /\ earnings[e].status = "approved" /\ ~Locked(e)
    /\ earnings' = [earnings EXCEPT ![e].status = "reversed"]
    /\ UNCHANGED <<walletVars, settings, settled, selected>>

-----------------------------------------------------------------------------
Settings == [enabled : BOOLEAN, percent : Percents, bonus : Percents, minTotal : MinTotals]

AffiliateNext ==
    \/ \E new \in Settings : UpdateSettings(new)
    \/ \E i \in Invoices : Settle(i) \/ RecordCommissionForInvoice(i)
    \/ \E q \in Withdrawals, u \in Users :
          WithdrawSelect(q, u) \/ \E w \in WalletsOf[u] : WithdrawCommit(q, u, w)
    \/ \E q \in Withdrawals : WithdrawRollback(q)
    \/ \E e \in Earnings : Reverse(e)

AffiliateSpec == AffiliateInit /\ [][AffiliateNext]_affiliateVars

-----------------------------------------------------------------------------
PaidOut == MapThenSumSet(LAMBDA w : balance[w], Wallets)
PaidEarnings == {e \in Earnings : earnings[e].status = "paid"}

\* No commission is paid twice and no reversed one is paid at all: the wallets
\* never hold more than the earnings that are marked as paid, however
\* withdrawals, reversals and accruals interleave (Withdraw's row locks).
NeverOverpaid == PaidOut <= Total(PaidEarnings)

\* An earning keeps its amount, and once it is paid or reversed its status,
\* also when the invoice is processed again under other settings
\* (RecordCommissionForInvoice, Reverse, Withdraw).
EarningsAreSettled ==
    [][\A e \in Earnings :
         /\ earnings[e].status # "none" => earnings'[e].amount = earnings[e].amount
         /\ earnings[e].status \in {"paid", "reversed"}
              => earnings'[e].status = earnings[e].status]_affiliateVars

\* "Withdraw moves ALL approved earnings of the user to paid and credits the
\* organization wallet": what is marked as paid has been credited (Withdraw).
PaidIsCredited == PaidOut = Total(PaidEarnings)
=============================================================================

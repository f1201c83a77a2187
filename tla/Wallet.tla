------------------------------- MODULE Wallet -------------------------------
(***************************************************************************)
(* The prepaid wallet of an organisation in one currency, and its ledger:  *)
(* tables wallets and wallet_transactions, written only by                 *)
(* wallet.Service.ApplyTransaction inside a transaction of its caller.     *)
(*                                                                         *)
(* WalletSpec is the promise the billing code relies on: the balance only  *)
(* moves together with one appended ledger entry.  WalletTx shows that the *)
(* row lock and the unique index implement it; Settlement and Affiliate    *)
(* show that the handlers never touch the wallet in any other way.         *)
(*                                                                         *)
(* Money is an integer number of minor units (columns numeric(20,4)).      *)
(***************************************************************************)
EXTENDS Integers, Sequences

CONSTANTS
    Wallets,    \* (organisation, currency) pairs
    Amounts,    \* amounts a caller may ask for, invalid ones included
    Refs,       \* reference_type together with reference_id
    NoKey       \* the NULL idempotency key

ASSUME AmountsAssumption == Amounts \subseteq Int
ASSUME NoKeyAssumption == NoKey \notin Refs

VARIABLES
    balance,    \* wallets.balance
    ledger      \* wallet_transactions of each wallet, oldest first

walletVars == <<balance, ledger>>

Directions == {"credit", "debit"}
Keys == Refs \cup {NoKey}
Entries == [dir : Directions, amount : Amounts, before : Int, after : Int,
            ref : Refs, key : Keys]

WalletTypeOK ==
    /\ balance \in [Wallets -> Int]
    /\ ledger \in [Wallets -> Seq(Entries)]

-----------------------------------------------------------------------------
\* balance_after, computed from the locked balance
After(before, dir, amount) ==
    IF dir = "credit" THEN before + amount ELSE before - amount

\* Mutant of Covered: off by one at the empty wallet.
CoveredOffByOne(w, dir, amount) == After(balance[w], dir, amount) >= -1

\* The balance covers the entry (credits always are).
Covered(w, dir, amount) == After(balance[w], dir, amount) >= 0

\* Mutant of KeyUsed: the index leaves out the idempotency key.
KeyUsedNever(w, key) == FALSE

\* UNIQUE(wallet_id, idempotency_key); NULL keys never collide
KeyUsed(w, key) ==
    /\ key # NoKey
    /\ \E i \in DOMAIN ledger[w] : ledger[w][i].key = key

\* The result of a call, in the order the code tests it.  After "conflict" the
\* INSERT has failed and the caller's transaction can only roll back.
Outcome(w, dir, amount, key) ==
    CASE amount <= 0 -> "validation"
      [] amount > 0 /\ ~Covered(w, dir, amount) -> "insufficient"
      [] amount > 0 /\ Covered(w, dir, amount) /\ KeyUsed(w, key) -> "conflict"
      [] OTHER -> "ok"

NewEntry(w, dir, amount, ref, key) ==
    [dir |-> dir, amount |-> amount, before |-> balance[w],
     after |-> After(balance[w], dir, amount), ref |-> ref, key |-> key]

\* A call that succeeds, as it looks once the caller has committed.
ApplyTransaction(w, dir, amount, ref, key) ==
    /\ Outcome(w, dir, amount, key) = "ok"
    /\ ledger' = [ledger EXCEPT ![w] = Append(@, NewEntry(w, dir, amount, ref, key))]
    /\ balance' = [balance EXCEPT ![w] = After(@, dir, amount)]

WalletInit ==
    /\ balance = [w \in Wallets |-> 0]
    /\ ledger = [w \in Wallets |-> << >>]

WalletNext ==
    \E w \in Wallets, dir \in Directions, amount \in Amounts, ref \in Refs :
        \E key \in {ref, NoKey} : ApplyTransaction(w, dir, amount, ref, key)

WalletSpec == WalletInit /\ [][WalletNext]_walletVars

-----------------------------------------------------------------------------
\* The ledger explains the balance: the first entry starts from zero, every
\* entry starts where the previous one ended, the last one ends at the balance,
\* and each entry adds up (ApplyTransaction's balance_before/balance_after).
LedgerChained ==
    \A w \in Wallets :
        /\ ledger[w] = << >> => balance[w] = 0
        /\ ledger[w] # << >> =>
              /\ ledger[w][1].before = 0
              /\ ledger[w][Len(ledger[w])].after = balance[w]
        /\ \A i \in 1 .. Len(ledger[w]) :
              ledger[w][i].after
                  = After(ledger[w][i].before, ledger[w][i].dir, ledger[w][i].amount)
        /\ \A i \in 1 .. Len(ledger[w]) - 1 :
              ledger[w][i + 1].before = ledger[w][i].after

\* No wallet was ever overdrawn: neither the balance nor any recorded
\* balance_after is negative (the check in ApplyTransaction, backed by the
\* CHECK constraint on wallets.balance).
NeverOverdrawn ==
    \A w \in Wallets :
        /\ balance[w] >= 0
        /\ \A i \in 1 .. Len(ledger[w]) : ledger[w][i].after >= 0

\* An idempotency key is spent at most once per wallet.
KeysSpentOnce ==
    \A w \in Wallets : \A i, j \in 1 .. Len(ledger[w]) :
        /\ ledger[w][i].key = ledger[w][j].key
        /\ ledger[w][i].key # NoKey
        => i = j
=============================================================================

------------------------------ MODULE WalletTx ------------------------------
(***************************************************************************)
(* Concurrent database transactions that call ApplyTransaction, statement  *)
(* by statement: SELECT ... FOR UPDATE, the INSERT of the ledger entry,    *)
(* the UPDATE of the balance, and the caller's COMMIT.  Several requests   *)
(* (a webhook, a wallet payment, an admin adjustment, a withdrawal) reach  *)
(* the same wallet at once.  PostgreSQL runs at READ COMMITTED: a plain    *)
(* read sees the last committed row, FOR UPDATE waits for the row lock.    *)
(*                                                                         *)
(* The module implements WalletSpec with the committed rows as mapping.    *)
(***************************************************************************)
EXTENDS Wallet

CONSTANTS
    Txs,            \* concurrent transactions
    NoTx,           \* no lock holder
    MaxEntries      \* bound on the ledger of one wallet

ASSUME NoTxAssumption == NoTx \notin Txs
ASSUME MaxEntriesAssumption == MaxEntries \in Nat

VARIABLES
    rowLock,    \* holder of the FOR UPDATE lock of each wallets row
    tx          \* program counter and locals of each transaction

txVars == <<balance, ledger, rowLock, tx>>

Idle == [pc |-> "idle"]
Running(pc, w, e) == [pc |-> pc, wallet |-> w, entry |-> e]

\* A transaction is idle or carries the entry it is about to write, and the row
\* lock of a wallet is held exactly by the transaction that selected the row.
TxTypeOK ==
    /\ WalletTypeOK
    /\ rowLock \in [Wallets -> Txs \cup {NoTx}]
    /\ \A t \in Txs :
          \/ tx[t] = Idle
          \/ tx[t].pc \in {"selected", "inserted", "updated"} /\ tx[t].wallet \in Wallets
    /\ \A t \in Txs, w \in Wallets :
          rowLock[w] = t <=> tx[t] # Idle /\ tx[t].wallet = w

-----------------------------------------------------------------------------
TxInit ==
    /\ WalletInit
    /\ rowLock = [w \in Wallets |-> NoTx]
    /\ tx = [t \in Txs |-> Idle]

\* Mutant of LockRow: the balance is read without FOR UPDATE.
LockRowPlainRead(w, t) == rowLock' = [rowLock EXCEPT ![w] = t]

\* What FOR UPDATE does: wait until nobody holds the row, then hold it.
LockRow(w, t) ==
    /\ rowLock[w] = NoTx
    /\ rowLock' = [rowLock EXCEPT ![w] = t]

\* amount > 0, SELECT balance FOR UPDATE, balance_after computed and tested.
SelectForUpdate(t, w, dir, amount, ref, key) ==
    /\ tx[t] = Idle
    /\ amount > 0
    /\ Len(ledger[w]) < MaxEntries
    /\ LockRow(w, t)
    /\ Covered(w, dir, amount)
    /\ tx' = [tx EXCEPT ![t] = Running("selected", w, NewEntry(w, dir, amount, ref, key))]
    /\ UNCHANGED walletVars

\* INSERT INTO wallet_transactions, refused when the key is already there.
InsertEntry(t) ==
    /\ tx[t].pc = "selected"
    /\ ~KeyUsed(tx[t].wallet, tx[t].entry.key)
    /\ tx' = [tx EXCEPT ![t].pc = "inserted"]
    /\ UNCHANGED <<walletVars, rowLock>>

\* UPDATE wallets SET balance, still inside the transaction.
UpdateBalance(t) ==
    /\ tx[t].pc = "inserted"
    /\ tx' = [tx EXCEPT ![t].pc = "updated"]
    /\ UNCHANGED <<walletVars, rowLock>>

\* Mutant of Release: a connection returned to the pool with its lock held.
ReleaseLeaky(t) == tx' = [tx EXCEPT ![t] = Idle] /\ UNCHANGED rowLock

Release(t) ==
    /\ rowLock' = [w \in Wallets |-> IF rowLock[w] = t THEN NoTx ELSE rowLock[w]]
    /\ tx' = [tx EXCEPT ![t] = Idle]

\* Mutant of Commit: the balance moves without its ledger entry.
CommitBalanceOnly(t) ==
    /\ tx[t].pc = "updated"
    /\ balance' = [balance EXCEPT ![tx[t].wallet] = tx[t].entry.after]
    /\ UNCHANGED ledger
    /\ Release(t)

\* The caller commits: both rows become visible and the lock is released.
Commit(t) ==
    /\ tx[t].pc = "updated"
    /\ ledger' = [ledger EXCEPT ![tx[t].wallet] = Append(@, tx[t].entry)]
    /\ balance' = [balance EXCEPT ![tx[t].wallet] = tx[t].entry.after]
    /\ Release(t)

\* A unique violation, an error of a later statement, a lost connection or a
\* crash of the process: the transaction leaves nothing behind.
Rollback(t) ==
    /\ tx[t] # Idle
    /\ Release(t)
    /\ UNCHANGED walletVars

TxNext ==
    \E t \in Txs :
        \/ \E w \in Wallets, dir \in Directions, amount \in Amounts, ref \in Refs :
              \E key \in {ref, NoKey} : SelectForUpdate(t, w, dir, amount, ref, key)
        \/ InsertEntry(t)
        \/ UpdateBalance(t)
        \/ Commit(t)
        \/ Rollback(t)

TxSpec == TxInit /\ [][TxNext]_txVars
=============================================================================

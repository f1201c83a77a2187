--------------------------- MODULE RowLockProofs ----------------------------
(***************************************************************************)
(* What the row locks of SELECT ... FOR UPDATE buy, for any number of      *)
(* concurrent transactions, wallets, keys, amounts, invoices and users.    *)
(*                                                                         *)
(* Wallet rows: transactions that interleave statement by statement        *)
(* implement the atomic ledger of Wallet, so that everything WalletProofs  *)
(* shows of it holds of them, too.  The step that matters is Commit: it    *)
(* writes what was computed when the row was selected.  TxInv says why     *)
(* this is still right by then: whoever has selected a row holds its lock, *)
(* so that neither the balance nor the ledger of that wallet has moved     *)
(* since.                                                                  *)
(*                                                                         *)
(* Affiliate earnings: a withdrawal credits the sum of the rows that it    *)
(* has selected and then marks rows as paid by a condition.  AffiliateInv  *)
(* says why no row is paid twice or after it was reversed: the rows stay   *)
(* approved while they are held, and nobody else holds rows of their user. *)
(***************************************************************************)
EXTENDS WalletTx, Affiliate, WalletProofs, FiniteSetTheorems

\* Transaction t is about to write an entry that is still what a call of
\* ApplyTransaction would write now, and holds the row it belongs to.
Pending(t, pc, w, dir, amount, ref, key) ==
    /\ tx[t] = Running(pc, w, NewEntry(w, dir, amount, ref, key))
    /\ amount > 0
    /\ Covered(w, dir, amount)
    /\ rowLock[w] = t
    /\ pc \in {"inserted", "updated"} => ~KeyUsed(w, key)

Under(t) ==
    \E pc \in {"selected", "inserted", "updated"}, w \in Wallets, dir \in Directions,
       amount \in Amounts, ref \in Refs :
        \E key \in {ref, NoKey} : Pending(t, pc, w, dir, amount, ref, key)

TxInv ==
    /\ tx = [t \in Txs |-> tx[t]]
    /\ rowLock = [w \in Wallets |-> rowLock[w]]
    /\ \A t \in Txs : tx[t] = Idle \/ Under(t)

\* What a transaction is about to write stays right while nobody touches its
\* wallet and its lock.
LEMMA PendingKept ==
    ASSUME NEW t \in Txs, Under(t), tx'[t] = tx[t],
           \A w \in Wallets : rowLock[w] = t =>
               /\ rowLock'[w] = t
               /\ balance'[w] = balance[w]
               /\ ledger'[w] = ledger[w]
    PROVE  Under(t)'
  <1>1. PICK pc \in {"selected", "inserted", "updated"}, w \in Wallets, dir \in Directions,
             amount \in Amounts, ref \in Refs :
                \E key \in {ref, NoKey} : Pending(t, pc, w, dir, amount, ref, key)
    BY DEF Under
  <1>2. PICK key \in {ref, NoKey} : Pending(t, pc, w, dir, amount, ref, key)
    BY <1>1
  <1>3. rowLock'[w] = t /\ balance'[w] = balance[w] /\ ledger'[w] = ledger[w]
    BY <1>2 DEF Pending
  <1>4. NewEntry(w, dir, amount, ref, key)' = NewEntry(w, dir, amount, ref, key)
    BY <1>3 DEF NewEntry
  <1>5. Covered(w, dir, amount)' <=> Covered(w, dir, amount)
    BY <1>3 DEF Covered
  <1>6. KeyUsed(w, key)' <=> KeyUsed(w, key)
    BY <1>3 DEF KeyUsed
  <1>7. Pending(t, pc, w, dir, amount, ref, key)'
    BY <1>2, <1>3, <1>4, <1>5, <1>6 DEF Pending
  <1> QED  BY <1>7 DEF Under

\* The wallets that other transactions than t have locked are left alone.
SparesOthers(t) ==
    \A w \in Wallets, u \in Txs : u # t /\ rowLock[w] = u =>
        rowLock'[w] = u /\ balance'[w] = balance[w] /\ ledger'[w] = ledger[w]

\* A step of one transaction keeps the invariant if it leaves that transaction
\* idle or with a pending entry, and the wallets and locks of the others alone.
LEMMA OthersKept ==
    ASSUME TxInv, NEW t \in Txs, NEW r,
           tx' = [tx EXCEPT ![t] = r],
           rowLock' = [w \in Wallets |-> rowLock'[w]],
           SparesOthers(t),
           r = Idle \/ Under(t)'
    PROVE  TxInv'
  <1>1. tx' = [u \in Txs |-> tx'[u]] /\ tx'[t] = r
    BY DEF TxInv
  <1>2. ASSUME NEW u \in Txs
        PROVE  tx'[u] = Idle \/ Under(u)'
    <2>1. CASE u = t
      BY <1>1, <2>1
    <2>2. CASE u # t
      <3>1. tx'[u] = tx[u]
        BY <2>2 DEF TxInv
      <3>2. tx[u] = Idle \/ Under(u)
        BY DEF TxInv
      <3>3. \A w \in Wallets : rowLock[w] = u =>
               /\ rowLock'[w] = u
               /\ balance'[w] = balance[w]
               /\ ledger'[w] = ledger[w]
        BY <2>2 DEF SparesOthers
      <3> QED  BY <3>1, <3>2, <3>3, PendingKept
    <2> QED  BY <2>1, <2>2
  <1> QED  BY <1>1, <1>2 DEF TxInv

\* Every statement keeps the invariant.
LEMMA TxInvStep == TxInv /\ [TxNext]_txVars => TxInv'
  <1> SUFFICES ASSUME TxInv, [TxNext]_txVars
               PROVE  TxInv'
    OBVIOUS
  <1>1. ASSUME NEW t \in Txs, NEW w \in Wallets, NEW dir \in Directions,
               NEW amount \in Amounts, NEW ref \in Refs, NEW key \in {ref, NoKey},
               SelectForUpdate(t, w, dir, amount, ref, key)
        PROVE  TxInv'
    <2> DEFINE r == Running("selected", w, NewEntry(w, dir, amount, ref, key))
    <2>1. /\ tx' = [tx EXCEPT ![t] = r] /\ rowLock[w] = NoTx
          /\ rowLock' = [rowLock EXCEPT ![w] = t]
          /\ balance' = balance /\ ledger' = ledger
          /\ amount > 0 /\ Covered(w, dir, amount)
      BY <1>1 DEF SelectForUpdate, LockRow, walletVars
    <2>2. rowLock' = [v \in Wallets |-> rowLock'[v]] /\ rowLock'[w] = t
      BY <2>1 DEF TxInv
    <2>3. ASSUME NEW v \in Wallets, NEW u \in Txs, rowLock[v] = u
          PROVE  rowLock'[v] = u
      BY <2>1, <2>3, NoTxAssumption DEF TxInv
    <2>4. NewEntry(w, dir, amount, ref, key)' = NewEntry(w, dir, amount, ref, key)
      BY <2>1 DEF NewEntry
    <2>5. Covered(w, dir, amount)'
      BY <2>1 DEF Covered
    <2>6. tx'[t] = r
      BY <2>1 DEF TxInv
    <2>7. Pending(t, "selected", w, dir, amount, ref, key)'
      BY <2>1, <2>2, <2>4, <2>5, <2>6 DEF Pending
    <2>8. Under(t)'
      BY <2>7 DEF Under
    <2>9. SparesOthers(t)
      BY <2>1, <2>3 DEF SparesOthers
    <2>10. tx' = [tx EXCEPT ![t] = r]
      BY <2>1
    <2> HIDE DEF r
    <2> QED  BY <2>2, <2>8, <2>9, <2>10, OthersKept
  <1>2. ASSUME NEW t \in Txs, NEW pc \in {"inserted", "updated"},
               tx[t].pc = IF pc = "inserted" THEN "selected" ELSE "inserted",
               pc = "inserted" => ~KeyUsed(tx[t].wallet, tx[t].entry.key),
               tx' = [tx EXCEPT ![t].pc = pc], UNCHANGED <<walletVars, rowLock>>
        PROVE  TxInv'
    <2>1. /\ balance' = balance /\ ledger' = ledger /\ rowLock' = rowLock
          /\ tx' = [tx EXCEPT ![t] = [tx[t] EXCEPT !.pc = pc]]
      BY <1>2 DEF walletVars
    <2>2. Under(t)
      BY <1>2 DEF TxInv, Idle
    <2>3. PICK pc0 \in {"selected", "inserted", "updated"}, w \in Wallets, dir \in Directions,
               amount \in Amounts, ref \in Refs :
                  \E key \in {ref, NoKey} : Pending(t, pc0, w, dir, amount, ref, key)
      BY <2>2 DEF Under
    <2>4. PICK key \in {ref, NoKey} : Pending(t, pc0, w, dir, amount, ref, key)
      BY <2>3
    <2> DEFINE e == NewEntry(w, dir, amount, ref, key)
    <2>5. e.key = key
      BY DEF NewEntry
    <2> HIDE DEF e
    <2>6. tx[t] = Running(pc0, w, e)
      BY <2>4 DEF Pending, e
    <2>7. tx[t].pc = pc0 /\ tx[t].wallet = w /\ tx[t].entry = e
      BY <2>6 DEF Running
    <2>8. ~KeyUsed(w, key)
      BY <1>2, <2>4, <2>5, <2>7 DEF Pending
    <2>9. [tx[t] EXCEPT !.pc = pc] = Running(pc, w, e)
      BY <2>6 DEF Running
    <2>10. tx'[t] = Running(pc, w, e)
      BY <2>1, <2>9 DEF TxInv
    <2>11. /\ NewEntry(w, dir, amount, ref, key)' = e
           /\ Covered(w, dir, amount)' <=> Covered(w, dir, amount)
           /\ KeyUsed(w, key)' <=> KeyUsed(w, key)
      BY <2>1 DEF e, NewEntry, Covered, KeyUsed
    <2>12. Pending(t, pc, w, dir, amount, ref, key)'
      BY <2>1, <2>4, <2>8, <2>10, <2>11 DEF Pending
    <2>13. Under(t)'
      BY <1>2, <2>12 DEF Under
    <2>14. rowLock' = [v \in Wallets |-> rowLock'[v]]
      BY <2>1 DEF TxInv
    <2> DEFINE r == [tx[t] EXCEPT !.pc = pc]
    <2>15. tx' = [tx EXCEPT ![t] = r]
      BY <2>1
    <2> HIDE DEF r
    <2>16. SparesOthers(t)
      BY <2>1 DEF SparesOthers
    <2> QED  BY <2>13, <2>14, <2>15, <2>16, OthersKept
  <1>3. ASSUME NEW t \in Txs, Commit(t)
        PROVE  TxInv'
    <2> DEFINE w == tx[t].wallet
    <2>1. /\ tx[t].pc = "updated"
          /\ ledger' = [ledger EXCEPT ![w] = Append(@, tx[t].entry)]
          /\ balance' = [balance EXCEPT ![w] = tx[t].entry.after]
          /\ rowLock' = [v \in Wallets |-> IF rowLock[v] = t THEN NoTx ELSE rowLock[v]]
          /\ tx' = [tx EXCEPT ![t] = Idle]
      BY <1>3 DEF Commit, Release
    <2>2. rowLock[w] = t
      BY <2>1 DEF TxInv, Idle, Under, Pending, Running
    <2> HIDE DEF w
    <2>3. ASSUME NEW v \in Wallets, NEW u \in Txs, u # t, rowLock[v] = u
          PROVE  rowLock'[v] = u /\ balance'[v] = balance[v] /\ ledger'[v] = ledger[v]
      BY <2>1, <2>2, <2>3
    <2>4. rowLock' = [v \in Wallets |-> rowLock'[v]]
      BY <2>1
    <2>5. tx' = [tx EXCEPT ![t] = Idle]
      BY <2>1
    <2>6. SparesOthers(t)
      BY <2>3 DEF SparesOthers
    <2> QED  BY <2>4, <2>5, <2>6, OthersKept
  <1>4. ASSUME NEW t \in Txs, Rollback(t)
        PROVE  TxInv'
    <2>1. /\ rowLock' = [v \in Wallets |-> IF rowLock[v] = t THEN NoTx ELSE rowLock[v]]
          /\ tx' = [tx EXCEPT ![t] = Idle]
          /\ balance' = balance /\ ledger' = ledger
      BY <1>4 DEF Rollback, Release, walletVars
    <2>2. rowLock' = [v \in Wallets |-> rowLock'[v]]
      BY <2>1
    <2>3. ASSUME NEW v \in Wallets, NEW u \in Txs, u # t, rowLock[v] = u
          PROVE  rowLock'[v] = u
      BY <2>1, <2>3
    <2>4. SparesOthers(t)
      BY <2>1, <2>3 DEF SparesOthers
    <2>5. tx' = [tx EXCEPT ![t] = Idle]
      BY <2>1
    <2> QED  BY <2>2, <2>4, <2>5, OthersKept
  <1>5. CASE UNCHANGED txVars
    <2>1. balance' = balance /\ ledger' = ledger /\ rowLock' = rowLock /\ tx' = tx
      BY <1>5 DEF txVars
    <2>2. ASSUME NEW t \in Txs
          PROVE  tx'[t] = Idle \/ Under(t)'
      BY <2>1, PendingKept DEF TxInv
    <2> QED  BY <2>1, <2>2 DEF TxInv
  <1>6. CASE TxNext
    <2>1. PICK t \in Txs :
             \/ \E w \in Wallets, dir \in Directions, amount \in Amounts, ref \in Refs :
                   \E key \in {ref, NoKey} : SelectForUpdate(t, w, dir, amount, ref, key)
             \/ InsertEntry(t) \/ UpdateBalance(t) \/ Commit(t) \/ Rollback(t)
      BY <1>6 DEF TxNext
    <2>2. CASE InsertEntry(t)
      BY <1>2, <2>2 DEF InsertEntry
    <2>3. CASE UpdateBalance(t)
      BY <1>2, <2>3 DEF UpdateBalance
    <2> QED  BY <1>1, <1>3, <1>4, <2>1, <2>2, <2>3
  <1> QED  BY <1>5, <1>6

\* A commit is a call of ApplyTransaction at that moment; no other statement
\* changes what is committed.
LEMMA CommitIsACall == TxInv /\ [TxNext]_txVars => [WalletNext]_walletVars
  <1> SUFFICES ASSUME TxInv, [TxNext]_txVars
               PROVE  [WalletNext]_walletVars
    OBVIOUS
  <1>1. ASSUME NEW t \in Txs, Commit(t)
        PROVE  WalletNext
    <2>1. /\ tx[t].pc = "updated"
          /\ ledger' = [ledger EXCEPT ![tx[t].wallet] = Append(@, tx[t].entry)]
          /\ balance' = [balance EXCEPT ![tx[t].wallet] = tx[t].entry.after]
      BY <1>1 DEF Commit
    <2>2. Under(t)
      BY <2>1 DEF TxInv, Idle
    <2>3. PICK pc \in {"selected", "inserted", "updated"}, w \in Wallets, dir \in Directions,
               amount \in Amounts, ref \in Refs :
                  \E key \in {ref, NoKey} : Pending(t, pc, w, dir, amount, ref, key)
      BY <2>2 DEF Under
    <2>4. PICK key \in {ref, NoKey} : Pending(t, pc, w, dir, amount, ref, key)
      BY <2>3
    <2> DEFINE e == NewEntry(w, dir, amount, ref, key)
    <2>5. e.after = After(balance[w], dir, amount)
      BY DEF NewEntry
    <2> HIDE DEF e
    <2>6. tx[t] = Running(pc, w, e)
      BY <2>4 DEF Pending, e
    <2>7. tx[t].pc = pc /\ tx[t].wallet = w /\ tx[t].entry = e
      BY <2>6 DEF Running
    <2>8. Outcome(w, dir, amount, key) = "ok"
      <3>1. amount \in Int /\ amount > 0 /\ Covered(w, dir, amount) /\ ~KeyUsed(w, key)
        BY <2>1, <2>4, <2>7, AmountsAssumption DEF Pending
      <3>2. ~(amount <= 0)
        BY <3>1
      <3> QED  BY <3>1, <3>2 DEF Outcome
    <2>9. /\ ledger' = [ledger EXCEPT ![w] = Append(@, e)]
          /\ balance' = [balance EXCEPT ![w] = After(@, dir, amount)]
      BY <2>1, <2>5, <2>7
    <2>10. ApplyTransaction(w, dir, amount, ref, key)
      BY <2>8, <2>9 DEF ApplyTransaction, e
    <2> QED  BY <2>10 DEF WalletNext
  <1>2. ASSUME NEW t \in Txs, NEW w \in Wallets, NEW dir \in Directions,
               NEW amount \in Amounts, NEW ref \in Refs, NEW key \in {ref, NoKey},
               SelectForUpdate(t, w, dir, amount, ref, key)
        PROVE  UNCHANGED walletVars
    BY <1>2 DEF SelectForUpdate
  <1>3. ASSUME NEW t \in Txs, InsertEntry(t) \/ UpdateBalance(t) \/ Rollback(t)
        PROVE  UNCHANGED walletVars
    BY <1>3 DEF InsertEntry, UpdateBalance, Rollback, walletVars
  <1>4. CASE UNCHANGED txVars
    BY <1>4 DEF txVars, walletVars
  <1>5. CASE TxNext
    <2>1. PICK t \in Txs :
             \/ \E w \in Wallets, dir \in Directions, amount \in Amounts, ref \in Refs :
                   \E key \in {ref, NoKey} : SelectForUpdate(t, w, dir, amount, ref, key)
             \/ InsertEntry(t) \/ UpdateBalance(t) \/ Commit(t) \/ Rollback(t)
      BY <1>5 DEF TxNext
    <2> QED  BY <1>1, <1>2, <1>3, <2>1
  <1> QED  BY <1>4, <1>5

\* Transactions that interleave statement by statement under SELECT ... FOR
\* UPDATE, and roll back anywhere, are the atomic calls of Wallet
\* (ApplyTransaction inside its caller's transaction).
THEOREM RowLocksMakeCallsAtomic == TxSpec => WalletSpec
  <1>1. TxInit => TxInv
    BY DEF TxInit, TxInv
  <1>2. TxInit => WalletInit
    BY DEF TxInit
  <1>3. TxSpec => []TxInv
    BY <1>1, TxInvStep, PTL DEF TxSpec
  <1> QED  BY <1>2, <1>3, CommitIsACall, PTL DEF TxSpec, WalletSpec

\* So no interleaving of concurrent requests overdraws a wallet
\* (ApplyTransaction's test of balance_after).
THEOREM ConcurrentCallsNeverOverdraw == TxSpec => []NeverOverdrawn
  <1>1. LedgerChained /\ NeverOverdrawn /\ KeysSpentOnce => NeverOverdrawn
    OBVIOUS
  <1> QED  BY <1>1, RowLocksMakeCallsAtomic, LedgerCorrect, PTL

\* And no interleaving of repeated requests books one idempotency key twice
\* (ApplyTransaction's INSERT under the unique index).
THEOREM ConcurrentCallsSpendKeysOnce == TxSpec => []KeysSpentOnce
  <1>1. LedgerChained /\ NeverOverdrawn /\ KeysSpentOnce => KeysSpentOnce
    OBVIOUS
  <1> QED  BY <1>1, RowLocksMakeCallsAtomic, LedgerCorrect, PTL

\* And the ledger of every wallet explains its balance, entry by entry, although
\* each entry was computed before its transaction committed (ApplyTransaction).
THEOREM ConcurrentCallsKeepTheLedger == TxSpec => []LedgerChained
  BY RowLocksMakeCallsAtomic, LedgerCorrect, PTL

-----------------------------------------------------------------------------
\* The other direction of the lock, which the refinement does without: whoever
\* holds a row has selected it, so that no lock is left behind.
LockInv ==
    /\ rowLock \in [Wallets -> Txs \cup {NoTx}]
    /\ \A t \in Txs, w \in Wallets : rowLock[w] = t => tx[t] # Idle /\ tx[t].wallet = w

\* A transaction that is under way is at one of its statements, on one wallet.
LEMMA UnderWay ==
    ASSUME NEW t \in Txs, Under(t)
    PROVE  /\ tx[t] # Idle /\ tx[t].pc \in {"selected", "inserted", "updated"}
           /\ tx[t].wallet \in Wallets /\ rowLock[tx[t].wallet] = t
  <1>1. PICK pc \in {"selected", "inserted", "updated"}, w \in Wallets, dir \in Directions,
             amount \in Amounts, ref \in Refs :
                \E key \in {ref, NoKey} : Pending(t, pc, w, dir, amount, ref, key)
    BY DEF Under
  <1>2. PICK e : tx[t] = Running(pc, w, e) /\ rowLock[w] = t
    BY <1>1 DEF Pending
  <1>3. tx[t].pc = pc /\ tx[t].wallet = w
    BY <1>2 DEF Running
  <1>4. tx[t] # Idle
    BY <1>3 DEF Idle
  <1> QED  BY <1>2, <1>3, <1>4

\* Every statement keeps it: a lock is taken with the transaction's locals and
\* released with them.
LEMMA LockStep == TxInv /\ LockInv /\ [TxNext]_txVars => LockInv'
  <1> SUFFICES ASSUME TxInv, LockInv, [TxNext]_txVars PROVE LockInv'
    OBVIOUS
  <1>1. ASSUME NEW t \in Txs, NEW w \in Wallets, NEW e, tx[t] = Idle,
               rowLock' = [rowLock EXCEPT ![w] = t], tx' = [tx EXCEPT ![t] = Running("selected", w, e)]
        PROVE  LockInv'
    <2> DEFINE r == Running("selected", w, e)
    <2>1. r.wallet = w /\ r # Idle
      <3>1. r.wallet = w /\ r.pc = "selected"
        BY DEF Running
      <3> QED  BY <3>1 DEF Idle
    <2>2. tx' = [tx EXCEPT ![t] = r]
      BY <1>1
    <2> HIDE DEF r
    <2> QED  BY <1>1, <2>1, <2>2 DEF TxInv, LockInv
  <1>2. ASSUME NEW t \in Txs, NEW pc \in {"inserted", "updated"}, tx[t] # Idle,
               tx' = [tx EXCEPT ![t].pc = pc], UNCHANGED rowLock
        PROVE  LockInv'
    <2>0. PICK pc0 \in {"selected", "inserted", "updated"}, w \in Wallets, dir \in Directions,
               amount \in Amounts, ref \in Refs :
                  \E key \in {ref, NoKey} : Pending(t, pc0, w, dir, amount, ref, key)
      BY <1>2 DEF TxInv, Under
    <2>1. PICK e : tx[t] = Running(pc0, w, e)
      BY <2>0 DEF Pending
    <2> DEFINE r == [tx[t] EXCEPT !.pc = pc]
    <2>2. r.pc = pc /\ r.wallet = w /\ tx[t].wallet = w
      BY <2>1 DEF Running
    <2>3. r # Idle
      BY <2>2 DEF Idle
    <2>4. tx' = [tx EXCEPT ![t] = r]
      BY <1>2
    <2> HIDE DEF r
    <2> QED  BY <1>2, <2>2, <2>3, <2>4 DEF TxInv, LockInv
  <1>3. ASSUME NEW t \in Txs, Release(t) PROVE LockInv'
    BY <1>3, NoTxAssumption DEF Release, TxInv, LockInv
  <1>4. CASE UNCHANGED txVars
    BY <1>4 DEF txVars, LockInv
  <1>5. CASE TxNext
    <2>1. PICK t \in Txs :
             \/ \E w \in Wallets, dir \in Directions, amount \in Amounts, ref \in Refs :
                   \E key \in {ref, NoKey} : SelectForUpdate(t, w, dir, amount, ref, key)
             \/ InsertEntry(t) \/ UpdateBalance(t) \/ Commit(t) \/ Rollback(t)
      BY <1>5 DEF TxNext
    <2>2. tx[t] = Idle => tx[t].pc = "idle"
      BY DEF Idle
    <2>3. CASE InsertEntry(t)
      BY <1>2, <2>2, <2>3 DEF InsertEntry
    <2>4. CASE UpdateBalance(t)
      BY <1>2, <2>2, <2>4 DEF UpdateBalance
    <2>5. CASE Commit(t) \/ Rollback(t)
      BY <1>3, <2>5 DEF Commit, Rollback
    <2> QED  BY <1>1, <2>1, <2>3, <2>4, <2>5 DEF SelectForUpdate, LockRow
  <1> QED  BY <1>4, <1>5

\* For any number of transactions, a row is locked exactly by the transaction that
\* has selected it: every way out of a transaction, a failed INSERT and a lost
\* connection included, gives the lock back (ApplyTransaction, its callers).
THEOREM LocksAreHeldInTransactions == TxSpec => []TxTypeOK
  <1>1. TxInit => TxInv /\ LockInv
    BY NoTxAssumption DEF TxInit, TxInv, LockInv
  <1>2. TxSpec => [](TxInv /\ LockInv)
    BY <1>1, TxInvStep, LockStep, PTL DEF TxSpec
  <1>3. WalletInv /\ TxInv /\ LockInv => TxTypeOK
    <2> SUFFICES ASSUME WalletTypeOK, TxInv, LockInv PROVE TxTypeOK
      BY DEF WalletInv
    <2>1. ASSUME NEW t \in Txs, tx[t] # Idle
          PROVE  /\ tx[t].pc \in {"selected", "inserted", "updated"}
                 /\ tx[t].wallet \in Wallets /\ rowLock[tx[t].wallet] = t
      BY <2>1, UnderWay DEF TxInv
    <2> QED  BY <2>1 DEF LockInv, TxTypeOK
  <1> QED  BY <1>2, <1>3, RowLocksMakeCallsAtomic, WalletCorrect, PTL

-----------------------------------------------------------------------------
(* Affiliate earnings.                                                     *)

Rows == [status : EarningStatus, amount : Nat]

\* Why a withdrawal pays what it has selected and nobody else pays it: the rows it
\* holds are approved for as long as it holds them, and the rows that are held
\* belong to the same user exactly when the same withdrawal holds them.
AffiliateInv ==
    /\ AffiliateTypeOK
    /\ \A q \in Withdrawals : \A e \in selected[q] : earnings[e].status = "approved"
    /\ \A q, r \in Withdrawals : \A e \in selected[q], f \in selected[r] :
          Owner(e) = Owner(f) <=> q = r

\* What a step may do to a row: nothing, insert it, or take it to its end.
EarningMoves(e) ==
    \/ earnings'[e].status = earnings[e].status /\ earnings'[e].amount = earnings[e].amount
    \/ /\ earnings[e].status = "none" /\ earnings'[e].status = "approved"
       /\ earnings'[e].amount \in 1 .. Base[e[1]]
    \/ /\ earnings[e].status = "approved" /\ earnings'[e].status \in {"paid", "reversed"}
       /\ earnings'[e].amount = earnings[e].amount

\* A commission is never more than its base, rounding included
\* (computeCommission).
LEMMA CommissionIsCovered ==
    ASSUME NEW base \in Nat, NEW percent \in Percents
    PROVE  ComputeCommission(base, percent) \in 0 .. base
  <1>0. percent \in 0 .. 10000
    BY AffiliateAssumption
  <1>1. PICK x \in Int : x = base * percent
    BY <1>0
  <1>2. x >= 0 /\ x <= base * 10000
    <2>1. base * (10000 - percent) >= 0 /\ base * percent >= 0
      BY <1>0
    <2>2. base * (10000 - percent) = base * 10000 - base * percent
      BY <1>0
    <2> QED  BY <1>1, <2>1, <2>2
  <1>3. (x + 5000) \div 10000 \in 0 .. base
    BY <1>2
  <1> QED  BY <1>0, <1>1, <1>3 DEF ComputeCommission

\* An insert leaves a row that is there alone.
LEMMA InsertedRow ==
    ASSUME NEW row \in Rows, NEW amount \in Nat
    PROVE  /\ Insert(row, amount) \in Rows
           /\ \/ Insert(row, amount) = row
              \/ /\ row.status = "none" /\ Insert(row, amount).status = "approved"
                 /\ Insert(row, amount).amount = amount /\ amount > 0
  BY DEF Insert, Rows, EarningStatus

\* Every step moves every row in one of these ways.
LEMMA RowsMove ==
    ASSUME AffiliateTypeOK, [AffiliateNext]_affiliateVars
    PROVE  earnings' \in [Earnings -> Rows] /\ \A e \in Earnings : EarningMoves(e)
  <1>1. earnings \in [Earnings -> Rows] /\ \A e \in Earnings : earnings[e] \in Rows
    BY DEF AffiliateTypeOK, Rows
  <1>2. CASE UNCHANGED earnings
    BY <1>1, <1>2 DEF EarningMoves
  <1>3. ASSUME NEW i \in Invoices, RecordCommissionForInvoice(i)
        PROVE  earnings' \in [Earnings -> Rows] /\ \A e \in Earnings : EarningMoves(e)
    <2>1. Base[i] \in Nat /\ \A p \in Percents : ComputeCommission(Base[i], p) \in 0 .. Base[i]
      <3>1. Base[i] \in Nat
        BY AffiliateAssumption
      <3>2. ASSUME NEW p \in Percents PROVE ComputeCommission(Base[i], p) \in 0 .. Base[i]
        BY <3>1, CommissionIsCovered
      <3> QED  BY <3>1, <3>2
    <2>2. PICK c, b \in 0 .. Base[i] : /\ c = ComputeCommission(Base[i], settings.percent)
                                       /\ b = ComputeCommission(Base[i], settings.bonus)
      <3>1. settings.percent \in Percents /\ settings.bonus \in Percents
        BY DEF AffiliateTypeOK
      <3> QED  BY <2>1, <3>1, Zenon
    <2> DEFINE e1 == <<i, "referrer_commission">>
               e2 == <<i, "referee_bonus">>
    <2>3. e1 \in Earnings /\ e2 \in Earnings /\ e1 # e2 /\ e1[1] = i /\ e2[1] = i
      BY DEF Earnings, Types
    <2>4. earnings' = [earnings EXCEPT ![e1] = Insert(@, c), ![e2] = Insert(@, b)]
      BY <1>3, <2>2 DEF RecordCommissionForInvoice
    <2> HIDE DEF e1, e2
    <2>5. c \in Nat /\ b \in Nat
      BY <2>1
    <2>6. /\ Insert(earnings[e1], c) \in Rows
          /\ \/ Insert(earnings[e1], c) = earnings[e1]
             \/ /\ earnings[e1].status = "none" /\ Insert(earnings[e1], c).status = "approved"
                /\ Insert(earnings[e1], c).amount = c /\ c > 0
      BY <1>1, <2>3, <2>5, InsertedRow
    <2>7. /\ Insert(earnings[e2], b) \in Rows
          /\ \/ Insert(earnings[e2], b) = earnings[e2]
             \/ /\ earnings[e2].status = "none" /\ Insert(earnings[e2], b).status = "approved"
                /\ Insert(earnings[e2], b).amount = b /\ b > 0
      BY <1>1, <2>3, <2>5, InsertedRow
    <2>8. /\ earnings'[e1] = Insert(earnings[e1], c) /\ earnings'[e2] = Insert(earnings[e2], b)
          /\ \A e \in Earnings \ {e1, e2} : earnings'[e] = earnings[e]
          /\ earnings' = [e \in Earnings |-> earnings'[e]]
      BY <1>1, <2>3, <2>4
    <2>9. earnings' \in [Earnings -> Rows]
      BY <1>1, <2>6, <2>7, <2>8
    <2>10. EarningMoves(e1)
      BY <2>1, <2>3, <2>5, <2>6, <2>8 DEF EarningMoves
    <2>11. EarningMoves(e2)
      BY <2>1, <2>3, <2>5, <2>7, <2>8 DEF EarningMoves
    <2> QED  BY <2>8, <2>9, <2>10, <2>11 DEF EarningMoves
  <1>4. ASSUME NEW q \in Withdrawals, NEW u \in Users, NEW w \in WalletsOf[u],
               WithdrawCommit(q, u, w)
        PROVE  earnings' \in [Earnings -> Rows] /\ \A e \in Earnings : EarningMoves(e)
    <2>1. earnings' = [e \in Earnings |->
                         IF e \in Approved(u) THEN [earnings[e] EXCEPT !.status = "paid"]
                                              ELSE earnings[e]]
      BY <1>4 DEF WithdrawCommit
    <2>2. ASSUME NEW e \in Earnings PROVE earnings'[e] \in Rows /\ EarningMoves(e)
      <3>1. CASE e \in Approved(u)
        <4>1. earnings'[e] = [earnings[e] EXCEPT !.status = "paid"]
          BY <2>1, <3>1
        <4>2. earnings[e] \in Rows /\ earnings[e].status = "approved"
          BY <1>1, <3>1 DEF Approved
        <4>3. /\ earnings'[e] \in Rows /\ earnings'[e].status = "paid"
              /\ earnings'[e].amount = earnings[e].amount
          BY <4>1, <4>2 DEF Rows, EarningStatus
        <4> QED  BY <4>2, <4>3 DEF EarningMoves
      <3>2. CASE e \notin Approved(u)
        BY <1>1, <2>1, <3>2 DEF EarningMoves
      <3> QED  BY <3>1, <3>2
    <2> QED  BY <2>1, <2>2
  <1>5. ASSUME NEW e \in Earnings, Reverse(e)
        PROVE  earnings' \in [Earnings -> Rows] /\ \A f \in Earnings : EarningMoves(f)
    <2> DEFINE row == [earnings[e] EXCEPT !.status = "reversed"]
    <2>1. earnings' = [earnings EXCEPT ![e] = row] /\ earnings[e].status = "approved"
      BY <1>5 DEF Reverse
    <2>2. row \in Rows /\ row.status = "reversed" /\ row.amount = earnings[e].amount
      BY <1>1 DEF Rows, EarningStatus
    <2> HIDE DEF row
    <2> QED  BY <1>1, <2>1, <2>2 DEF EarningMoves
  <1>6. ASSUME NEW q \in Withdrawals, NEW u \in Users,
               \/ WithdrawSelect(q, u)
               \/ \E w \in WalletsOf[u] : WithdrawCommit(q, u, w)
        PROVE  earnings' \in [Earnings -> Rows] /\ \A f \in Earnings : EarningMoves(f)
    BY <1>2, <1>4, <1>6 DEF WithdrawSelect
  <1>7. ASSUME NEW i \in Invoices, Settle(i) \/ RecordCommissionForInvoice(i)
        PROVE  earnings' \in [Earnings -> Rows] /\ \A f \in Earnings : EarningMoves(f)
    BY <1>2, <1>3, <1>7 DEF Settle
  <1>8. CASE \/ \E new \in Settings : UpdateSettings(new)
             \/ \E q \in Withdrawals : WithdrawRollback(q)
             \/ UNCHANGED affiliateVars
    BY <1>2, <1>8 DEF UpdateSettings, WithdrawRollback, affiliateVars
  <1> QED  BY <1>5, <1>6, <1>7, <1>8 DEF AffiliateNext

\* A withdrawal selects rows of its own, and a commit or a rollback lets go of them.
LEMMA SelectionStep ==
    ASSUME AffiliateInv, [AffiliateNext]_affiliateVars
    PROVE  /\ selected' \in [Withdrawals -> SUBSET Earnings]
           /\ \A q \in Withdrawals : \A e \in selected'[q] : earnings'[e].status = "approved"
           /\ \A q, r \in Withdrawals : \A e \in selected'[q], f \in selected'[r] :
                 Owner(e) = Owner(f) <=> q = r
  <1>1. /\ AffiliateTypeOK /\ selected \in [Withdrawals -> SUBSET Earnings]
        /\ \A q \in Withdrawals : \A e \in selected[q] : earnings[e].status = "approved"
        /\ \A q, r \in Withdrawals : \A e \in selected[q], f \in selected[r] :
              Owner(e) = Owner(f) <=> q = r
    BY DEF AffiliateInv, AffiliateTypeOK
  <1> DEFINE Goal == /\ selected' \in [Withdrawals -> SUBSET Earnings]
                     /\ \A q \in Withdrawals : \A e \in selected'[q] :
                           earnings'[e].status = "approved"
                     /\ \A q, r \in Withdrawals : \A e \in selected'[q], f \in selected'[r] :
                           Owner(e) = Owner(f) <=> q = r
  <1>2. CASE UNCHANGED <<selected, earnings>>
    BY <1>1, <1>2
  <1>3. ASSUME NEW i \in Invoices, RecordCommissionForInvoice(i) PROVE Goal
    <2>1. UNCHANGED selected
      BY <1>3 DEF RecordCommissionForInvoice
    <2>2. ASSUME NEW e \in Earnings, earnings[e].status = "approved"
          PROVE  earnings'[e].status = "approved"
      <3> DEFINE e1 == <<i, "referrer_commission">>
                 e2 == <<i, "referee_bonus">>
                 c == ComputeCommission(Base[i], settings.percent)
                 b == ComputeCommission(Base[i], settings.bonus)
      <3>1. e1 # e2 /\ earnings' = [earnings EXCEPT ![e1] = Insert(@, c), ![e2] = Insert(@, b)]
        BY <1>3 DEF RecordCommissionForInvoice
      <3> HIDE DEF c, b, e1, e2
      <3>2. \A a : Insert(earnings[e], a) = earnings[e]
        BY <2>2 DEF Insert
      <3>3. earnings'[e] = earnings[e]
        BY <1>1, <3>1, <3>2 DEF AffiliateTypeOK
      <3> QED  BY <2>2, <3>3
    <2> QED  BY <1>1, <2>1, <2>2
  <1>4. ASSUME NEW q \in Withdrawals, NEW u \in Users, WithdrawSelect(q, u) PROVE Goal
    <2>1. /\ selected[q] = {} /\ selected' = [selected EXCEPT ![q] = Approved(u)]
          /\ \A e \in Approved(u) : \A r \in Withdrawals : e \notin selected[r]
          /\ UNCHANGED earnings
      BY <1>4 DEF WithdrawSelect, Locked
    <2>2. PICK A \in SUBSET Earnings : A = Approved(u)
      BY DEF Approved
    <2>3. \A e \in Earnings : e \in A <=> Owner(e) = u /\ earnings[e].status = "approved"
      BY <2>2 DEF Approved
    <2>4. /\ selected'[q] = A /\ \A r \in Withdrawals : r # q => selected'[r] = selected[r]
          /\ selected' \in [Withdrawals -> SUBSET Earnings]
      BY <1>1, <2>1, <2>2
    <2>5. \A r \in Withdrawals : \A e \in selected[r] : Owner(e) # u
      BY <1>1, <2>1, <2>2, <2>3
    <2>6. \A r \in Withdrawals : \A e \in selected'[r] : earnings'[e].status = "approved"
      BY <1>1, <2>1, <2>3, <2>4
    <2>7. ASSUME NEW r \in Withdrawals, NEW s \in Withdrawals,
                 NEW e \in selected'[r], NEW f \in selected'[s]
          PROVE  Owner(e) = Owner(f) <=> r = s
      <3>1. (r = q => Owner(e) = u) /\ (s = q => Owner(f) = u)
        BY <2>3, <2>4
      <3>2. /\ r # q => e \in selected[r] /\ Owner(e) # u
            /\ s # q => f \in selected[s] /\ Owner(f) # u
        BY <2>4, <2>5
      <3> QED  BY <1>1, <3>1, <3>2
    <2> QED  BY <2>4, <2>6, <2>7
  <1>5. ASSUME NEW q \in Withdrawals, selected' = [selected EXCEPT ![q] = {}],
               \A r \in Withdrawals \ {q} : \A e \in selected[r] : earnings'[e] = earnings[e]
        PROVE  Goal
    <2>1. /\ selected' \in [Withdrawals -> SUBSET Earnings] /\ selected'[q] = {}
          /\ \A r \in Withdrawals \ {q} : selected'[r] = selected[r]
      BY <1>1, <1>5
    <2> QED  BY <1>1, <1>5, <2>1
  <1>6. ASSUME NEW q \in Withdrawals, NEW u \in Users, NEW w \in WalletsOf[u],
               WithdrawCommit(q, u, w)
        PROVE  Goal
    <2>1. /\ selected' = [selected EXCEPT ![q] = {}]
          /\ selected[q] # {} /\ \A e \in selected[q] : Owner(e) = u
          /\ earnings' = [e \in Earnings |->
                            IF e \in Approved(u) THEN [earnings[e] EXCEPT !.status = "paid"]
                                                 ELSE earnings[e]]
      BY <1>6 DEF WithdrawCommit, WithdrawalOf
    <2>2. ASSUME NEW r \in Withdrawals \ {q}, NEW e \in selected[r]
          PROVE  earnings'[e] = earnings[e]
      <3>1. Owner(e) # u /\ e \in Earnings
        BY <1>1, <2>1
      <3>2. e \notin Approved(u)
        BY <3>1 DEF Approved
      <3> QED  BY <2>1, <3>1, <3>2
    <2> QED  BY <1>5, <2>1, <2>2
  <1>7. ASSUME NEW q \in Withdrawals, WithdrawRollback(q) PROVE Goal
    <2>1. selected' = [selected EXCEPT ![q] = {}] /\ UNCHANGED earnings
      BY <1>7 DEF WithdrawRollback
    <2> QED  BY <1>5, <2>1
  <1>8. ASSUME NEW e \in Earnings, Reverse(e) PROVE Goal
    <2>1. /\ UNCHANGED selected /\ \A q \in Withdrawals : e \notin selected[q]
          /\ earnings' = [earnings EXCEPT ![e].status = "reversed"]
      BY <1>8 DEF Reverse, Locked
    <2>2. \A f \in Earnings : f # e => earnings'[f] = earnings[f]
      BY <1>1, <2>1 DEF AffiliateTypeOK
    <2>3. ASSUME NEW q \in Withdrawals, NEW f \in selected[q] PROVE earnings'[f] = earnings[f]
      BY <1>1, <2>1, <2>2
    <2> QED  BY <1>1, <2>1, <2>3
  <1>9. ASSUME \/ \E new \in Settings : UpdateSettings(new)
               \/ \E i \in Invoices : Settle(i)
               \/ UNCHANGED affiliateVars
        PROVE  Goal
    BY <1>2, <1>9 DEF UpdateSettings, Settle, affiliateVars
  <1> HIDE DEF Goal
  <1>10. ASSUME NEW q \in Withdrawals, NEW u \in Users,
                \/ WithdrawSelect(q, u)
                \/ \E w \in WalletsOf[u] : WithdrawCommit(q, u, w)
         PROVE  Goal
    BY <1>4, <1>6, <1>10
  <1>11. ASSUME NEW i \in Invoices, Settle(i) \/ RecordCommissionForInvoice(i) PROVE Goal
    BY <1>3, <1>9, <1>11
  <1>12. Goal
    BY <1>7, <1>8, <1>9, <1>10, <1>11 DEF AffiliateNext
  <1> QED  BY <1>12 DEF Goal

\* For any number of invoices, users and concurrent withdrawals: the rows a
\* withdrawal holds stay approved, no two withdrawals hold rows of one user, and no
\* earning exceeds the base of its invoice (Withdraw, Reverse,
\* RecordCommissionForInvoice).
THEOREM AffiliateCorrect == AffiliateSpec => []AffiliateInv
  <1>1. AffiliateInit => AffiliateInv
    <2> SUFFICES ASSUME AffiliateInit PROVE AffiliateInv
      OBVIOUS
    <2>1. /\ settings \in [enabled : BOOLEAN, percent : Percents, bonus : Percents,
                           minTotal : MinTotals]
          /\ settled \subseteq Invoices
      BY DEF AffiliateInit
    <2>2. /\ earnings \in [Earnings -> Rows] /\ \A e \in Earnings : earnings[e].status = "none"
          /\ selected \in [Withdrawals -> SUBSET Earnings]
          /\ \A q \in Withdrawals : selected[q] = {}
      BY DEF AffiliateInit, Rows, EarningStatus
    <2> QED  BY <2>1, <2>2 DEF AffiliateInv, AffiliateTypeOK, Rows
  <1>2. AffiliateInv /\ [AffiliateNext]_affiliateVars => AffiliateInv'
    <2> SUFFICES ASSUME AffiliateInv, [AffiliateNext]_affiliateVars PROVE AffiliateInv'
      OBVIOUS
    <2>1. AffiliateTypeOK
      BY DEF AffiliateInv
    <2>2. earnings' \in [Earnings -> Rows] /\ \A e \in Earnings : EarningMoves(e)
      BY <2>1, RowsMove
    <2>3. ASSUME NEW e \in Earnings, earnings'[e].status # "none"
          PROVE  earnings'[e].amount \in 1 .. Base[e[1]]
      BY <2>1, <2>2, <2>3 DEF EarningMoves, AffiliateTypeOK
    <2>4. /\ settings' \in [enabled : BOOLEAN, percent : Percents, bonus : Percents,
                            minTotal : MinTotals]
          /\ settled' \subseteq Invoices
      <3>1. CASE UNCHANGED settings /\ UNCHANGED settled
        BY <2>1, <3>1 DEF AffiliateTypeOK
      <3>2. CASE \E new \in Settings : UpdateSettings(new)
        BY <2>1, <3>2 DEF UpdateSettings, Settings, AffiliateTypeOK
      <3>3. CASE \E i \in Invoices : Settle(i)
        BY <2>1, <3>3 DEF Settle, AffiliateTypeOK
      <3> QED  BY <3>1, <3>2, <3>3 DEF AffiliateNext, RecordCommissionForInvoice, WithdrawSelect,
                    WithdrawCommit, WithdrawRollback, Reverse, affiliateVars
    <2>5. /\ selected' \in [Withdrawals -> SUBSET Earnings]
          /\ \A q \in Withdrawals : \A e \in selected'[q] : earnings'[e].status = "approved"
          /\ \A q, r \in Withdrawals : \A e \in selected'[q], f \in selected'[r] :
                Owner(e) = Owner(f) <=> q = r
      BY SelectionStep
    <2>6. AffiliateTypeOK'
      BY <2>2, <2>3, <2>4, <2>5 DEF AffiliateTypeOK, Rows
    <2>7. \A e : Owner(e)' = Owner(e)
      BY DEF Owner
    <2> QED  BY <2>5, <2>6, <2>7 DEF AffiliateInv
  <1> QED  BY <1>1, <1>2, PTL DEF AffiliateSpec

\* An earning keeps its amount, and once it is paid or reversed its status, however
\* often its invoice is processed again and under whichever settings
\* (RecordCommissionForInvoice, Reverse, Withdraw).
THEOREM SettledEarningsStay == AffiliateSpec => EarningsAreSettled
  <1>1. AffiliateInv /\ [AffiliateNext]_affiliateVars
          => [\A e \in Earnings :
                /\ earnings[e].status # "none" => earnings'[e].amount = earnings[e].amount
                /\ earnings[e].status \in {"paid", "reversed"}
                     => earnings'[e].status = earnings[e].status]_affiliateVars
    BY RowsMove DEF AffiliateInv, EarningMoves
  <1> QED  BY <1>1, AffiliateCorrect, PTL DEF AffiliateSpec, EarningsAreSettled

-----------------------------------------------------------------------------
(* Sums of natural numbers.  A sum is a number of coins, which the theorems *)
(* about finite sets can count.                                            *)

\* A sum of natural numbers is a number of coins: row e of S has g[e] of them.
Coins(g, S) == {c \in S \X Nat : c[2] \in 1 .. g[c[1]]}
Count(g, S) == Cardinality(Coins(g, S))

\* Induction over the subsets of a finite set: T holds them all when it holds a
\* subset as soon as it holds the smaller ones.
LEMMA SubsetInduction ==
  ASSUME NEW S, IsFiniteSet(S), NEW T,
         \A A \in SUBSET S : (\A B \in SUBSET A : B # A => B \in T) => A \in T
  PROVE  SUBSET S \subseteq T
  <1> DEFINE R == StrictSubsetOrdering(S)
             U == (SUBSET S) \ T
  <1>1. IsWellFoundedOn(R, SUBSET S)
    BY FS_StrictSubsetOrderingWellFounded, FS_FiniteSubsetsOfFinite
  <1>2. SUFFICES ASSUME U # {} PROVE FALSE
    OBVIOUS
  <1>3. PICK A \in U : \A B \in U : ~(<<B, A>> \in R)
    <2> HIDE DEF R
    <2>1. U \subseteq SUBSET S
      OBVIOUS
    <2> HIDE DEF U
    <2> QED  BY <1>1, <1>2, <2>1, WFMin
  <1>4. \A B \in SUBSET A : B # A => B \in T
    <2> SUFFICES ASSUME NEW B \in SUBSET A, B # A, B \notin T PROVE FALSE
      OBVIOUS
    <2>1. B \in U
      OBVIOUS
    <2>2. <<B, A>> \in R
      BY DEF StrictSubsetOrdering
    <2> QED  BY <1>3, <2>1, <2>2
  <1> QED  BY <1>4

\* One row has as many coins as it says.
LEMMA CoinsOfOne ==
  ASSUME NEW g, NEW x, g[x] \in Nat
  PROVE  IsFiniteSet(Coins(g, {x})) /\ Count(g, {x}) = g[x]
  <1> DEFINE n == g[x]
  <1>1. Coins(g, {x}) = {x} \X (1 .. n)
    BY DEF Coins
  <1> HIDE DEF n
  <1>2. n \in Nat
    BY DEF n
  <1>3. IsFiniteSet(1 .. n) /\ Cardinality(1 .. n) = n
    BY <1>2, FS_Interval
  <1>4. IsFiniteSet({x}) /\ Cardinality({x}) = 1
    BY FS_Singleton
  <1>5. IsFiniteSet({x} \X (1 .. n)) /\ Cardinality({x} \X (1 .. n)) = 1 * n
    BY <1>3, <1>4, FS_Product
  <1>6. 1 * n = n
    BY <1>2
  <1>7. IsFiniteSet(Coins(g, {x})) /\ Cardinality(Coins(g, {x})) = n
    BY <1>1, <1>5, <1>6, Zenon
  <1> QED  BY <1>7 DEF Count, n

\* Rows that are apart have their coins apart.
LEMMA CoinsOfUnion ==
  ASSUME NEW g, NEW A, NEW B, A \cap B = {},
         IsFiniteSet(Coins(g, A)), IsFiniteSet(Coins(g, B))
  PROVE  /\ IsFiniteSet(Coins(g, A \cup B))
         /\ Count(g, A \cup B) = Count(g, A) + Count(g, B)
  <1>1. Coins(g, A \cup B) = Coins(g, A) \cup Coins(g, B)
    BY DEF Coins
  <1>2. Coins(g, A) \cap Coins(g, B) = {}
    BY DEF Coins
  <1>3. Count(g, A) \in Nat /\ Count(g, B) \in Nat
    BY FS_CardinalityType DEF Count
  <1>4. Cardinality(Coins(g, A) \cap Coins(g, B)) = 0
    BY <1>2, FS_EmptySet
  <1> DEFINE P == Coins(g, A)  Q == Coins(g, B)
  <1> HIDE DEF P, Q
  <1>5. /\ IsFiniteSet(P \cup Q)
        /\ Cardinality(P \cup Q) = Cardinality(P) + Cardinality(Q) - Cardinality(P \cap Q)
    BY FS_Union DEF P, Q
  <1>6. Cardinality(P \cup Q) = Cardinality(P) + Cardinality(Q)
    BY <1>3, <1>4, <1>5 DEF P, Q, Count
  <1>7. Coins(g, A \cup B) = P \cup Q
    BY <1>1 DEF P, Q
  <1> QED  BY <1>5, <1>6, <1>7, Zenon DEF P, Q, Count

\* Finitely many rows have finitely many coins.
LEMMA CoinsFinite ==
  ASSUME NEW S, IsFiniteSet(S), NEW g, \A e \in S : g[e] \in Nat
  PROVE  \A A \in SUBSET S : IsFiniteSet(Coins(g, A)) /\ Count(g, A) \in Nat
  <1> DEFINE T == {A \in SUBSET S : IsFiniteSet(Coins(g, A))}
  <1>1. ASSUME NEW A \in SUBSET S, \A B \in SUBSET A : B # A => B \in T
        PROVE  A \in T
    <2>1. CASE A = {}
      <3>1. Coins(g, A) = {}
        BY <2>1 DEF Coins
      <3> QED  BY <3>1, FS_EmptySet
    <2>2. CASE A # {}
      <3>1. PICK x \in A : TRUE
        BY <2>2
      <3>2. IsFiniteSet(Coins(g, A \ {x}))
        <4>1. A \ {x} \in T
          BY <1>1
        <4> QED  BY <4>1
      <3>3. IsFiniteSet(Coins(g, {x}))
        BY CoinsOfOne
      <3>4. A = (A \ {x}) \cup {x} /\ (A \ {x}) \cap {x} = {}
        OBVIOUS
      <3>5. IsFiniteSet(Coins(g, (A \ {x}) \cup {x}))
        BY <3>2, <3>3, <3>4, CoinsOfUnion
      <3> QED  BY <3>4, <3>5
    <2> QED  BY <2>1, <2>2
  <1>2. SUBSET S \subseteq T
    <2> HIDE DEF T
    <2> QED  BY <1>1, SubsetInduction
  <1> QED  BY <1>2, FS_CardinalityType DEF Count

\* The count is its value at any one row and the count of the others.
LEMMA CountSplit ==
  ASSUME NEW S, IsFiniteSet(S), NEW g, \A e \in S : g[e] \in Nat, NEW A \in SUBSET S, NEW x \in A
  PROVE  Count(g, A) = g[x] + Count(g, A \ {x})
  <1>1. A = (A \ {x}) \cup {x} /\ (A \ {x}) \cap {x} = {}
    OBVIOUS
  <1>2. /\ IsFiniteSet(Coins(g, A \ {x})) /\ Count(g, A \ {x}) \in Nat
        /\ IsFiniteSet(Coins(g, {x})) /\ Count(g, {x}) = g[x] /\ g[x] \in Nat
    BY CoinsFinite, CoinsOfOne
  <1>3. Count(g, (A \ {x}) \cup {x}) = Count(g, A \ {x}) + Count(g, {x})
    BY <1>1, <1>2, CoinsOfUnion
  <1>4. Count(g, A) = Count(g, A \ {x}) + g[x]
    BY <1>1, <1>2, <1>3, Zenon
  <1> QED  BY <1>2, <1>4

\* The recursive function that MapThenSumSet defines.
IsFold(f, g, S) ==
  f = [s \in SUBSET S |-> IF s = {} THEN 0
                          ELSE g[CHOOSE x \in s : TRUE] + f[s \ {CHOOSE x \in s : TRUE}]]

\* Counting coins solves the equation by which MapThenSumSet is defined,
LEMMA FoldExists ==
  ASSUME NEW S, IsFiniteSet(S), NEW g, \A e \in S : g[e] \in Nat
  PROVE  IsFold([s \in SUBSET S |-> Count(g, s)], g, S)
  <1> DEFINE f == [s \in SUBSET S |-> Count(g, s)]
  <1>1. ASSUME NEW s \in SUBSET S
        PROVE  Count(g, s) = IF s = {} THEN 0
                             ELSE g[CHOOSE x \in s : TRUE] + f[s \ {CHOOSE x \in s : TRUE}]
    <2>1. CASE s = {}
      <3>1. Coins(g, s) = {}
        BY <2>1 DEF Coins
      <3> QED  BY <2>1, <3>1, FS_EmptySet DEF Count
    <2>2. CASE s # {}
      <3>1. PICK x \in s : x = CHOOSE y \in s : TRUE
        BY <2>2
      <3>2. Count(g, s) = g[x] + Count(g, s \ {x})
        BY CountSplit
      <3>3. f[s \ {x}] = Count(g, s \ {x})
        OBVIOUS
      <3> QED  BY <2>2, <3>1, <3>2, <3>3
    <2> QED  BY <2>1, <2>2
  <1> QED  BY <1>1 DEF IsFold

\* and nothing else does: the sum does not depend on the order of the rows.
LEMMA FoldIsCount ==
  ASSUME NEW S, IsFiniteSet(S), NEW g, \A e \in S : g[e] \in Nat, NEW f, IsFold(f, g, S)
  PROVE  f[S] = Count(g, S)
  <1> DEFINE T == {A \in SUBSET S : f[A] = Count(g, A)}
  <1>1. ASSUME NEW A \in SUBSET S, \A B \in SUBSET A : B # A => B \in T
        PROVE  A \in T
    <2>1. CASE A = {}
      <3>1. Coins(g, A) = {}
        BY <2>1 DEF Coins
      <3>2. f[A] = 0
        BY <2>1 DEF IsFold
      <3> QED  BY <3>1, <3>2, FS_EmptySet DEF Count
    <2>2. CASE A # {}
      <3>1. PICK x \in A : x = CHOOSE y \in A : TRUE
        BY <2>2
      <3>2. f[A] = g[x] + f[A \ {x}]
        BY <2>2, <3>1 DEF IsFold
      <3>3. f[A \ {x}] = Count(g, A \ {x})
        <4>1. A \ {x} \in T
          BY <1>1
        <4> QED  BY <4>1
      <3>4. Count(g, A) = g[x] + Count(g, A \ {x})
        BY CountSplit
      <3> QED  BY <3>2, <3>3, <3>4
    <2> QED  BY <2>1, <2>2
  <1>2. SUBSET S \subseteq T
    <2> HIDE DEF T
    <2> QED  BY <1>1, SubsetInduction
  <1> QED  BY <1>2

\* The two sums of Affiliate, as operators of the rows they add up.
SumOf(g, S) == MapThenSumSet(LAMBDA e : g[e], S)
SumOfAmounts(rows, S) == MapThenSumSet(LAMBDA e : rows[e].amount, S)

\* Balances and amounts add up to the coins there are.
LEMMA SumIsCount ==
  ASSUME NEW S, IsFiniteSet(S), NEW g, \A e \in S : g[e] \in Nat
  PROVE  SumOf(g, S) = Count(g, S)
  <1> DEFINE F == CHOOSE f : IsFold(f, g, S)
  <1>1. SumOf(g, S) = F[S]
    BY DEF SumOf, MapThenSumSet, MapThenFoldSet, IsFold
  <1>2. \E f : IsFold(f, g, S)
    BY FoldExists
  <1>3. IsFold(F, g, S)
    BY <1>2
  <1> HIDE DEF F
  <1> QED  BY <1>1, <1>3, FoldIsCount

LEMMA SumOfAmountsIsCount ==
    ASSUME NEW S, IsFiniteSet(S), NEW rows, \A e \in S : rows[e].amount \in Nat
    PROVE  SumOfAmounts(rows, S) = Count([e \in S |-> rows[e].amount], S)
  <1> DEFINE g == [e \in S |-> rows[e].amount]
             Eq(f) == f = [s \in SUBSET S |-> IF s = {} THEN 0
                             ELSE rows[CHOOSE x \in s : TRUE].amount
                                    + f[s \ {CHOOSE x \in s : TRUE}]]
             F == CHOOSE f : Eq(f)
  <1>1. SumOfAmounts(rows, S) = F[S]
    BY DEF SumOfAmounts, MapThenSumSet, MapThenFoldSet
  <1>2. ASSUME NEW f PROVE Eq(f) <=> IsFold(f, g, S)
    <2>1. ASSUME NEW s \in SUBSET S, s # {}
          PROVE  rows[CHOOSE x \in s : TRUE].amount = g[CHOOSE x \in s : TRUE]
      <3>1. PICK x \in s : x = CHOOSE y \in s : TRUE
        BY <2>1
      <3> QED  BY <3>1
    <2> HIDE DEF g
    <2> QED  BY <2>1 DEF IsFold
  <1>3. \A e \in S : g[e] \in Nat
    OBVIOUS
  <1> HIDE DEF g
  <1>4. \E f : Eq(f)
    BY <1>2, <1>3, FoldExists
  <1>5. Eq(F)
    BY <1>4
  <1> HIDE DEF F
  <1>6. F[S] = Count(g, S)
    BY <1>2, <1>3, <1>5, FoldIsCount
  <1> QED  BY <1>1, <1>6 DEF g

\* Coins are counted alike wherever the rows agree.
LEMMA CountAgrees ==
    ASSUME NEW S, NEW g, NEW h, \A e \in S : g[e] = h[e]
    PROVE  Count(g, S) = Count(h, S)
  <1>1. Coins(g, S) = Coins(h, S)
    BY DEF Coins
  <1> QED  BY <1>1 DEF Count

\* Raising one row by n raises the sum by n.
LEMMA CountRaised ==
    ASSUME NEW S, IsFiniteSet(S), NEW g \in [S -> Nat], NEW x \in S, NEW n \in Nat
    PROVE  Count([g EXCEPT ![x] = @ + n], S) = Count(g, S) + n
  <1> DEFINE h == [g EXCEPT ![x] = @ + n]
  <1>1. /\ h[x] = g[x] + n /\ \A e \in S : h[e] \in Nat
        /\ \A e \in S \ {x} : h[e] = g[e]
    OBVIOUS
  <1> HIDE DEF h
  <1>2. Count(h, S) = h[x] + Count(h, S \ {x}) /\ Count(g, S) = g[x] + Count(g, S \ {x})
    BY <1>1, CountSplit
  <1>3. Count(h, S \ {x}) = Count(g, S \ {x})
    BY <1>1, CountAgrees
  <1>4. Count(g, S \ {x}) \in Nat /\ g[x] \in Nat
    BY CoinsFinite
  <1> QED  BY <1>1, <1>2, <1>3, <1>4 DEF h

-----------------------------------------------------------------------------
(* What is paid out, over finitely many rows.                              *)

\* What a payout does to the wallet: it raises one balance by the sum it pays.
LEMMA PayoutCredits ==
    ASSUME NEW w \in Wallets, NEW amount \in Int, balance \in [Wallets -> Nat],
           ApplyTransaction(w, "credit", amount, PayoutRef, NoKey)
    PROVE  amount \in Nat /\ balance' = [balance EXCEPT ![w] = @ + amount]
  <1>1. amount > 0
    BY DEF ApplyTransaction, Outcome
  <1>2. balance' = [balance EXCEPT ![w] = balance[w] + amount]
    BY DEF ApplyTransaction, After
  <1> QED  BY <1>1, <1>2

\* Of finitely many rows, what is selected adds up to a number.
LEMMA TotalIsCount ==
    ASSUME IsFiniteSet(Invoices), AffiliateTypeOK, NEW S \in SUBSET Earnings
    PROVE  /\ IsFiniteSet(Earnings) /\ IsFiniteSet(S)
           /\ Total(S) = Count([e \in Earnings |-> earnings[e].amount], S) /\ Total(S) \in Nat
  <1> DEFINE g == [e \in Earnings |-> earnings[e].amount]
  <1>1. IsFiniteSet(Earnings)
    <2>1. Types = {"referrer_commission"} \cup {"referee_bonus"}
      BY DEF Types
    <2>2. IsFiniteSet(Types)
      BY <2>1, FS_Singleton, FS_Union
    <2> QED  BY <2>2, FS_Product DEF Earnings
  <1>2. IsFiniteSet(S)
    BY <1>1, FS_Subset
  <1>3. \A e \in Earnings : earnings[e].amount \in Nat /\ g[e] \in Nat /\ g[e] = earnings[e].amount
    BY DEF AffiliateTypeOK
  <1>4. Total(S) = SumOfAmounts(earnings, S)
    BY DEF Total, SumOfAmounts
  <1>5. SumOfAmounts(earnings, S) = Count([e \in S |-> earnings[e].amount], S)
    BY <1>2, <1>3, SumOfAmountsIsCount
  <1> HIDE DEF g
  <1>6. Count([e \in S |-> earnings[e].amount], S) = Count(g, S)
    BY <1>3, CountAgrees
  <1>7. Count(g, S) \in Nat
    BY <1>1, <1>3, CoinsFinite
  <1> QED  BY <1>1, <1>2, <1>4, <1>5, <1>6, <1>7 DEF g

\* What makes NeverOverpaid inductive, next to AffiliateInv.
PaidInv == balance \in [Wallets -> Nat] /\ NeverOverpaid

\* A row that is paid stays paid with its amount, and what a step pays comes on top:
\* the rows that become paid count in full.
LEMMA PaidGrows ==
    ASSUME IsFiniteSet(Invoices), AffiliateInv, AffiliateInv', [AffiliateNext]_affiliateVars,
           NEW S \in SUBSET Earnings, S \cap PaidEarnings = {}, S \subseteq PaidEarnings'
    PROVE  /\ Total(PaidEarnings) \in Nat /\ Total(PaidEarnings)' \in Nat /\ Total(S) \in Nat
           /\ Total(PaidEarnings) + Total(S) <= Total(PaidEarnings)'
  <1>1. AffiliateTypeOK /\ \A e \in Earnings : EarningMoves(e)
    BY RowsMove DEF AffiliateInv
  <1>2. PICK P \in SUBSET Earnings : P = PaidEarnings
    BY DEF PaidEarnings
  <1>3. PICK Q \in SUBSET Earnings : Q = PaidEarnings'
    BY DEF PaidEarnings
  <1> DEFINE g == [e \in Earnings |-> earnings[e].amount]
             h == [e \in Earnings |-> earnings'[e].amount]
  <1>4. /\ Total(P) = Count(g, P) /\ Total(P) \in Nat
        /\ Total(S) = Count(g, S) /\ Total(S) \in Nat
        /\ IsFiniteSet(Earnings)
    BY <1>1, TotalIsCount
  <1>5. /\ Total(PaidEarnings)' = Count(h, Q) /\ \A e \in Earnings : h[e] \in Nat
    <2>1. Total(PaidEarnings)' = SumOfAmounts(earnings', Q)
      BY <1>3 DEF Total, SumOfAmounts, MapThenSumSet, MapThenFoldSet
    <2>2. IsFiniteSet(Q)
      BY <1>4, FS_Subset
    <2>3. \A e \in Earnings : earnings'[e].amount \in Nat
      BY DEF AffiliateInv, AffiliateTypeOK
    <2>4. SumOfAmounts(earnings', Q) = Count([e \in Q |-> earnings'[e].amount], Q)
      BY <2>2, <2>3, SumOfAmountsIsCount
    <2>5. Count([e \in Q |-> earnings'[e].amount], Q) = Count(h, Q)
      BY CountAgrees
    <2> QED  BY <2>1, <2>3, <2>4, <2>5
  <1>6. \A e \in P \cup S : e \in Q /\ g[e] = h[e]
    BY <1>1, <1>2, <1>3 DEF PaidEarnings, EarningMoves
  <1>7. \A e \in Earnings : g[e] \in Nat
    BY <1>1 DEF AffiliateTypeOK
  <1> HIDE DEF g, h
  <1>8. Count(g, P \cup S) = Count(g, P) + Count(g, S)
    <2>1. P \cap S = {}
      BY <1>2
    <2>2. IsFiniteSet(Coins(g, P)) /\ IsFiniteSet(Coins(g, S))
      BY <1>4, <1>7, CoinsFinite
    <2> QED  BY <2>1, <2>2, CoinsOfUnion
  <1>9. Count(g, P \cup S) = Count(h, P \cup S)
    BY <1>6, CountAgrees
  <1>10. Count(h, P \cup S) <= Count(h, Q) /\ Count(h, Q) \in Nat
    <2>1. IsFiniteSet(Coins(h, Q)) /\ Count(h, Q) \in Nat
      BY <1>4, <1>5, CoinsFinite
    <2>2. Coins(h, P \cup S) \subseteq Coins(h, Q)
      BY <1>6 DEF Coins
    <2> QED  BY <2>1, <2>2, FS_Subset DEF Count
  <1>11. Total(PaidEarnings) = Total(P)
    BY <1>2
  <1> QED  BY <1>4, <1>5, <1>8, <1>9, <1>10, <1>11

\* The wallets hold what has been credited, in coins.
LEMMA PaidOutIsCount ==
    ASSUME IsFiniteSet(Wallets), NEW b \in [Wallets -> Nat]
    PROVE  SumOf(b, Wallets) = Count(b, Wallets) /\ SumOf(b, Wallets) \in Nat
  BY SumIsCount, CoinsFinite

\* No commission is paid twice and no reversed one at all, for any finite number of
\* invoices, users, wallets and concurrent withdrawals: a withdrawal credits rows
\* that it holds, and these become paid by the same commit (Withdraw).
THEOREM NobodyIsOverpaid ==
    ASSUME IsFiniteSet(Invoices), IsFiniteSet(Wallets)
    PROVE  AffiliateSpec => []NeverOverpaid
  <1>1. AffiliateInit /\ AffiliateInv => PaidInv
    <2> SUFFICES ASSUME AffiliateInit, AffiliateInv PROVE PaidInv
      OBVIOUS
    <2>1. balance \in [Wallets -> Nat] /\ \A w \in Wallets : balance[w] = 0
      BY DEF AffiliateInit, WalletInit
    <2>2. PaidOut = Count(balance, Wallets)
      BY <2>1, PaidOutIsCount DEF PaidOut, SumOf
    <2>3. Coins(balance, Wallets) = {}
      BY <2>1 DEF Coins
    <2>4. PaidOut = 0
      BY <2>2, <2>3, FS_EmptySet DEF Count
    <2>5. Total(PaidEarnings) \in Nat
      <3>1. AffiliateTypeOK /\ PaidEarnings \in SUBSET Earnings
        BY DEF AffiliateInv, PaidEarnings
      <3> QED  BY <3>1, TotalIsCount
    <2> QED  BY <2>1, <2>4, <2>5 DEF PaidInv, NeverOverpaid
  <1>2. AffiliateInv /\ AffiliateInv' /\ PaidInv /\ [AffiliateNext]_affiliateVars => PaidInv'
    <2> SUFFICES ASSUME AffiliateInv, AffiliateInv', PaidInv, [AffiliateNext]_affiliateVars
                 PROVE  PaidInv'
      OBVIOUS
    <2>1. balance \in [Wallets -> Nat] /\ PaidOut <= Total(PaidEarnings) /\ AffiliateTypeOK
      BY DEF PaidInv, NeverOverpaid, AffiliateInv
    <2>2. PaidOut = SumOf(balance, Wallets) /\ PaidOut' = SumOf(balance', Wallets)
      BY DEF PaidOut, SumOf, MapThenSumSet, MapThenFoldSet
    <2>3. PaidOut \in Nat
      BY <2>1, <2>2, PaidOutIsCount
    <2>4. CASE UNCHANGED balance
      <3>1. /\ Total(PaidEarnings) \in Nat /\ Total(PaidEarnings)' \in Nat /\ Total({}) \in Nat
            /\ Total(PaidEarnings) + Total({}) <= Total(PaidEarnings)'
        BY PaidGrows
      <3>2. PaidOut' = PaidOut
        BY <2>2, <2>4
      <3> QED  BY <2>1, <2>3, <2>4, <3>1, <3>2 DEF PaidInv, NeverOverpaid
    <2>5. ASSUME NEW q \in Withdrawals, NEW u \in Users, NEW w \in WalletsOf[u],
                 WithdrawCommit(q, u, w)
          PROVE  PaidInv'
      <3>1. w \in Wallets
        BY AffiliateAssumption
      <3>2. PICK S \in SUBSET Earnings : S = selected[q]
        BY <2>1 DEF AffiliateTypeOK
      <3>3. Total(S) \in Nat
        BY <2>1, TotalIsCount
      <3>4. ApplyTransaction(w, "credit", Total(S), PayoutRef, NoKey)
        BY <2>5, <3>2 DEF WithdrawCommit
      <3>5. PICK n \in Nat : n = Total(S)
        BY <3>3
      <3>6. balance' = [balance EXCEPT ![w] = @ + n]
        <4>1. ApplyTransaction(w, "credit", n, PayoutRef, NoKey)
          BY <3>4, <3>5
        <4> QED  BY <2>1, <3>1, <4>1, PayoutCredits
      <3>7. \A e \in S : earnings[e].status = "approved" /\ Owner(e) = u
        BY <2>5, <3>2 DEF AffiliateInv, WithdrawCommit, WithdrawalOf
      <3>8. S \cap PaidEarnings = {}
        BY <3>7 DEF PaidEarnings
      <3>9. S \subseteq PaidEarnings'
        <4> SUFFICES ASSUME NEW e \in S PROVE e \in PaidEarnings'
          OBVIOUS
        <4>1. e \in Approved(u)
          BY <3>7 DEF Approved
        <4>2. earnings'[e] = [earnings[e] EXCEPT !.status = "paid"]
          BY <2>5, <4>1 DEF WithdrawCommit
        <4>3. earnings'[e].status = "paid"
          BY <2>1, <4>2 DEF AffiliateTypeOK
        <4> QED  BY <4>3 DEF PaidEarnings
      <3>10. /\ Total(PaidEarnings) \in Nat /\ Total(PaidEarnings)' \in Nat
             /\ Total(PaidEarnings) + n <= Total(PaidEarnings)'
        BY <3>5, <3>8, <3>9, PaidGrows
      <3>11. Count([balance EXCEPT ![w] = @ + n], Wallets) = Count(balance, Wallets) + n
        BY <2>1, <3>1, CountRaised
      <3>12. balance' \in [Wallets -> Nat]
        BY <2>1, <3>1, <3>6
      <3>13. PaidOut' = PaidOut + n
        <4>1. PaidOut' = Count(balance', Wallets)
          BY <2>2, <3>12, PaidOutIsCount
        <4>2. PaidOut = Count(balance, Wallets)
          BY <2>1, <2>2, PaidOutIsCount
        <4> QED  BY <3>6, <3>11, <4>1, <4>2
      <3> QED  BY <2>1, <2>3, <3>10, <3>12, <3>13 DEF PaidInv, NeverOverpaid
    <2> QED
      BY <2>4, <2>5 DEF AffiliateNext, UpdateSettings, Settle, RecordCommissionForInvoice,
         WithdrawSelect, WithdrawRollback, Reverse, walletVars, affiliateVars
  <1>3. PaidInv => NeverOverpaid
    BY DEF PaidInv
  <1> QED  BY <1>1, <1>2, <1>3, AffiliateCorrect, PTL DEF AffiliateSpec

\* The programme moves money only by calls of ApplyTransaction: where every positive
\* sum is an amount, AffiliateSpec implements the ledger of Wallet, so that what
\* WalletProofs shows of it holds of payouts, too (Withdraw).
THEOREM PayoutsAreCalls ==
    ASSUME IsFiniteSet(Invoices), Nat \subseteq Amounts
    PROVE  AffiliateSpec => WalletSpec
  <1>1. AffiliateInit => WalletInit
    BY DEF AffiliateInit
  <1>2. AffiliateInv /\ [AffiliateNext]_affiliateVars => [WalletNext]_walletVars
    <2> SUFFICES ASSUME AffiliateInv, [AffiliateNext]_affiliateVars
                 PROVE  [WalletNext]_walletVars
      OBVIOUS
    <2>1. ASSUME NEW q \in Withdrawals, NEW u \in Users, NEW w \in WalletsOf[u],
                 WithdrawCommit(q, u, w)
          PROVE  WalletNext
      <3>1. w \in Wallets /\ PayoutRef \in Refs
        BY AffiliateAssumption
      <3>2. AffiliateTypeOK /\ selected[q] \in SUBSET Earnings
        BY DEF AffiliateInv, AffiliateTypeOK
      <3>3. Total(selected[q]) \in Amounts
        BY <3>2, TotalIsCount
      <3>4. ApplyTransaction(w, "credit", Total(selected[q]), PayoutRef, NoKey)
        BY <2>1 DEF WithdrawCommit
      <3> QED  BY <3>1, <3>3, <3>4 DEF WalletNext, Directions
    <2> QED
      BY <2>1 DEF AffiliateNext, UpdateSettings, Settle, RecordCommissionForInvoice,
         WithdrawSelect, WithdrawRollback, Reverse, walletVars, affiliateVars
  <1> QED  BY <1>1, <1>2, AffiliateCorrect, PTL DEF AffiliateSpec, WalletSpec
=============================================================================

---------------------------- MODULE WalletProofs ----------------------------
(***************************************************************************)
(* What WalletSpec guarantees for every set of wallets, amounts and        *)
(* references: the ledger explains the balance, no wallet is overdrawn and *)
(* no idempotency key is spent twice.                                      *)
(***************************************************************************)
EXTENDS Wallet, TLAPS

WalletInv == WalletTypeOK /\ LedgerChained /\ NeverOverdrawn /\ KeysSpentOnce

\* What a successful call appends, and to which wallet.
LEMMA EntryWritten ==
    ASSUME NEW w \in Wallets, NEW dir \in Directions, NEW amount \in Amounts,
           NEW ref \in Refs, NEW key \in Keys,
           WalletTypeOK, ApplyTransaction(w, dir, amount, ref, key)
    PROVE  LET e == NewEntry(w, dir, amount, ref, key)
           IN  /\ e \in Entries
               /\ amount > 0
               /\ e.before = balance[w]
               /\ e.after = After(e.before, e.dir, e.amount)
               /\ e.after >= 0
               /\ e.key = key
               /\ ~KeyUsed(w, key)
               /\ balance' = [balance EXCEPT ![w] = e.after]
               /\ ledger' = [ledger EXCEPT ![w] = Append(@, e)]
  <1> DEFINE e == NewEntry(w, dir, amount, ref, key)
  <1>1. amount \in Int /\ balance[w] \in Int
    BY AmountsAssumption DEF WalletTypeOK
  <1>2. After(balance[w], dir, amount) \in Int
    BY <1>1 DEF After
  <1>3. e \in Entries
    BY <1>1, <1>2 DEF NewEntry, Entries
  <1>4. amount > 0 /\ After(balance[w], dir, amount) >= 0 /\ ~KeyUsed(w, key)
    <2>1. Outcome(w, dir, amount, key) = "ok"
      BY DEF ApplyTransaction
    <2> QED  BY <1>1, <1>2, <2>1 DEF Outcome, Covered
  <1>5. /\ e.before = balance[w] /\ e.dir = dir /\ e.amount = amount
        /\ e.after = After(balance[w], dir, amount) /\ e.key = key
    BY DEF NewEntry
  <1>6. balance' = [balance EXCEPT ![w] = e.after]
    BY <1>5 DEF ApplyTransaction
  <1>7. ledger' = [ledger EXCEPT ![w] = Append(@, e)]
    BY DEF ApplyTransaction
  <1> QED  BY <1>3, <1>4, <1>5, <1>6, <1>7

\* Every successful call keeps the four parts of the invariant.
LEMMA CallKeepsInv ==
    ASSUME NEW w \in Wallets, NEW dir \in Directions, NEW amount \in Amounts,
           NEW ref \in Refs, NEW key \in Keys,
           WalletInv, ApplyTransaction(w, dir, amount, ref, key)
    PROVE  WalletInv'
  <1> DEFINE e == NewEntry(w, dir, amount, ref, key)
             s == ledger[w]
  <1>0. WalletTypeOK /\ LedgerChained /\ NeverOverdrawn /\ KeysSpentOnce
    BY DEF WalletInv
  <1>1. /\ e \in Entries
        /\ e.before = balance[w]
        /\ e.after = After(e.before, e.dir, e.amount)
        /\ e.after >= 0
        /\ ~KeyUsed(w, e.key)
        /\ balance' = [balance EXCEPT ![w] = e.after]
        /\ ledger' = [ledger EXCEPT ![w] = Append(@, e)]
    BY <1>0, EntryWritten
  <1> HIDE DEF e
  <1>2. s \in Seq(Entries) /\ Len(s) \in Nat
    BY <1>0 DEF WalletTypeOK
  <1>3. balance'[w] = e.after /\ ledger'[w] = Append(s, e)
    BY <1>0, <1>1 DEF WalletTypeOK
  <1>4. \A v \in Wallets : v # w => balance'[v] = balance[v] /\ ledger'[v] = ledger[v]
    BY <1>0, <1>1 DEF WalletTypeOK
  <1>5. /\ Len(ledger'[w]) = Len(s) + 1
        /\ ledger'[w] # << >>
        /\ ledger'[w][Len(s) + 1] = e
        /\ \A i \in 1 .. Len(s) : ledger'[w][i] = s[i]
    BY <1>1, <1>2, <1>3
  <1>6. WalletTypeOK'
    <2>1. e.after \in Int
      BY <1>1 DEF Entries
    <2>2. balance' \in [Wallets -> Int]
      BY <1>0, <1>1, <2>1 DEF WalletTypeOK
    <2>3. Append(s, e) \in Seq(Entries)
      BY <1>1, <1>2
    <2>4. ledger' \in [Wallets -> Seq(Entries)]
      BY <1>0, <1>1, <2>3 DEF WalletTypeOK
    <2> QED  BY <2>2, <2>4 DEF WalletTypeOK
  <1>7. LedgerChained'
    <2> SUFFICES ASSUME NEW v \in Wallets
                 PROVE  /\ ledger'[v] = << >> => balance'[v] = 0
                        /\ ledger'[v] # << >> =>
                              /\ ledger'[v][1].before = 0
                              /\ ledger'[v][Len(ledger'[v])].after = balance'[v]
                        /\ \A i \in 1 .. Len(ledger'[v]) :
                              ledger'[v][i].after = After(ledger'[v][i].before,
                                  ledger'[v][i].dir, ledger'[v][i].amount)
                        /\ \A i \in 1 .. Len(ledger'[v]) - 1 :
                              ledger'[v][i + 1].before = ledger'[v][i].after
      BY DEF LedgerChained, After
    <2>1. CASE v # w
      BY <1>0, <1>4, <2>1 DEF LedgerChained
    <2>2. CASE v = w
      <3>1. ledger'[w][1].before = 0
        <4>1. CASE s = << >>
          BY <1>0, <1>1, <1>2, <1>5, <4>1 DEF LedgerChained
        <4>2. CASE s # << >>
          <5>1. Len(s) > 0
            BY <1>2, <4>2
          <5> QED  BY <1>0, <1>2, <1>5, <4>2, <5>1 DEF LedgerChained
        <4> QED  BY <4>1, <4>2
      <3>2. ledger'[w][Len(ledger'[w])].after = balance'[w]
        BY <1>2, <1>3, <1>5
      <3>3. ASSUME NEW i \in 1 .. Len(ledger'[w])
            PROVE  ledger'[w][i].after = After(ledger'[w][i].before,
                                  ledger'[w][i].dir, ledger'[w][i].amount)
        <4>1. i \in 1 .. Len(s) \/ i = Len(s) + 1
          BY <1>2, <1>5
        <4>2. CASE i \in 1 .. Len(s)
          BY <1>0, <1>5, <4>2 DEF LedgerChained
        <4>3. CASE i = Len(s) + 1
          BY <1>1, <1>5, <4>3
        <4> QED  BY <4>1, <4>2, <4>3
      <3>4. ASSUME NEW i \in 1 .. Len(ledger'[w]) - 1
            PROVE  ledger'[w][i + 1].before = ledger'[w][i].after
        <4>1. i \in 1 .. Len(s)
          BY <1>2, <1>5
        <4>2. CASE i = Len(s)
          <5>1. s # << >>
            BY <1>2, <4>1
          <5>2. s[Len(s)].after = balance[w]
            BY <1>0, <5>1 DEF LedgerChained
          <5> QED  BY <1>1, <1>5, <4>1, <4>2, <5>2
        <4>3. CASE i # Len(s)
          <5>1. i \in 1 .. Len(s) - 1 /\ i + 1 \in 1 .. Len(s)
            BY <1>2, <4>1, <4>3
          <5>2. s[i + 1].before = s[i].after
            BY <1>0, <5>1 DEF LedgerChained
          <5> QED  BY <1>5, <4>1, <5>1, <5>2
        <4> QED  BY <4>2, <4>3
      <3> QED  BY <1>5, <2>2, <3>1, <3>2, <3>3, <3>4
    <2> QED  BY <2>1, <2>2
  <1>8. NeverOverdrawn'
    <2> SUFFICES ASSUME NEW v \in Wallets
                 PROVE  /\ balance'[v] >= 0
                        /\ \A i \in 1 .. Len(ledger'[v]) : ledger'[v][i].after >= 0
      BY DEF NeverOverdrawn
    <2>1. CASE v # w
      BY <1>0, <1>4, <2>1 DEF NeverOverdrawn
    <2>2. CASE v = w
      <3>1. ASSUME NEW i \in 1 .. Len(ledger'[w])
            PROVE  ledger'[w][i].after >= 0
        <4>1. i \in 1 .. Len(s) \/ i = Len(s) + 1
          BY <1>2, <1>5
        <4> QED  BY <1>0, <1>1, <1>5, <4>1 DEF NeverOverdrawn
      <3> QED  BY <1>1, <1>3, <2>2, <3>1
    <2> QED  BY <2>1, <2>2
  <1>9. KeysSpentOnce'
    <2> SUFFICES ASSUME NEW v \in Wallets,
                        NEW i \in 1 .. Len(ledger'[v]), NEW j \in 1 .. Len(ledger'[v]),
                        ledger'[v][i].key = ledger'[v][j].key,
                        ledger'[v][i].key # NoKey
                 PROVE  i = j
      BY DEF KeysSpentOnce
    <2>1. CASE v # w
      BY <1>0, <1>4, <2>1 DEF KeysSpentOnce
    <2>2. CASE v = w
      <3>1. ASSUME e.key # NoKey, NEW k \in 1 .. Len(s)
            PROVE  s[k].key # e.key
        BY <1>1, <1>2, <3>1 DEF KeyUsed
      <3>2. /\ i \in 1 .. Len(s) \/ i = Len(s) + 1
            /\ j \in 1 .. Len(s) \/ j = Len(s) + 1
        BY <1>2, <1>5, <2>2
      <3>3. CASE i \in 1 .. Len(s) /\ j \in 1 .. Len(s)
        BY <1>0, <1>5, <2>2, <3>3 DEF KeysSpentOnce
      <3>4. CASE i \in 1 .. Len(s) /\ j = Len(s) + 1
        BY <1>5, <2>2, <3>1, <3>4
      <3>5. CASE i = Len(s) + 1 /\ j \in 1 .. Len(s)
        BY <1>5, <2>2, <3>1, <3>5
      <3> QED  BY <1>2, <3>2, <3>3, <3>4, <3>5
    <2> QED  BY <2>1, <2>2
  <1> QED  BY <1>6, <1>7, <1>8, <1>9 DEF WalletInv

\* The conjunction of the ledger properties and the typing they need is
\* inductive: every ApplyTransaction call preserves it.
THEOREM WalletCorrect == WalletSpec => []WalletInv
  <1>1. WalletInit => WalletInv
    BY DEF WalletInit, WalletInv, WalletTypeOK, LedgerChained, NeverOverdrawn, KeysSpentOnce
  <1>2. WalletInv /\ [WalletNext]_walletVars => WalletInv'
    <2> SUFFICES ASSUME WalletInv, [WalletNext]_walletVars
                 PROVE  WalletInv'
      OBVIOUS
    <2>1. CASE WalletNext
      <3>1. PICK w \in Wallets, dir \in Directions, amount \in Amounts, ref \in Refs :
               \E key \in {ref, NoKey} : ApplyTransaction(w, dir, amount, ref, key)
        BY <2>1 DEF WalletNext
      <3>2. PICK key \in {ref, NoKey} : ApplyTransaction(w, dir, amount, ref, key)
        BY <3>1
      <3>3. key \in Keys
        BY <3>2 DEF Keys
      <3> QED  BY <3>2, <3>3, CallKeepsInv
    <2>2. CASE UNCHANGED walletVars
      BY <2>2 DEF walletVars, WalletInv, WalletTypeOK, LedgerChained, NeverOverdrawn,
                  KeysSpentOnce
    <2> QED  BY <2>1, <2>2
  <1> QED  BY <1>1, <1>2, PTL DEF WalletSpec

\* Whatever calls of ApplyTransaction are made, the ledger explains the balance,
\* no wallet is overdrawn and an idempotency key is spent at most once.
THEOREM LedgerCorrect == WalletSpec => [](LedgerChained /\ NeverOverdrawn /\ KeysSpentOnce)
  <1>1. WalletInv => LedgerChained /\ NeverOverdrawn /\ KeysSpentOnce
    BY DEF WalletInv
  <1> QED  BY <1>1, WalletCorrect, PTL
=============================================================================

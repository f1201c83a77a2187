SPECIFICATION TxSpec
CONSTANTS
    Wallets = {w1}
    Txs = {t1, t2}
    Refs = {r1, r2}
    NoTx = NoTx
    NoKey = NoKey
    MaxEntries = 3
    Amounts <- MCAmounts
INVARIANTS TxTypeOK LedgerChained NeverOverdrawn KeysSpentOnce
PROPERTY WalletSpec
CHECK_DEADLOCK FALSE

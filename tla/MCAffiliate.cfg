SPECIFICATION AffiliateSpec
CONSTANTS
    i1 = i1
    i2 = i2
    w1 = w1
    referrer = referrer
    payer = payer
    Invoices = {i1, i2}
    Users = {referrer, payer}
    Wallets = {w1}
    Withdrawals = {q1, q2}
    Referrer <- MCReferrer
    Payer <- MCPayer
    Base <- MCBase
    Percents <- MCPercents
    MinTotals <- MCMinTotals
    WalletsOf <- MCWalletsOf
    PayoutRef = PayoutRef
    Refs = {PayoutRef}
    NoKey = NoKey
    Amounts <- MCAmounts
INVARIANTS NeverOverpaid
PROPERTIES EarningsAreSettled WalletSpec
CHECK_DEADLOCK FALSE
SYMMETRY WithdrawalSymmetry

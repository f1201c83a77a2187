SPECIFICATION LiveSettlementSpec
CONSTANTS
    w1 = w1
    Wallets <- MCWallets
    WalletOf <- MCWalletOf
    Amounts <- UnitAmounts
    Refs <- MCRefs
    NoKey = NoKey
    NoOrder = NoOrder
    Orders = {o1}
    Payments = {p1}
    Sumopod = FALSE
    Copies = 2
    MaxAdjustments = 1
PROPERTIES ChargedTopupIsCredited ChargedInvoiceIsPaid
CHECK_DEADLOCK FALSE

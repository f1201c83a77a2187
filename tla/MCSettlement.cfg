SPECIFICATION SettlementSpec
CONSTANTS
    w1 = w1
    Wallets <- MCWallets
    WalletOf <- MCWalletOf
    Amounts <- UnitAmounts
    Refs <- MCRefs
    NoKey = NoKey
    NoOrder = NoOrder
    Orders = {o1}
    Payments = {p1, p2}
    Sumopod = TRUE
    Copies = 1
    MaxAdjustments = 0
INVARIANTS TopupBookedOnce CreditImpliesPaid PaidInvoiceIsBacked CancelledNotPayable
PROPERTIES WalletSpec
CHECK_DEADLOCK FALSE
SYMMETRY PaymentSymmetry

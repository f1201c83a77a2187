-------------------------- MODULE SettlementProofs --------------------------
(***************************************************************************)
(* Settlement for any number of orders, payments, wallets and amounts.     *)
(*                                                                         *)
(* The proof looks at the rows one by one: OrderMoves, InvoiceMoves and    *)
(* PaymentMoves say how a step may change a row, Books how it may change   *)
(* the ledger.  Every handler, webhook and administrator's request is one  *)
(* of these moves (StepMoves, StepBooks); that the moves keep SettlementInv*)
(* is shown once for all of them.                                          *)
(***************************************************************************)
EXTENDS Settlement, WalletProofs

\* A reference is written to the ledger under itself as key, adjustments without.
KeyFor(ref) == IF ref = AdjustmentRef THEN NoKey ELSE ref

Collected == {"paid", "refunded"}

\* What stands behind the paid invoice of o (the body of PaidInvoiceIsBacked).
BackedByPayment(o) ==
    \E p \in Payments : /\ payments[p].order = o
                        /\ payments[p].status \in Collected
                        /\ payments[p].amount >= orders[o].total
BackedByDebit(o) ==
    \E i \in DOMAIN ledger[WalletOf[o]] :
        /\ ledger[WalletOf[o]][i].ref = InvoiceRef(o)
        /\ ledger[WalletOf[o]][i].dir = "debit"
        /\ ledger[WalletOf[o]][i].amount = orders[o].total

-----------------------------------------------------------------------------
\* The inductive invariant.

OrdersExist ==
    \A o \in Orders :
        /\ orders[o].status # "none" => orders[o].total \in Amounts
        /\ invoices[o] # "none" => orders[o].status # "none"

\* A payment for an invoice is for its whole total, which never changes.
PaymentsExist ==
    \A p \in Payments :
        /\ payments[p].status # "none" => payments[p].amount \in Amounts
        /\ payments[p].linked => payments[p].status # "none"
        /\ payments[p].order # NoOrder =>
              /\ payments[p].status # "none"
              /\ invoices[payments[p].order] # "none"
              /\ payments[p].amount = orders[payments[p].order].total

\* Events and requests under way are about rows that exist.
PendingExist ==
    /\ \A e \in sent : payments[e.payment].linked
    /\ \A r \in requests :
          /\ r.op = "approve" => payments[r.id].status # "none"
          /\ r.op = "voidOrder" => orders[r.id].status # "none"
          /\ r.op = "voidInvoice" => orders[r.id].status # "none"

KeysFollowRefs ==
    \A w \in Wallets : \A i \in DOMAIN ledger[w] :
        ledger[w][i].key = KeyFor(ledger[w][i].ref)

SettlementInv ==
    /\ WalletInv
    /\ SettlementTypeOK
    /\ OrdersExist /\ PaymentsExist /\ PendingExist
    /\ KeysFollowRefs
    /\ CreditImpliesPaid /\ PaidInvoiceIsBacked /\ CancelledNotPayable

-----------------------------------------------------------------------------
\* How a step may change a row.

OrderMoves(o) ==
    \/ orders'[o] = orders[o]
    \/ /\ orders[o].status = "none"
       /\ orders'[o].status = "pending_payment" /\ orders'[o].total \in Amounts
    \/ /\ orders[o].status # "none"
       /\ orders'[o].status \in {"processing", "completed", "cancelled"}
       /\ orders'[o].total = orders[o].total
       /\ orders'[o].status = "cancelled" => invoices'[o] # "unpaid"

InvoiceMoves(o) ==
    \/ invoices'[o] = invoices[o]
    \/ /\ orders[o].status # "none"
       /\ \/ invoices'[o] = "unpaid" /\ orders'[o].status = "processing"
          \/ invoices'[o] = "void"
          \/ invoices'[o] = "paid" /\ (BackedByPayment(o)' \/ BackedByDebit(o)')

PaymentMoves(p) ==
    \/ payments'[p] = payments[p]
    \/ /\ payments[p].status = "none" /\ payments'[p].status = "pending"
       /\ payments'[p].amount \in Amounts
       /\ payments'[p].order # NoOrder =>
             /\ invoices[payments'[p].order] # "none"
             /\ payments'[p].amount = orders[payments'[p].order].total
    \/ /\ payments[p].status # "none"
       /\ payments'[p].order = payments[p].order /\ payments'[p].amount = payments[p].amount
       /\ payments[p].linked => payments'[p].linked
       /\ \/ payments'[p].status \in Collected
          \/ payments'[p].status = payments[p].status
          \/ payments[p].status = "pending" /\ payments'[p].status = "failed"

\* What is new among the events and the requests is about rows that exist.
PendingMoves ==
    /\ \A e \in sent' : e \in sent \/ payments[e.payment].linked
    /\ \A r \in requests' :
          \/ r \in requests
          \/ r.op = "approve" /\ payments[r.id].status # "none"
          \/ r.op = "voidOrder" /\ orders[r.id].status # "none"
          \/ r.op = "voidInvoice" /\ orders[r.id].status # "none"

RowMoves ==
    /\ \A o \in Orders : OrderMoves(o) /\ InvoiceMoves(o)
    /\ \A p \in Payments : PaymentMoves(p)
    /\ PendingMoves

\* The one way in which a step may write to the ledger.
Books ==
    \E w \in Wallets, dir \in Directions, amount \in Amounts, ref \in Refs :
        /\ ApplyTransaction(w, dir, amount, ref, KeyFor(ref))
        /\ \A p \in Payments : ref = TopupRef(p) => payments'[p].status = "paid"

-----------------------------------------------------------------------------
\* References of different kinds or rows are different.
LEMMA RefsDiffer ==
    /\ \A p \in Payments : /\ TopupRef(p) \in Refs /\ RefundRef(p) \in Refs
                           /\ KeyFor(TopupRef(p)) = TopupRef(p)
                           /\ KeyFor(RefundRef(p)) = RefundRef(p)
    /\ \A o \in Orders : InvoiceRef(o) \in Refs /\ KeyFor(InvoiceRef(o)) = InvoiceRef(o)
    /\ AdjustmentRef \in Refs /\ KeyFor(AdjustmentRef) = NoKey
    /\ \A p, q \in Payments : TopupRef(p) # RefundRef(q) /\ (TopupRef(p) = TopupRef(q) => p = q)
    /\ \A p \in Payments, o \in Orders : TopupRef(p) # InvoiceRef(o)
    /\ \A p \in Payments : TopupRef(p) # AdjustmentRef
    /\ \A ref \in Refs : KeyFor(ref) \in Keys /\ KeyFor(ref) \in {ref, NoKey}
  BY RefsAssumption DEF TopupRef, RefundRef, InvoiceRef, AdjustmentRef, LedgerRefs, KeyFor, Keys

\* A status is written to a payment's row.
LEMMA StatusSet ==
    ASSUME payments \in [Payments -> PaymentRows], NEW p \in Payments,
           NEW status \in PaymentStatus, SetPayment(p, status)
    PROVE  /\ payments' \in [Payments -> PaymentRows]
           /\ payments'[p].status = status
           /\ payments'[p].order = payments[p].order
           /\ payments'[p].amount = payments[p].amount
           /\ payments'[p].linked = payments[p].linked
           /\ \A q \in Payments : q # p => payments'[q] = payments[q]
  <1> DEFINE row == [payments[p] EXCEPT !.status = status]
  <1>1. row \in PaymentRows
    BY DEF PaymentRows
  <1>2. /\ row.status = status /\ row.order = payments[p].order
        /\ row.amount = payments[p].amount /\ row.linked = payments[p].linked
    BY DEF PaymentRows
  <1>3. payments' = [payments EXCEPT ![p] = row]
    BY DEF SetPayment
  <1> HIDE DEF row
  <1> QED  BY <1>1, <1>2, <1>3

\* A status is written to an order's row.
LEMMA OrderSet ==
    ASSUME orders \in [Orders -> [status : OrderStatus, total : Int]], NEW o \in Orders,
           NEW status \in OrderStatus, orders' = [orders EXCEPT ![o].status = status]
    PROVE  /\ orders' \in [Orders -> [status : OrderStatus, total : Int]]
           /\ orders'[o].status = status
           /\ orders'[o].total = orders[o].total
           /\ \A q \in Orders : q # o => orders'[q] = orders[q]
  OBVIOUS

\* The entry a call appends, and the entries it keeps.
LEMMA EntryAppended ==
    ASSUME NEW w \in Wallets, NEW dir \in Directions, NEW amount \in Amounts,
           NEW ref \in Refs, NEW key \in Keys,
           WalletTypeOK, ApplyTransaction(w, dir, amount, ref, key)
    PROVE  LET n == Len(ledger[w]) + 1
           IN  /\ DOMAIN ledger'[w] = 1 .. n /\ DOMAIN ledger[w] = 1 .. n - 1 /\ n \in Nat \ {0}
               /\ \A i \in DOMAIN ledger[w] : i \in DOMAIN ledger'[w] /\ ledger'[w][i] = ledger[w][i]
               /\ ledger'[w][n].ref = ref /\ ledger'[w][n].key = key
               /\ ledger'[w][n].dir = dir /\ ledger'[w][n].amount = amount
               /\ \A v \in Wallets : v # w => ledger'[v] = ledger[v]
  <1> DEFINE e == NewEntry(w, dir, amount, ref, key)
  <1>1. e \in Entries /\ ledger' = [ledger EXCEPT ![w] = Append(@, e)]
    BY EntryWritten
  <1>2. e.ref = ref /\ e.key = key /\ e.dir = dir /\ e.amount = amount
    BY DEF NewEntry
  <1> HIDE DEF e
  <1>3. ledger[w] \in Seq(Entries) /\ ledger'[w] = Append(ledger[w], e)
    BY <1>1 DEF WalletTypeOK
  <1>4. \A v \in Wallets : v # w => ledger'[v] = ledger[v]
    BY <1>1 DEF WalletTypeOK
  <1> QED  BY <1>1, <1>2, <1>3, <1>4

\* The facts about types and rows that the steps below use.
LEMMA Facts ==
    ASSUME SettlementInv
    PROVE  /\ WalletTypeOK
           /\ orders \in [Orders -> [status : OrderStatus, total : Int]]
           /\ invoices \in [Orders -> InvoiceStatus]
           /\ payments \in [Payments -> PaymentRows]
           /\ \A p \in Payments : /\ payments[p].order \in Orders \cup {NoOrder}
                                  /\ payments[p].status \in PaymentStatus
                                  /\ payments[p].amount \in Int
                                  /\ WalletOf[p] \in Wallets
           /\ \A o \in Orders : WalletOf[o] \in Wallets /\ orders[o].total \in Int
           /\ \A e \in sent : e \in Events /\ e.payment \in Payments
                              /\ payments[e.payment].status # "none"
  <1>1. /\ SettlementTypeOK /\ WalletTypeOK
        /\ payments \in [Payments -> PaymentRows]
        /\ orders \in [Orders -> [status : OrderStatus, total : Int]]
        /\ invoices \in [Orders -> InvoiceStatus]
    BY DEF SettlementInv, SettlementTypeOK
  <1>2. \A p \in Payments : payments[p] \in PaymentRows
    BY <1>1
  <1>3. \A p \in Payments : /\ payments[p].order \in Orders \cup {NoOrder}
                            /\ payments[p].status \in PaymentStatus
                            /\ payments[p].amount \in Int
    BY <1>2 DEF PaymentRows
  <1>4. \A e \in sent : e \in Events /\ e.payment \in Payments
    BY <1>1 DEF SettlementTypeOK, Events
  <1>5. \A e \in sent : payments[e.payment].status # "none"
    BY <1>4 DEF SettlementInv, PendingExist, PaymentsExist
  <1> QED  BY <1>1, <1>3, <1>4, <1>5, WalletOfAssumption

\* Every step leaves the wallet alone or makes one call of ApplyTransaction, with
\* the key that goes with its reference.
LEMMA StepBooks ==
    ASSUME SettlementInv, [SettlementNext]_settlementVars
    PROVE  Books \/ UNCHANGED walletVars
  <1> USE Facts, RefsDiffer
  <1>1. ASSUME NEW p \in Payments, payments[p].status # "none", SetPayment(p, "paid"),
               ApplyTransaction(WalletOf[p], "credit", payments[p].amount, TopupRef(p), TopupRef(p))
        PROVE  Books
    <2>1. payments[p].amount \in Amounts
      BY <1>1 DEF SettlementInv, PaymentsExist
    <2>2. payments'[p].status = "paid"
      BY <1>1, StatusSet DEF PaymentStatus
    <2> QED  BY <1>1, <2>1, <2>2 DEF Books, Directions
  <1>2. ASSUME NEW e \in Events, ApplyRefunded(e)
        PROVE  Books \/ UNCHANGED walletVars
    <2>1. e \in sent
      BY <1>2 DEF ApplyRefunded, Fresh
    <2>2. payments[e.payment].amount \in Amounts
      BY <2>1 DEF SettlementInv, PaymentsExist
    <2> QED  BY <1>2, <2>1, <2>2 DEF ApplyRefunded, Books, Directions
  <1>3. ASSUME NEW o \in Orders, PayInvoiceWithWallet(o) PROVE Books
    <2>1. orders[o].total \in Amounts
      BY <1>3 DEF PayInvoiceWithWallet, SettlementInv, OrdersExist
    <2> QED  BY <1>3, <2>1 DEF PayInvoiceWithWallet, Books, Directions
  <1>4. ASSUME NEW e \in Events, ProcessWebhook(e) PROVE Books \/ UNCHANGED walletVars
    <2>1. CASE ApplyPaidTopup(e)
      BY <1>1, <2>1 DEF ApplyPaidTopup, Fresh
    <2> QED
      BY <1>2, <1>4, <2>1 DEF ProcessWebhook, ApplyPaidInvoice, ApplyPaidAgain, ApplyFailed
  <1>5. ASSUME NEW o \in Orders, OrderStep(o) PROVE Books \/ UNCHANGED walletVars
    BY <1>3, <1>5 DEF OrderStep, CreateOrder, CreateInvoiceFromOrder, HandleCancelOrder,
           RecordCommission, LosePostCommit, AdminVoidOrderRead, AdminVoidOrder,
           AdminVoidInvoiceRead, AdminVoidInvoice, Begin
  <1>6. ASSUME NEW p \in Payments, PaymentStep(p) PROVE Books \/ UNCHANGED walletVars
    <2>1. CASE AdminApproveTopup(p)
      <3>1. payments[p].status # "none"
        BY <2>1 DEF AdminApproveTopup, Finish, SettlementInv, PendingExist
      <3> QED  BY <1>1, <2>1, <3>1 DEF AdminApproveTopup, ApproveKey
    <2> QED
      BY <1>6, <2>1 DEF PaymentStep, HandleCreatePayment, HandleWalletTopup, CreatePayment,
           LinkSumopodPayment, GatewayFail, GatewayCharge, GatewayRefund, GatewayReports,
           AdminApproveRead, Begin, AdminApproveAborted, AdminApproveInvoice
  <1>7. ASSUME NEW w \in Wallets, NEW dir \in Directions, NEW amount \in Amounts,
               AdminAdjustWallet(w, dir, amount)
        PROVE  Books
    BY <1>7 DEF AdminAdjustWallet, Books
  <1>8. CASE UNCHANGED settlementVars
    BY <1>8 DEF settlementVars, walletVars
  <1> QED  BY <1>4, <1>5, <1>6, <1>7, <1>8 DEF SettlementNext

-----------------------------------------------------------------------------
\* A step that leaves a table alone moves none of its rows.
LEMMA NothingMoves ==
    /\ UNCHANGED orders => \A o \in Orders : OrderMoves(o)
    /\ UNCHANGED invoices => \A o \in Orders : InvoiceMoves(o)
    /\ UNCHANGED payments => \A p \in Payments : PaymentMoves(p)
    /\ UNCHANGED <<sent, requests>> => PendingMoves
  BY DEF OrderMoves, InvoiceMoves, PaymentMoves, PendingMoves

\* A payment that exists is marked as paid or refunded.
LEMMA CollectMoves ==
    ASSUME SettlementInv, NEW p \in Payments, payments[p].status # "none",
           NEW status \in Collected, SetPayment(p, status)
    PROVE  \A q \in Payments : PaymentMoves(q)
  BY Facts, StatusSet DEF PaymentMoves, Collected, PaymentStatus

\* Requests are read, written and forgotten.
LEMMA RequestMoves ==
    ASSUME NEW op, NEW id, UNCHANGED sent,
           \/ Finish(op, id)
           \/ /\ Begin(op, id)
              /\ \/ op = "approve" /\ payments[id].status # "none"
                 \/ op \in {"voidOrder", "voidInvoice"} /\ orders[id].status # "none"
    PROVE  PendingMoves
  BY DEF PendingMoves, Begin, Finish

\* Every step moves rows only in the ways of RowMoves.
LEMMA OrderStepMoves ==
    ASSUME SettlementInv, NEW o \in Orders, OrderStep(o) PROVE RowMoves
  <1> USE Facts
  <1>1. ASSUME NEW total \in Amounts, CreateOrder(o, total) PROVE RowMoves
    <2>1. \A q \in Orders : OrderMoves(q)
      BY <1>1 DEF CreateOrder, OrderMoves
    <2> QED  BY <1>1, <2>1, NothingMoves DEF CreateOrder, RowMoves, outside
  <1>2. CASE CreateInvoiceFromOrder(o)
    <2>1. \A q \in Orders : OrderMoves(q) /\ InvoiceMoves(q)
      BY <1>2, OrderSet DEF CreateInvoiceFromOrder, OrderMoves, InvoiceMoves, OrderStatus
    <2> QED  BY <1>2, <2>1, NothingMoves DEF CreateInvoiceFromOrder, RowMoves, outside
  <1>3. ASSUME orders[o].status # "none", orders' = [orders EXCEPT ![o].status = "cancelled"],
               invoices' = VoidInvoice(o)
        PROVE  \A q \in Orders : OrderMoves(q) /\ InvoiceMoves(q)
    BY <1>3, OrderSet DEF OrderMoves, InvoiceMoves, VoidInvoice, OrderStatus
  <1>4. CASE HandleCancelOrder(o)
    BY <1>3, <1>4, NothingMoves DEF HandleCancelOrder, RowMoves, outside
  <1>5. CASE PayInvoiceWithWallet(o)
    <2>1. BackedByDebit(o)' /\ orders[o].status # "none"
      <3>1. orders[o].total \in Amounts /\ orders[o].status # "none"
        BY <1>5 DEF PayInvoiceWithWallet, SettlementInv, OrdersExist
      <3>2. ApplyTransaction(WalletOf[o], "debit", orders[o].total, InvoiceRef(o), InvoiceRef(o))
        BY <1>5 DEF PayInvoiceWithWallet
      <3>3. InvoiceRef(o) \in Refs /\ InvoiceRef(o) \in Keys /\ "debit" \in Directions
        BY RefsDiffer DEF Keys, Directions
      <3> DEFINE v == WalletOf[o]
                 n == Len(ledger[v]) + 1
      <3>4. /\ n \in DOMAIN ledger'[v] /\ ledger'[v][n].ref = InvoiceRef(o)
            /\ ledger'[v][n].dir = "debit" /\ ledger'[v][n].amount = orders[o].total
        BY <3>1, <3>2, <3>3, EntryAppended
      <3>5. orders'[o].total = orders[o].total
        BY <1>5 DEF PayInvoiceWithWallet
      <3> QED  BY <3>1, <3>4, <3>5 DEF BackedByDebit
    <2>2. \A q \in Orders : InvoiceMoves(q)
      BY <1>5, <2>1 DEF PayInvoiceWithWallet, InvoiceMoves
    <2> QED  BY <1>5, <2>2, NothingMoves DEF PayInvoiceWithWallet, RowMoves, outside
  <1>6. CASE RecordCommission(o) \/ LosePostCommit(o)
    BY <1>6, NothingMoves DEF RecordCommission, LosePostCommit, RowMoves, outside, rows
  <1>7. CASE AdminVoidOrderRead(o) \/ AdminVoidInvoiceRead(o)
    <2>1. orders[o].status # "none"
      BY <1>7 DEF AdminVoidOrderRead, AdminVoidInvoiceRead, SettlementInv, OrdersExist
    <2>2. PendingMoves
      BY <1>7, <2>1, RequestMoves DEF AdminVoidOrderRead, AdminVoidInvoiceRead, Begin, outside
    <2> QED
      BY <1>7, <2>2, NothingMoves
         DEF AdminVoidOrderRead, AdminVoidInvoiceRead, Begin, RowMoves, rows
  <1>8. CASE AdminVoidOrder(o)
    <2>1. orders[o].status # "none"
      BY <1>8 DEF AdminVoidOrder, Finish, SettlementInv, PendingExist
    <2>2. PendingMoves
      BY <1>8, RequestMoves DEF AdminVoidOrder, Finish, outside
    <2> QED  BY <1>3, <1>8, <2>1, <2>2, NothingMoves DEF AdminVoidOrder, RowMoves
  <1>9. CASE AdminVoidInvoice(o)
    <2>1. orders[o].status # "none"
      BY <1>9 DEF AdminVoidInvoice, Finish, SettlementInv, PendingExist
    <2>2. PendingMoves
      BY <1>9, RequestMoves DEF AdminVoidInvoice, Finish, outside
    <2>3. \A q \in Orders : InvoiceMoves(q)
      BY <1>9, <2>1 DEF AdminVoidInvoice, InvoiceMoves
    <2> QED  BY <1>9, <2>2, <2>3, NothingMoves DEF AdminVoidInvoice, RowMoves
  <1> QED  BY <1>1, <1>2, <1>4, <1>5, <1>6, <1>7, <1>8, <1>9 DEF OrderStep

LEMMA PaymentStepMoves ==
    ASSUME SettlementInv, NEW p \in Payments, PaymentStep(p) PROVE RowMoves
  <1> USE Facts
  <1>1. ASSUME NEW o \in Orders \cup {NoOrder}, NEW amount \in Amounts, CreatePayment(p, o, amount),
               o # NoOrder => invoices[o] # "none" /\ amount = orders[o].total
        PROVE  RowMoves
    <2> DEFINE row == [status |-> "pending", order |-> o, amount |-> amount, linked |-> ~Sumopod]
    <2>1. payments' = [payments EXCEPT ![p] = row] /\ payments[p].status = "none"
      BY <1>1 DEF CreatePayment
    <2>2. row.status = "pending" /\ row.order = o /\ row.amount = amount
      OBVIOUS
    <2> HIDE DEF row
    <2>3. \A q \in Payments : PaymentMoves(q)
      BY <1>1, <2>1, <2>2 DEF PaymentMoves
    <2> QED  BY <1>1, <2>3, NothingMoves DEF CreatePayment, RowMoves, outside
  <1>2. ASSUME NEW o \in Orders, HandleCreatePayment(p, o) PROVE RowMoves
    <2>1. invoices[o] # "none" /\ orders[o].total \in Amounts
      BY <1>2 DEF HandleCreatePayment, SettlementInv, OrdersExist
    <2> QED  BY <1>1, <1>2, <2>1 DEF HandleCreatePayment
  <1>3. ASSUME NEW amount \in Amounts, HandleWalletTopup(p, amount) PROVE RowMoves
    BY <1>1, <1>3 DEF HandleWalletTopup
  <1>4. CASE LinkSumopodPayment(p)
    <2> DEFINE row == [payments[p] EXCEPT !.linked = TRUE]
    <2>1. /\ row.status = payments[p].status /\ row.order = payments[p].order
          /\ row.amount = payments[p].amount /\ row.linked = TRUE
      BY DEF PaymentRows
    <2>2. payments' = [payments EXCEPT ![p] = row] /\ payments[p].status # "none"
      BY <1>4 DEF LinkSumopodPayment
    <2> HIDE DEF row
    <2>3. \A q \in Payments : PaymentMoves(q)
      BY <2>1, <2>2 DEF PaymentMoves
    <2> QED  BY <1>4, <2>3, NothingMoves DEF LinkSumopodPayment, RowMoves, outside
  <1>5. ASSUME NEW from, NEW to, NEW status, GatewayReports(p, from, to, status)
        PROVE  RowMoves
    <2>1. PendingMoves
      BY <1>5 DEF GatewayReports, Reports, PendingMoves
    <2> QED  BY <1>5, <2>1, NothingMoves DEF GatewayReports, RowMoves, rows
  <1>6. CASE AdminApproveRead(p)
    <2>1. PendingMoves
      BY <1>6, RequestMoves DEF AdminApproveRead, Begin, outside
    <2> QED  BY <1>6, <2>1, NothingMoves DEF AdminApproveRead, Begin, RowMoves, rows
  <1>7. ASSUME Finish("approve", p) PROVE PendingMoves /\ payments[p].status # "none"
    <2>1. payments[p].status # "none"
      BY <1>7 DEF Finish, SettlementInv, PendingExist
    <2> QED  BY <1>7, <2>1, RequestMoves DEF Finish, outside
  <1>8. CASE AdminApproveTopup(p)
    BY <1>7, <1>8, CollectMoves, NothingMoves DEF AdminApproveTopup, RowMoves, Collected
  <1>9. CASE AdminApproveAborted(p)
    BY <1>7, <1>9, NothingMoves DEF AdminApproveAborted, RowMoves, rows
  <1>10. CASE AdminApproveInvoice(p)
    <2>0. PICK o \in Orders : o = payments[p].order
      BY <1>10 DEF AdminApproveInvoice, IsTopup
    <2>1. /\ payments[p].amount = orders[o].total /\ orders[o].status # "none"
          /\ payments[p].status # "none" /\ PendingMoves
      <3>1. invoices[o] # "none" /\ payments[p].amount = orders[o].total
        BY <1>10, <2>0 DEF AdminApproveInvoice, IsTopup, SettlementInv, PaymentsExist
      <3> QED  BY <1>7, <1>10, <3>1 DEF AdminApproveInvoice, SettlementInv, OrdersExist
    <2>2. SetPayment(p, "paid") /\ UNCHANGED orders
          /\ invoices' = [invoices EXCEPT ![o] = IF @ = "unpaid" THEN "paid" ELSE @]
      BY <1>10, <2>0 DEF AdminApproveInvoice
    <2>3. /\ payments'[p].order = o /\ payments'[p].amount = orders[o].total
          /\ payments'[p].status = "paid"
      BY <2>0, <2>1, <2>2, StatusSet DEF PaymentStatus
    <2>4. BackedByPayment(o)'
      BY <2>1, <2>2, <2>3 DEF BackedByPayment, Collected
    <2>5. \A q \in Orders : InvoiceMoves(q)
      BY <2>1, <2>2, <2>4 DEF InvoiceMoves
    <2>6. \A q \in Payments : PaymentMoves(q)
      BY <2>1, <2>2, CollectMoves DEF Collected
    <2> QED  BY <2>1, <2>2, <2>5, <2>6, NothingMoves DEF RowMoves
  <1> QED
    BY <1>2, <1>3, <1>4, <1>5, <1>6, <1>8, <1>9, <1>10
       DEF PaymentStep, GatewayFail, GatewayCharge, GatewayRefund

LEMMA WebhookMoves ==
    ASSUME SettlementInv, NEW e \in Events, ProcessWebhook(e) PROVE RowMoves
  <1> USE Facts
  <1> DEFINE p == e.payment
  <1>1. /\ e \in sent /\ p \in Payments /\ payments[p].status # "none"
        /\ UNCHANGED <<sent, requests>>
    BY DEF ProcessWebhook, ApplyPaidTopup, ApplyPaidInvoice, ApplyPaidAgain, ApplyFailed,
           ApplyRefunded, Fresh, outside
  <1> HIDE DEF p
  <1>2. CASE ApplyPaidTopup(e) \/ ApplyPaidAgain(e) \/ ApplyRefunded(e)
    <2>1. \A q \in Payments : PaymentMoves(q)
      BY <1>1, <1>2, CollectMoves DEF ApplyPaidTopup, ApplyPaidAgain, ApplyRefunded, p, Collected
    <2> QED
      BY <1>1, <1>2, <2>1, NothingMoves DEF ApplyPaidTopup, ApplyPaidAgain, ApplyRefunded, RowMoves
  <1>3. CASE ApplyFailed(e)
    <2>1. UNCHANGED payments \/ (payments[p].status = "pending" /\ SetPayment(p, "failed"))
      BY <1>3 DEF ApplyFailed, p
    <2>2. \A q \in Payments : PaymentMoves(q)
      BY <1>1, <2>1, StatusSet DEF PaymentMoves, PaymentStatus
    <2> QED  BY <1>1, <1>3, <2>2, NothingMoves DEF ApplyFailed, RowMoves
  <1>4. CASE ApplyPaidInvoice(e)
    <2>0. PICK o \in Orders : o = payments[p].order
      BY <1>1, <1>4 DEF ApplyPaidInvoice, IsTopup, p
    <2>1. /\ orders[o].status # "none" /\ payments[p].amount >= orders[o].total
          /\ invoices' = [invoices EXCEPT ![o] = "paid"]
          /\ orders' = [orders EXCEPT ![o].status = "completed"]
          /\ SetPayment(p, "paid")
      <3>1. invoices[o] # "none"
        BY <1>1, <1>4, <2>0 DEF ApplyPaidInvoice, IsTopup, SettlementInv, PaymentsExist, p
      <3> QED  BY <1>4, <2>0, <3>1 DEF ApplyPaidInvoice, SettlementInv, OrdersExist, p
    <2>2. /\ payments'[p].order = o /\ payments'[p].amount = payments[p].amount
          /\ payments'[p].status = "paid"
      BY <1>1, <2>0, <2>1, StatusSet DEF PaymentStatus
    <2>3. /\ orders'[o].status = "completed" /\ orders'[o].total = orders[o].total
          /\ \A q \in Orders : q # o => orders'[q] = orders[q]
      BY <2>1, OrderSet DEF OrderStatus
    <2>4. BackedByPayment(o)'
      BY <1>1, <2>1, <2>2, <2>3 DEF BackedByPayment, Collected
    <2>5. \A q \in Orders : OrderMoves(q) /\ InvoiceMoves(q)
      BY <2>1, <2>3, <2>4 DEF OrderMoves, InvoiceMoves
    <2>6. \A q \in Payments : PaymentMoves(q)
      BY <1>1, <2>1, CollectMoves DEF Collected
    <2> QED  BY <1>1, <2>5, <2>6, NothingMoves DEF RowMoves
  <1> QED  BY <1>2, <1>3, <1>4 DEF ProcessWebhook

LEMMA StepMoves ==
    ASSUME SettlementInv, [SettlementNext]_settlementVars PROVE RowMoves
  <1>1. ASSUME NEW w \in Wallets, NEW dir \in Directions, NEW amount \in Amounts,
               AdminAdjustWallet(w, dir, amount)
        PROVE  RowMoves
    BY <1>1, NothingMoves DEF AdminAdjustWallet, RowMoves, rows, outside
  <1>2. CASE UNCHANGED settlementVars
    BY <1>2, NothingMoves DEF settlementVars, RowMoves
  <1> QED
    BY <1>1, <1>2, OrderStepMoves, PaymentStepMoves, WebhookMoves DEF SettlementNext

-----------------------------------------------------------------------------
\* The tables keep their types; the wallet's part is CallKeepsInv.
RowTypeOK ==
    /\ orders \in [Orders -> [status : OrderStatus, total : Int]]
    /\ invoices \in [Orders -> InvoiceStatus]
    /\ payments \in [Payments -> PaymentRows]
    /\ gateway \in [Payments -> {"open", "failed", "charged", "refunded"}]
    /\ sent \subseteq Events /\ events \subseteq sent /\ requests \subseteq Requests
    /\ postCommit \subseteq Orders /\ accrued \subseteq Orders

LEMMA OrderStepTypes ==
    ASSUME SettlementInv, RowTypeOK, NEW o \in Orders, OrderStep(o) PROVE RowTypeOK'
  <1> USE DEF RowTypeOK, OrderStatus, InvoiceStatus, outside, rows
  <1>1. ASSUME NEW total \in Amounts, CreateOrder(o, total) PROVE RowTypeOK'
    BY <1>1, AmountsAssumption DEF CreateOrder
  <1>2. CASE CreateInvoiceFromOrder(o)
    BY <1>2, OrderSet DEF CreateInvoiceFromOrder
  <1>3. CASE HandleCancelOrder(o)
    BY <1>3, OrderSet DEF HandleCancelOrder, VoidInvoice
  <1>4. CASE PayInvoiceWithWallet(o)
    BY <1>4 DEF PayInvoiceWithWallet
  <1>5. CASE RecordCommission(o) \/ LosePostCommit(o)
    BY <1>5 DEF RecordCommission, LosePostCommit
  <1>6. CASE AdminVoidOrderRead(o) \/ AdminVoidInvoiceRead(o)
    BY <1>6 DEF AdminVoidOrderRead, AdminVoidInvoiceRead, Begin, Requests
  <1>7. CASE AdminVoidOrder(o)
    BY <1>7, OrderSet DEF AdminVoidOrder, Finish, VoidInvoice
  <1>8. CASE AdminVoidInvoice(o)
    BY <1>8 DEF AdminVoidInvoice, Finish
  <1> QED  BY <1>1, <1>2, <1>3, <1>4, <1>5, <1>6, <1>7, <1>8 DEF OrderStep

LEMMA PaymentStepTypes ==
    ASSUME SettlementInv, RowTypeOK, NEW p \in Payments, PaymentStep(p) PROVE RowTypeOK'
  <1> USE DEF RowTypeOK, outside, rows
  <1>1. ASSUME NEW o \in Orders \cup {NoOrder}, NEW amount \in Int, CreatePayment(p, o, amount)
        PROVE  RowTypeOK'
    <2> DEFINE row == [status |-> "pending", order |-> o, amount |-> amount, linked |-> ~Sumopod]
    <2>1. row \in PaymentRows
      BY <1>1, SumopodAssumption DEF PaymentRows, PaymentStatus
    <2>2. payments' = [payments EXCEPT ![p] = row]
      BY <1>1 DEF CreatePayment
    <2> HIDE DEF row
    <2>3. payments' \in [Payments -> PaymentRows]
      BY <2>1, <2>2
    <2> QED  BY <1>1, <2>3 DEF CreatePayment
  <1>2. ASSUME NEW o \in Orders, HandleCreatePayment(p, o) PROVE RowTypeOK'
    BY <1>1, <1>2, Facts DEF HandleCreatePayment
  <1>3. ASSUME NEW amount \in Amounts, HandleWalletTopup(p, amount) PROVE RowTypeOK'
    BY <1>1, <1>3, AmountsAssumption DEF HandleWalletTopup
  <1>4. CASE LinkSumopodPayment(p)
    <2> DEFINE row == [payments[p] EXCEPT !.linked = TRUE]
    <2>1. row \in PaymentRows
      BY DEF PaymentRows
    <2>2. payments' = [payments EXCEPT ![p] = row]
      BY <1>4 DEF LinkSumopodPayment
    <2> HIDE DEF row
    <2>3. payments' \in [Payments -> PaymentRows]
      BY <2>1, <2>2
    <2> QED  BY <1>4, <2>3 DEF LinkSumopodPayment
  <1>5. ASSUME NEW from, NEW to \in {"failed", "charged", "refunded"}, NEW status \in EventStatus,
               GatewayReports(p, from, to, status)
        PROVE  RowTypeOK'
    BY <1>5 DEF GatewayReports, Reports
  <1>6. CASE AdminApproveRead(p)
    BY <1>6 DEF AdminApproveRead, Begin, Requests
  <1>7. CASE AdminApproveTopup(p)
    BY <1>7, StatusSet DEF AdminApproveTopup, Finish, PaymentStatus
  <1>8. CASE AdminApproveAborted(p)
    BY <1>8 DEF AdminApproveAborted, Finish
  <1>9. CASE AdminApproveInvoice(p)
    <2>1. payments' \in [Payments -> PaymentRows]
      BY <1>9, StatusSet DEF AdminApproveInvoice, PaymentStatus
    <2>2. invoices' \in [Orders -> InvoiceStatus]
      BY <1>9 DEF AdminApproveInvoice, InvoiceStatus
    <2> QED  BY <1>9, <2>1, <2>2 DEF AdminApproveInvoice, Finish
  <1> QED
    BY <1>2, <1>3, <1>4, <1>5, <1>6, <1>7, <1>8, <1>9
       DEF PaymentStep, GatewayFail, GatewayCharge, GatewayRefund, EventStatus

LEMMA WebhookTypes ==
    ASSUME SettlementInv, RowTypeOK, NEW e \in Events, ProcessWebhook(e) PROVE RowTypeOK'
  <1> USE DEF RowTypeOK, outside
  <1>1. /\ e.payment \in Payments /\ e \in sent
        /\ events' = events \cup {e} /\ UNCHANGED <<gateway, sent, requests, accrued>>
    BY Facts DEF ProcessWebhook, ApplyPaidTopup, ApplyPaidInvoice, ApplyPaidAgain, ApplyFailed,
                 ApplyRefunded, Fresh, Record
  <1>2. payments' \in [Payments -> PaymentRows]
    <2>1. UNCHANGED payments \/ \E status \in PaymentStatus : SetPayment(e.payment, status)
      BY DEF ProcessWebhook, ApplyPaidTopup, ApplyPaidInvoice, ApplyPaidAgain, ApplyFailed,
             ApplyRefunded, PaymentStatus
    <2> QED  BY <1>1, <2>1, StatusSet
  <1>3. CASE ApplyPaidInvoice(e)
    <2>1. PICK o \in Orders : o = payments[e.payment].order
      BY <1>1, <1>3, Facts DEF ApplyPaidInvoice, IsTopup
    <2>2. /\ invoices' = [invoices EXCEPT ![o] = "paid"] /\ postCommit' = postCommit \cup {o}
          /\ orders' = [orders EXCEPT ![o].status = "completed"]
      BY <1>3, <2>1 DEF ApplyPaidInvoice
    <2>3. orders' \in [Orders -> [status : OrderStatus, total : Int]]
      BY <2>2, OrderSet DEF OrderStatus
    <2> QED  BY <1>1, <1>2, <2>2, <2>3 DEF InvoiceStatus
  <1>4. CASE ~ApplyPaidInvoice(e)
    <2>1. UNCHANGED <<orders, invoices, postCommit>>
      BY <1>4 DEF ProcessWebhook, ApplyPaidTopup, ApplyPaidAgain, ApplyFailed, ApplyRefunded
    <2> QED  BY <1>1, <1>2, <2>1
  <1> QED  BY <1>3, <1>4

LEMMA StepTypes ==
    ASSUME SettlementInv, [SettlementNext]_settlementVars PROVE RowTypeOK'
  <1>1. RowTypeOK
    BY DEF SettlementInv, SettlementTypeOK, RowTypeOK
  <1>2. ASSUME NEW w \in Wallets, NEW dir \in Directions, NEW amount \in Amounts,
               AdminAdjustWallet(w, dir, amount)
        PROVE  RowTypeOK'
    BY <1>1, <1>2 DEF AdminAdjustWallet, RowTypeOK, rows, outside
  <1>3. CASE UNCHANGED settlementVars
    BY <1>1, <1>3 DEF settlementVars, RowTypeOK
  <1> QED
    BY <1>1, <1>2, <1>3, OrderStepTypes, PaymentStepTypes, WebhookTypes DEF SettlementNext

-----------------------------------------------------------------------------
\* Whatever the wallet's part of a step is, its invariant is kept, entries stay
\* where they are, and a new top-up entry belongs to a payment that is now paid.
LEMMA LedgerKept ==
    ASSUME SettlementInv, Books \/ UNCHANGED walletVars
    PROVE  /\ WalletInv' /\ KeysFollowRefs'
           /\ \A w \in Wallets : \A i \in DOMAIN ledger[w] :
                 i \in DOMAIN ledger'[w] /\ ledger'[w][i] = ledger[w][i]
           /\ \A p \in Payments : Credited(p)' => Credited(p) \/ payments'[p].status = "paid"
  <1>1. CASE UNCHANGED walletVars
    BY <1>1 DEF walletVars, SettlementInv, WalletInv, WalletTypeOK, LedgerChained, NeverOverdrawn,
                KeysSpentOnce, KeysFollowRefs, Credited, Booked
  <1>2. CASE Books
    <2>1. PICK w \in Wallets, dir \in Directions, amount \in Amounts, ref \in Refs :
             /\ ApplyTransaction(w, dir, amount, ref, KeyFor(ref))
             /\ \A p \in Payments : ref = TopupRef(p) => payments'[p].status = "paid"
      BY <1>2 DEF Books
    <2>2. KeyFor(ref) \in Keys /\ WalletTypeOK /\ WalletInv
      BY RefsDiffer DEF SettlementInv, WalletInv
    <2> DEFINE n == Len(ledger[w]) + 1
    <2>3. /\ DOMAIN ledger'[w] = 1 .. n /\ DOMAIN ledger[w] = 1 .. n - 1 /\ n \in Nat \ {0}
          /\ \A i \in DOMAIN ledger[w] : i \in DOMAIN ledger'[w] /\ ledger'[w][i] = ledger[w][i]
          /\ ledger'[w][n].ref = ref /\ ledger'[w][n].key = KeyFor(ref)
          /\ \A v \in Wallets : v # w => ledger'[v] = ledger[v]
      BY <2>1, <2>2, EntryAppended
    <2> HIDE DEF n
    <2>4. \A i \in DOMAIN ledger'[w] : i \in DOMAIN ledger[w] \/ i = n
      BY <2>3
    <2>5. WalletInv'
      BY <2>1, <2>2, CallKeepsInv
    <2>6. KeysFollowRefs'
      <3> SUFFICES ASSUME NEW v \in Wallets, NEW i \in DOMAIN ledger'[v]
                   PROVE  ledger'[v][i].key = KeyFor(ledger'[v][i].ref)
        BY DEF KeysFollowRefs, KeyFor
      <3> QED  BY <2>3, <2>4 DEF SettlementInv, KeysFollowRefs
    <2>7. ASSUME NEW v \in Wallets, NEW i \in DOMAIN ledger[v]
          PROVE  i \in DOMAIN ledger'[v] /\ ledger'[v][i] = ledger[v][i]
      BY <2>3
    <2>8. ASSUME NEW p \in Payments, Credited(p)'
          PROVE  Credited(p) \/ payments'[p].status = "paid"
      <3>1. PICK i \in DOMAIN ledger'[WalletOf[p]] :
               /\ ledger'[WalletOf[p]][i].ref = TopupRef(p)
               /\ ledger'[WalletOf[p]][i].dir = "credit"
        BY <2>8 DEF Credited, Booked, TopupRef
      <3>2. WalletOf[p] \in Wallets
        BY WalletOfAssumption
      <3>3. CASE i \in DOMAIN ledger[WalletOf[p]]
        BY <2>7, <3>1, <3>2, <3>3 DEF Credited, Booked
      <3>4. CASE i \notin DOMAIN ledger[WalletOf[p]]
        <4>1. WalletOf[p] = w /\ i = n
          BY <2>3, <2>4, <3>1, <3>2, <3>4
        <4> QED  BY <2>1, <2>3, <3>1, <4>1
      <3> QED  BY <3>3, <3>4
    <2> QED  BY <2>5, <2>6, <2>7, <2>8
  <1> QED  BY <1>1, <1>2

\* The moves keep what the invariant says about the rows.
LEMMA RowsKept ==
    ASSUME SettlementInv, RowMoves, RowTypeOK' PROVE (OrdersExist /\ PaymentsExist /\ PendingExist)'
  <1> USE Facts
  <1>1. ASSUME NEW o \in Orders, orders[o].status # "none"
        PROVE  orders'[o].status # "none" /\ orders'[o].total = orders[o].total
    BY <1>1 DEF RowMoves, OrderMoves
  <1>2. ASSUME NEW o \in Orders, invoices[o] # "none" PROVE invoices'[o] # "none"
    BY <1>2 DEF RowMoves, InvoiceMoves
  <1>3. OrdersExist'
    <2> SUFFICES ASSUME NEW o \in Orders
                 PROVE  /\ orders'[o].status # "none" => orders'[o].total \in Amounts
                        /\ invoices'[o] # "none" => orders'[o].status # "none"
      BY DEF OrdersExist
    <2>1. OrderMoves(o) /\ InvoiceMoves(o)
      BY DEF RowMoves
    <2>2. /\ orders[o].status # "none" => orders[o].total \in Amounts
          /\ invoices[o] # "none" => orders[o].status # "none"
      BY DEF SettlementInv, OrdersExist
    <2>3. orders'[o].status # "none" => orders'[o].total \in Amounts
      BY <2>1, <2>2 DEF OrderMoves
    <2>4. invoices'[o] # "none" => orders'[o].status # "none"
      BY <1>1, <2>1, <2>2 DEF InvoiceMoves
    <2> QED  BY <2>3, <2>4
  <1>4. PaymentsExist'
    <2> SUFFICES ASSUME NEW p \in Payments
                 PROVE  /\ payments'[p].status # "none" => payments'[p].amount \in Amounts
                        /\ payments'[p].linked => payments'[p].status # "none"
                        /\ payments'[p].order # NoOrder =>
                              /\ payments'[p].status # "none"
                              /\ invoices'[payments'[p].order] # "none"
                              /\ payments'[p].amount = orders'[payments'[p].order].total
      BY DEF PaymentsExist
    <2>1. PaymentMoves(p)
      BY DEF RowMoves
    <2>2. /\ payments[p].status # "none" => payments[p].amount \in Amounts
          /\ payments[p].linked => payments[p].status # "none"
          /\ payments[p].order # NoOrder =>
                /\ payments[p].status # "none"
                /\ invoices[payments[p].order] # "none"
                /\ payments[p].amount = orders[payments[p].order].total
      BY DEF SettlementInv, PaymentsExist
    <2>3. payments'[p].status # "none" => payments'[p].amount \in Amounts
      BY <2>1, <2>2 DEF PaymentMoves
    <2>4. payments'[p].linked => payments'[p].status # "none"
      BY <2>1, <2>2 DEF PaymentMoves, Collected
    <2>5. ASSUME payments'[p].order # NoOrder
          PROVE  /\ payments'[p].status # "none"
                 /\ invoices'[payments'[p].order] # "none"
                 /\ payments'[p].amount = orders'[payments'[p].order].total
      <3> DEFINE o == payments'[p].order
      <3>1. o \in Orders
        <4>1. payments'[p] \in PaymentRows
          BY DEF RowTypeOK
        <4> QED  BY <2>5, <4>1 DEF PaymentRows
      <3>2. /\ payments'[p].status # "none" /\ invoices[o] # "none"
            /\ payments'[p].amount = orders[o].total
        BY <2>1, <2>2, <2>5 DEF PaymentMoves, Collected
      <3>3. orders[o].status # "none"
        BY <3>1, <3>2 DEF SettlementInv, OrdersExist
      <3> QED  BY <1>1, <1>2, <3>1, <3>2, <3>3
    <2> QED  BY <2>3, <2>4, <2>5
  <1>5. ASSUME NEW p \in Payments
        PROVE  /\ payments[p].linked => payments'[p].linked
               /\ payments[p].status # "none" => payments'[p].status # "none"
    <2>1. PaymentMoves(p)
      BY DEF RowMoves
    <2>2. payments[p].linked => payments[p].status # "none"
      BY DEF SettlementInv, PaymentsExist
    <2> QED  BY <2>1, <2>2 DEF PaymentMoves, Collected
  <1>6. PendingExist'
    <2>1. ASSUME NEW e \in sent' PROVE payments'[e.payment].linked
      <3>1. e.payment \in Payments
        BY <2>1 DEF RowTypeOK, Events
      <3>2. payments[e.payment].linked
        BY <2>1 DEF RowMoves, PendingMoves, SettlementInv, PendingExist
      <3> QED  BY <1>5, <3>1, <3>2
    <2>2. ASSUME NEW r \in requests'
          PROVE  /\ r.op = "approve" => payments'[r.id].status # "none"
                 /\ r.op = "voidOrder" => orders'[r.id].status # "none"
                 /\ r.op = "voidInvoice" => orders'[r.id].status # "none"
      <3>1. /\ r.op = "approve" => r.id \in Payments
            /\ r.op \in {"voidOrder", "voidInvoice"} => r.id \in Orders
        BY <2>2 DEF RowTypeOK, Requests
      <3>2. /\ r.op = "approve" => payments[r.id].status # "none"
            /\ r.op = "voidOrder" => orders[r.id].status # "none"
            /\ r.op = "voidInvoice" => orders[r.id].status # "none"
        BY <2>2 DEF RowMoves, PendingMoves, SettlementInv, PendingExist
      <3> QED  BY <1>1, <1>5, <3>1, <3>2
    <2> QED  BY <2>1, <2>2 DEF PendingExist
  <1> QED  BY <1>3, <1>4, <1>6

\* A collected payment stays collected, so that what it stands for stays backed.
LEMMA CollectedKept ==
    ASSUME RowMoves, NEW p \in Payments, payments[p].status \in Collected
    PROVE  /\ payments'[p].status \in Collected
           /\ payments'[p].order = payments[p].order /\ payments'[p].amount = payments[p].amount
  BY DEF RowMoves, PaymentMoves, Collected

\* Every step preserves the invariant.
LEMMA SettlementStep ==
    SettlementInv /\ [SettlementNext]_settlementVars => SettlementInv'
  <1> SUFFICES ASSUME SettlementInv, [SettlementNext]_settlementVars PROVE SettlementInv'
    OBVIOUS
  <1> USE Facts
  <1>1. RowMoves /\ RowTypeOK'
    BY StepMoves, StepTypes
  <1>2. /\ WalletInv' /\ KeysFollowRefs'
        /\ \A w \in Wallets : \A i \in DOMAIN ledger[w] :
              i \in DOMAIN ledger'[w] /\ ledger'[w][i] = ledger[w][i]
        /\ \A p \in Payments : Credited(p)' => Credited(p) \/ payments'[p].status = "paid"
    BY StepBooks, LedgerKept
  <1>3. SettlementTypeOK'
    BY <1>1, <1>2 DEF RowTypeOK, WalletInv, SettlementTypeOK
  <1>4. (OrdersExist /\ PaymentsExist /\ PendingExist)'
    BY <1>1, RowsKept
  <1>5. CreditImpliesPaid'
    <2> SUFFICES ASSUME NEW p \in Payments, Credited(p)' PROVE payments'[p].status \in Collected
      BY DEF CreditImpliesPaid, Collected
    <2>1. CASE Credited(p)
      BY <1>1, <2>1, CollectedKept DEF SettlementInv, CreditImpliesPaid, Collected
    <2> QED  BY <1>2, <2>1 DEF Collected
  <1>6. PaidInvoiceIsBacked'
    <2> SUFFICES ASSUME NEW o \in Orders, invoices'[o] = "paid"
                 PROVE  BackedByPayment(o)' \/ BackedByDebit(o)'
      BY DEF PaidInvoiceIsBacked, BackedByPayment, BackedByDebit, Booked, Collected
    <2>1. CASE invoices[o] # "paid"
      BY <1>1, <2>1 DEF RowMoves, InvoiceMoves
    <2>2. CASE invoices[o] = "paid"
      <3>1. orders'[o].total = orders[o].total
        <4>1. orders[o].status # "none"
          BY <2>2 DEF SettlementInv, OrdersExist
        <4> QED  BY <1>1, <4>1 DEF RowMoves, OrderMoves
      <3>2. BackedByPayment(o) \/ BackedByDebit(o)
        BY <2>2 DEF SettlementInv, PaidInvoiceIsBacked, BackedByPayment, BackedByDebit, Booked,
                    Collected
      <3>3. CASE BackedByPayment(o)
        <4>1. PICK p \in Payments : /\ payments[p].order = o
                                    /\ payments[p].status \in Collected
                                    /\ payments[p].amount >= orders[o].total
          BY <3>3 DEF BackedByPayment
        <4> QED  BY <1>1, <3>1, <4>1, CollectedKept DEF BackedByPayment
      <3>4. CASE BackedByDebit(o)
        BY <1>2, <3>1, <3>4 DEF BackedByDebit
      <3> QED  BY <3>2, <3>3, <3>4
    <2> QED  BY <2>1, <2>2
  <1>7. CancelledNotPayable'
    <2> SUFFICES ASSUME NEW o \in Orders, orders'[o].status = "cancelled"
                 PROVE  invoices'[o] # "unpaid"
      BY DEF CancelledNotPayable
    <2>1. OrderMoves(o) /\ InvoiceMoves(o)
      BY <1>1 DEF RowMoves
    <2> QED  BY <2>1 DEF OrderMoves, InvoiceMoves, SettlementInv, CancelledNotPayable
  <1> QED  BY <1>2, <1>3, <1>4, <1>5, <1>6, <1>7 DEF SettlementInv

\* Initially there is nothing.
LEMMA SettlementStart == SettlementInit => SettlementInv
  <1> SUFFICES ASSUME SettlementInit PROVE SettlementInv
    OBVIOUS
  <1>1. WalletInit
    BY DEF SettlementInit
  <1>2. WalletInv
    BY <1>1 DEF WalletInit, WalletInv, WalletTypeOK, LedgerChained, NeverOverdrawn, KeysSpentOnce
  <1>3. /\ \A w \in Wallets : DOMAIN ledger[w] = {}
        /\ \A o \in Orders : orders[o].status = "none" /\ invoices[o] = "none"
        /\ \A p \in Payments : /\ payments[p].status = "none" /\ payments[p].order = NoOrder
                               /\ payments[p].linked = FALSE
        /\ sent = {} /\ requests = {}
    BY <1>1 DEF SettlementInit, WalletInit
  <1>4. SettlementTypeOK
    <2>1. payments \in [Payments -> PaymentRows]
      BY DEF SettlementInit, PaymentRows, PaymentStatus
    <2>2. orders \in [Orders -> [status : OrderStatus, total : Int]]
      BY DEF SettlementInit, OrderStatus
    <2>3. invoices \in [Orders -> InvoiceStatus]
      BY DEF SettlementInit, InvoiceStatus
    <2>4. gateway \in [Payments -> {"open", "failed", "charged", "refunded"}]
      BY DEF SettlementInit
    <2> QED
      BY <1>2, <2>1, <2>2, <2>3, <2>4 DEF SettlementInit, WalletInv, SettlementTypeOK
  <1>5. OrdersExist /\ PaymentsExist /\ PendingExist
    BY <1>3 DEF OrdersExist, PaymentsExist, PendingExist
  <1>6. KeysFollowRefs /\ CreditImpliesPaid
    BY <1>3, WalletOfAssumption DEF KeysFollowRefs, CreditImpliesPaid, Credited, Booked
  <1>7. PaidInvoiceIsBacked /\ CancelledNotPayable
    BY <1>3 DEF PaidInvoiceIsBacked, CancelledNotPayable
  <1> QED  BY <1>2, <1>4, <1>5, <1>6, <1>7 DEF SettlementInv

\* The invariant holds throughout, the typing of every table included.
THEOREM SettlementCorrect == SettlementSpec => []SettlementInv
  BY SettlementStart, SettlementStep, PTL DEF SettlementSpec

-----------------------------------------------------------------------------
\* Every handler, webhook and administrator touches the wallet only by a call of
\* ApplyTransaction with a valid amount and the key of its reference: the billing
\* code implements WalletSpec (ProcessWebhook, PayInvoiceWithWallet,
\* adminApprovePayment, adminAdjustWallet).
THEOREM HandlersOnlyMakeCalls == SettlementSpec => WalletSpec
  <1>1. SettlementInit => WalletInit
    BY DEF SettlementInit
  <1>2. SettlementInv /\ [SettlementNext]_settlementVars => [WalletNext]_walletVars
    <2> SUFFICES ASSUME SettlementInv, [SettlementNext]_settlementVars, Books
                 PROVE  WalletNext
      BY StepBooks
    <2>1. PICK w \in Wallets, dir \in Directions, amount \in Amounts, ref \in Refs :
             ApplyTransaction(w, dir, amount, ref, KeyFor(ref))
      BY DEF Books
    <2>2. KeyFor(ref) \in {ref, NoKey}
      BY RefsDiffer
    <2> QED  BY <2>1, <2>2 DEF WalletNext
  <1> QED  BY <1>1, <1>2, SettlementCorrect, PTL DEF SettlementSpec, WalletSpec

\* However often and under however many event ids a payment is reported, and
\* approved by hand as well, nothing but an adjustment is booked twice: every
\* entry carries its reference as the key, which the wallet spends once
\* (ProcessWebhook, adminApprovePayment).
THEOREM NothingIsBookedTwice == SettlementSpec => []TopupBookedOnce
  <1>1. SettlementInv => TopupBookedOnce
    <2> SUFFICES ASSUME SettlementInv, NEW w \in Wallets,
                        NEW i \in DOMAIN ledger[w], NEW j \in DOMAIN ledger[w],
                        ledger[w][i].ref = ledger[w][j].ref, ledger[w][i].ref # AdjustmentRef
                 PROVE  i = j
      BY DEF TopupBookedOnce
    <2>1. ledger[w] \in Seq(Entries)
      BY DEF SettlementInv, WalletInv, WalletTypeOK
    <2>2. i \in 1 .. Len(ledger[w]) /\ j \in 1 .. Len(ledger[w])
      BY <2>1
    <2>3. ledger[w][i].key = ledger[w][i].ref /\ ledger[w][j].key = ledger[w][i].ref
      BY DEF SettlementInv, KeysFollowRefs, KeyFor
    <2>4. ledger[w][i] \in Entries
      BY <2>1, <2>2
    <2>5. ledger[w][i].ref # NoKey
      BY <2>4, NoKeyAssumption DEF Entries
    <2> QED  BY <2>2, <2>3, <2>5 DEF SettlementInv, WalletInv, KeysSpentOnce
  <1> QED  BY <1>1, SettlementCorrect, PTL

\* In whatever order failed, paid and refunded reports and approvals arrive, a
\* credited top-up is never shown as pending or failed (ProcessWebhook).
THEOREM CreditedIsShownPaid == SettlementSpec => []CreditImpliesPaid
  <1>1. SettlementInv => CreditImpliesPaid
    BY DEF SettlementInv
  <1> QED  BY <1>1, SettlementCorrect, PTL

\* No invoice is marked as paid for free, whichever of the three paths marks it
\* (applyPaid, adminApprovePayment, PayInvoiceWithWallet).
THEOREM NoInvoiceIsFree == SettlementSpec => []PaidInvoiceIsBacked
  <1>1. SettlementInv => PaidInvoiceIsBacked
    BY DEF SettlementInv
  <1> QED  BY <1>1, SettlementCorrect, PTL

\* A cancelled order leaves no payable invoice, although an invoice may be made
\* and an order voided at the same time (handleCancelOrder, adminVoidOrder).
THEOREM NoCancelledOrderIsPayable == SettlementSpec => []CancelledNotPayable
  <1>1. SettlementInv => CancelledNotPayable
    BY DEF SettlementInv
  <1> QED  BY <1>1, SettlementCorrect, PTL
=============================================================================

----------------------------- MODULE Settlement -----------------------------
(***************************************************************************)
(* How money becomes a settled order: orders, invoices, gateway payments   *)
(* with their webhooks, wallet payments and the admin operations on them.  *)
(*   billing/service.go     CreateOrder, CreateInvoiceFromOrder,           *)
(*                          PayInvoiceWithWallet                           *)
(*   payment/service.go     CreatePayment, ProcessWebhook, applyPaid       *)
(*   api/handlers_*.go      cancel order, approve, void, adjust            *)
(*                                                                         *)
(* A database transaction that locks what it reads is one step.  A handler *)
(* that reads first and writes in a later transaction is two steps with    *)
(* the request in `requests' between them; what runs after a commit is a   *)
(* step of its own.  A transaction that returns an error rolls back, so it *)
(* is a step that is not enabled.                                          *)
(*                                                                         *)
(* An order has at most one invoice (CreateInvoiceFromOrder moves it out   *)
(* of pending_payment), so both are indexed by the order.                  *)
(***************************************************************************)
EXTENDS Wallet, FiniteSets

CONSTANTS
    Orders, Payments,   \* rows that may be created
    NoOrder,            \* payments.invoice_id IS NULL: a wallet top-up
    Sumopod,            \* PAYMENT_PROVIDER=sumopod: links come from its API
    WalletOf,           \* organisation and currency of each order and payment
    Copies,             \* distinct event ids the gateway may use for one fact
    MaxAdjustments      \* bound on admin adjustments of one wallet

ASSUME WalletOfAssumption == WalletOf \in [Orders \cup Payments -> Wallets]
ASSUME NoOrderAssumption == NoOrder \notin Orders
ASSUME SumopodAssumption == Sumopod \in BOOLEAN
ASSUME BoundsAssumption == Copies \in Nat /\ MaxAdjustments \in Nat

TopupRef(p) == <<"topup", p>>
RefundRef(p) == <<"refund", p>>
InvoiceRef(o) == <<"invoice", o>>
AdjustmentRef == <<"adjustment", NoOrder>>
LedgerRefs == {TopupRef(p) : p \in Payments} \cup {RefundRef(p) : p \in Payments}
              \cup {InvoiceRef(o) : o \in Orders} \cup {AdjustmentRef}

ASSUME RefsAssumption == Refs = LedgerRefs

VARIABLES
    orders,         \* orders.status and orders.total
    invoices,       \* invoices.status of the order's invoice
    payments,       \* payments rows
    gateway,        \* what really happened to the money at the gateway
    sent,           \* webhook events the gateway has sent, never withdrawn
    events,         \* payment_events: the events recorded as processed
    requests,       \* admin requests between their read and their write
    postCommit,     \* settled invoices whose commission call is still to run
    accrued         \* invoices with a referral commission

settlementVars == <<balance, ledger, orders, invoices, payments, gateway, sent,
                    events, requests, postCommit, accrued>>
rows == <<orders, invoices, payments>>
outside == <<gateway, sent>>

OrderStatus == {"none", "pending_payment", "processing", "completed", "cancelled"}
InvoiceStatus == {"none", "unpaid", "paid", "void"}
\* "failed" stands for failed, expired and cancelled, which are handled alike
PaymentStatus == {"none", "pending", "paid", "failed", "refunded"}
EventStatus == {"paid", "failed", "refunded"}
Events == [payment : Payments, status : EventStatus, copy : 1 .. Copies]
Requests == [op : {"approve"}, id : Payments] \cup [op : {"voidOrder", "voidInvoice"}, id : Orders]
PaymentRows == [status : PaymentStatus, order : Orders \cup {NoOrder}, amount : Int,
                linked : BOOLEAN]

SettlementTypeOK ==
    /\ WalletTypeOK
    /\ orders \in [Orders -> [status : OrderStatus, total : Int]]
    /\ invoices \in [Orders -> InvoiceStatus]
    /\ payments \in [Payments -> PaymentRows]
    /\ gateway \in [Payments -> {"open", "failed", "charged", "refunded"}]
    /\ sent \subseteq Events
    /\ events \subseteq sent
    /\ requests \subseteq Requests
    /\ postCommit \subseteq Orders
    /\ accrued \subseteq Orders

SettlementInit ==
    /\ WalletInit
    /\ orders = [o \in Orders |-> [status |-> "none", total |-> 0]]
    /\ invoices = [o \in Orders |-> "none"]
    /\ payments = [p \in Payments |->
                     [status |-> "none", order |-> NoOrder, amount |-> 0, linked |-> FALSE]]
    /\ gateway = [p \in Payments |-> "open"]
    /\ sent = {} /\ events = {} /\ requests = {} /\ postCommit = {} /\ accrued = {}

-----------------------------------------------------------------------------
\* Orders and their invoices.  handleCreateOrder runs two transactions; a crash
\* or an error between them leaves a pending_payment order without invoice.
CreateOrder(o, total) ==
    /\ orders[o].status = "none"
    /\ total >= 0
    /\ orders' = [orders EXCEPT ![o] = [status |-> "pending_payment", total |-> total]]
    /\ UNCHANGED <<walletVars, invoices, payments, outside, events, requests, postCommit, accrued>>

\* Mutant of CreateInvoiceFromOrder: the order's status is not tested.
CreateInvoiceAnyOrder(o) ==
    /\ orders[o].status # "none" /\ invoices[o] = "none"
    /\ invoices' = [invoices EXCEPT ![o] = "unpaid"]
    /\ UNCHANGED <<walletVars, orders, payments, outside, events, requests, postCommit, accrued>>

CreateInvoiceFromOrder(o) ==
    /\ orders[o].status = "pending_payment"
    /\ orders' = [orders EXCEPT ![o].status = "processing"]
    /\ invoices' = [invoices EXCEPT ![o] = "unpaid"]
    /\ UNCHANGED <<walletVars, payments, outside, events, requests, postCommit, accrued>>

\* UPDATE invoices SET status='void' WHERE order_id=o AND status IN (...)
VoidInvoice(o) == [invoices EXCEPT ![o] = IF @ = "unpaid" THEN "void" ELSE @]

HandleCancelOrder(o) ==
    /\ orders[o].status \in {"pending_payment", "processing"}
    /\ orders' = [orders EXCEPT ![o].status = "cancelled"]
    /\ invoices' = VoidInvoice(o)
    /\ UNCHANGED <<walletVars, payments, outside, events, requests, postCommit, accrued>>

-----------------------------------------------------------------------------
\* Payments.  CreatePayment takes the amount from the invoice, or from the
\* top-up request; with SumoPod the row is inserted before the gateway is
\* called and completed (purpose, external id, link) by a later UPDATE.
CreatePayment(p, order, amount) ==
    /\ payments[p].status = "none"
    /\ amount > 0
    /\ payments' = [payments EXCEPT ![p] =
                      [status |-> "pending", order |-> order, amount |-> amount,
                       linked |-> ~Sumopod]]
    /\ UNCHANGED <<walletVars, orders, invoices, outside, events, requests, postCommit, accrued>>

HandleCreatePayment(p, o) ==
    /\ invoices[o] = "unpaid"
    /\ WalletOf[p] = WalletOf[o]
    /\ CreatePayment(p, o, orders[o].total)

HandleWalletTopup(p, amount) == CreatePayment(p, NoOrder, amount)

LinkSumopodPayment(p) ==
    /\ payments[p].status # "none" /\ ~payments[p].linked
    /\ payments' = [payments EXCEPT ![p].linked = TRUE]
    /\ UNCHANGED <<walletVars, orders, invoices, outside, events, requests, postCommit, accrued>>

\* The gateway: a customer with a link may fail and try again; a charge may be
\* refunded.  Every fact is reported under one or more event ids, each of them
\* delivered at least once, in any order.  Nobody is charged without a link: an
\* answer of SumoPod that is not written to the row is not shown to the customer.
Reports(p, status) == {e \in Events : e.payment = p /\ e.status = status}

GatewayReports(p, from, to, status) ==
    /\ payments[p].linked
    /\ gateway[p] \in from
    /\ gateway' = [gateway EXCEPT ![p] = to]
    /\ sent' = sent \cup Reports(p, status)
    /\ UNCHANGED <<walletVars, rows, events, requests, postCommit, accrued>>

GatewayFail(p) == GatewayReports(p, {"open"}, "failed", "failed")
GatewayCharge(p) == GatewayReports(p, {"open", "failed"}, "charged", "paid")
GatewayRefund(p) == GatewayReports(p, {"charged"}, "refunded", "refunded")

-----------------------------------------------------------------------------
\* ProcessWebhook: one transaction records the event and applies it; an event
\* that is already recorded changes nothing, an error records nothing.  Events of
\* any other status, which are recorded and change nothing, are left out: an event
\* id stands for one fact (SumoPod's is made of the payment and the event type).
Fresh(e) == e \in sent /\ e \notin events
Record(e) == events' = events \cup {e}
SetPayment(p, status) == payments' = [payments EXCEPT ![p].status = status]
IsTopup(p) == payments[p].order = NoOrder

\* Mutant of ApplyPaidTopup: only a pending payment is credited.
ApplyPaidPendingTopup(e) ==
    LET p == e.payment IN
    /\ Fresh(e) /\ e.status = "paid" /\ IsTopup(p)
    /\ payments[p].linked
    /\ Record(e)
    /\ IF payments[p].status = "pending"
       THEN /\ ApplyTransaction(WalletOf[p], "credit", payments[p].amount, TopupRef(p), TopupRef(p))
            /\ SetPayment(p, "paid")
       ELSE UNCHANGED <<walletVars, payments>>
    /\ UNCHANGED <<orders, invoices, outside, requests, postCommit, accrued>>

\* applyPaid on a top-up.  A spent key aborts the transaction, so that the
\* commit fails although applyPaid returned nil: only "ok" takes the step.
ApplyPaidTopup(e) ==
    LET p == e.payment IN
    /\ Fresh(e) /\ e.status = "paid" /\ IsTopup(p)
    /\ payments[p].linked
    /\ ApplyTransaction(WalletOf[p], "credit", payments[p].amount, TopupRef(p), TopupRef(p))
    /\ SetPayment(p, "paid")
    /\ Record(e)
    /\ UNCHANGED <<orders, invoices, outside, requests, postCommit, accrued>>

\* Mutant of ApplyPaidInvoice: an invoice that was voided meanwhile stays so.
ApplyPaidOpenInvoice(e) ==
    LET o == payments[e.payment].order IN
    /\ Fresh(e) /\ e.status = "paid" /\ ~IsTopup(e.payment)
    /\ invoices[o] # "paid"
    /\ invoices' = [invoices EXCEPT ![o] = IF @ = "unpaid" THEN "paid" ELSE @]
    /\ SetPayment(e.payment, "paid")
    /\ Record(e)
    /\ UNCHANGED <<walletVars, orders, outside, requests, postCommit, accrued>>

\* applyPaid on an invoice that is not paid yet: invoice and order are settled
\* whatever state they are in, and the commission is left for after the commit.
ApplyPaidInvoice(e) ==
    LET p == e.payment
        o == payments[p].order
    IN
    /\ Fresh(e) /\ e.status = "paid" /\ ~IsTopup(p)
    /\ invoices[o] # "paid"
    /\ WalletOf[p] = WalletOf[o] /\ payments[p].amount >= orders[o].total
    /\ invoices' = [invoices EXCEPT ![o] = "paid"]
    /\ orders' = [orders EXCEPT ![o].status = "completed"]
    /\ SetPayment(p, "paid")
    /\ Record(e)
    /\ postCommit' = postCommit \cup {o}
    /\ UNCHANGED <<walletVars, outside, requests, accrued>>

\* applyPaid on a paid invoice: only the payment and the event are recorded.
ApplyPaidAgain(e) ==
    /\ Fresh(e) /\ e.status = "paid" /\ ~IsTopup(e.payment)
    /\ invoices[payments[e.payment].order] = "paid"
    /\ SetPayment(e.payment, "paid")
    /\ Record(e)
    /\ UNCHANGED <<walletVars, orders, invoices, outside, requests, postCommit, accrued>>

\* Mutant of ApplyFailed: a late failure overwrites any status.
ApplyFailedAlways(e) ==
    /\ Fresh(e) /\ e.status = "failed"
    /\ Record(e)
    /\ SetPayment(e.payment, "failed")
    /\ UNCHANGED <<walletVars, orders, invoices, outside, requests, postCommit, accrued>>

\* failed, expired, cancelled: only a pending payment is closed.
ApplyFailed(e) ==
    /\ Fresh(e) /\ e.status = "failed"
    /\ Record(e)
    /\ IF payments[e.payment].status = "pending"
       THEN SetPayment(e.payment, "failed")
       ELSE UNCHANGED payments
    /\ UNCHANGED <<walletVars, orders, invoices, outside, requests, postCommit, accrued>>

\* refunded: a top-up is reversed in the wallet when the balance allows it,
\* whether or not it was ever credited; otherwise only the status changes.
ApplyRefunded(e) ==
    LET p == e.payment
        result == Outcome(WalletOf[p], "debit", payments[p].amount, RefundRef(p))
    IN
    /\ Fresh(e) /\ e.status = "refunded"
    /\ SetPayment(p, "refunded")
    /\ Record(e)
    /\ \/ /\ IsTopup(p)
          /\ ApplyTransaction(WalletOf[p], "debit", payments[p].amount, RefundRef(p), RefundRef(p))
       \/ /\ IsTopup(p) /\ result = "insufficient"
          /\ UNCHANGED walletVars
       \/ /\ ~IsTopup(p)
          /\ UNCHANGED walletVars
    /\ UNCHANGED <<orders, invoices, outside, requests, postCommit, accrued>>

ProcessWebhook(e) ==
    \/ ApplyPaidTopup(e) \/ ApplyPaidInvoice(e) \/ ApplyPaidAgain(e)
    \/ ApplyFailed(e) \/ ApplyRefunded(e)

\* After the commit RecordCommissionForInvoice runs in its own transaction; it
\* writes nothing unless the invoice is paid.  It may fail, or the process may
\* die first: the error is only logged.
RecordCommission(o) ==
    /\ o \in postCommit
    /\ postCommit' = postCommit \ {o}
    /\ accrued' = IF invoices[o] = "paid" THEN accrued \cup {o} ELSE accrued
    /\ UNCHANGED <<walletVars, rows, outside, events, requests>>

LosePostCommit(o) ==
    /\ o \in postCommit
    /\ postCommit' = postCommit \ {o}
    /\ UNCHANGED <<walletVars, rows, outside, events, requests, accrued>>

-----------------------------------------------------------------------------
\* Mutant of PayInvoiceWithWallet: a refused debit does not stop the handler.
PayInvoiceUnchecked(o) ==
    /\ invoices[o] = "unpaid"
    /\ \/ ApplyTransaction(WalletOf[o], "debit", orders[o].total, InvoiceRef(o), InvoiceRef(o))
       \/ Outcome(WalletOf[o], "debit", orders[o].total, InvoiceRef(o)) # "ok" /\ UNCHANGED walletVars
    /\ invoices' = [invoices EXCEPT ![o] = "paid"]
    /\ postCommit' = postCommit \cup {o}
    /\ UNCHANGED <<orders, payments, outside, events, requests, accrued>>

\* Mutant of PayInvoiceWithWallet: the ledger entry repeats the old balance.
PayInvoiceStaleEntry(o) ==
    LET w == WalletOf[o] IN
    /\ invoices[o] = "unpaid"
    /\ Outcome(w, "debit", orders[o].total, InvoiceRef(o)) = "ok"
    /\ ledger' = [ledger EXCEPT ![w] = Append(@, [NewEntry(w, "debit", orders[o].total,
                                                 InvoiceRef(o), InvoiceRef(o))
                                                 EXCEPT !.after = balance[w]])]
    /\ balance' = [balance EXCEPT ![w] = After(@, "debit", orders[o].total)]
    /\ invoices' = [invoices EXCEPT ![o] = "paid"]
    /\ postCommit' = postCommit \cup {o}
    /\ UNCHANGED <<orders, payments, outside, events, requests, accrued>>

\* PayInvoiceWithWallet: invoice row and wallet row are locked, the order and
\* its subscription are left alone.
PayInvoiceWithWallet(o) ==
    /\ invoices[o] = "unpaid"
    /\ ApplyTransaction(WalletOf[o], "debit", orders[o].total, InvoiceRef(o), InvoiceRef(o))
    /\ invoices' = [invoices EXCEPT ![o] = "paid"]
    /\ postCommit' = postCommit \cup {o}
    /\ UNCHANGED <<orders, payments, outside, events, requests, accrued>>

Adjustments(w) == {i \in DOMAIN ledger[w] : ledger[w][i].ref = AdjustmentRef}

AdminAdjustWallet(w, dir, amount) ==
    /\ Cardinality(Adjustments(w)) < MaxAdjustments
    /\ ApplyTransaction(w, dir, amount, AdjustmentRef, NoKey)
    /\ UNCHANGED <<rows, outside, events, requests, postCommit, accrued>>

\* The admin handlers read the status, answer an error or go on, and write later.
Begin(op, id) ==
    /\ requests' = requests \cup {[op |-> op, id |-> id]}
    /\ UNCHANGED <<walletVars, rows, outside, events, postCommit, accrued>>

Finish(op, id) ==
    /\ [op |-> op, id |-> id] \in requests
    /\ requests' = requests \ {[op |-> op, id |-> id]}
    /\ UNCHANGED <<outside, events, postCommit, accrued>>

AdminApproveRead(p) == payments[p].status = "pending" /\ Begin("approve", p)

\* Mutant of ApproveKey: a manual approval books without a key.
ApproveKeyless(p) == NoKey

\* The key the approval writes with is the one the webhook uses.
ApproveKey(p) == TopupRef(p)

AdminApproveTopup(p) ==
    /\ IsTopup(p)
    /\ Finish("approve", p)
    /\ ApplyTransaction(WalletOf[p], "credit", payments[p].amount, TopupRef(p), ApproveKey(p))
    /\ SetPayment(p, "paid")
    /\ UNCHANGED <<orders, invoices>>

\* The key is spent: the swallowed conflict has aborted the transaction.
AdminApproveAborted(p) ==
    /\ IsTopup(p)
    /\ Finish("approve", p)
    /\ Outcome(WalletOf[p], "credit", payments[p].amount, ApproveKey(p)) = "conflict"
    /\ UNCHANGED <<walletVars, rows>>

AdminApproveInvoice(p) ==
    /\ ~IsTopup(p)
    /\ Finish("approve", p)
    /\ SetPayment(p, "paid")
    /\ invoices' = [invoices EXCEPT ![payments[p].order] = IF @ = "unpaid" THEN "paid" ELSE @]
    /\ UNCHANGED <<walletVars, orders>>

AdminVoidOrderRead(o) == orders[o].status \notin {"none", "cancelled"} /\ Begin("voidOrder", o)

AdminVoidOrder(o) ==
    /\ Finish("voidOrder", o)
    /\ orders' = [orders EXCEPT ![o].status = "cancelled"]
    /\ invoices' = VoidInvoice(o)
    /\ UNCHANGED <<walletVars, payments>>

AdminVoidInvoiceRead(o) == invoices[o] = "unpaid" /\ Begin("voidInvoice", o)

AdminVoidInvoice(o) ==
    /\ Finish("voidInvoice", o)
    /\ invoices' = [invoices EXCEPT ![o] = "void"]
    /\ UNCHANGED <<walletVars, orders, payments>>

-----------------------------------------------------------------------------
OrderStep(o) ==
    \/ \E total \in Amounts : CreateOrder(o, total)
    \/ CreateInvoiceFromOrder(o)
    \/ HandleCancelOrder(o)
    \/ PayInvoiceWithWallet(o)
    \/ RecordCommission(o) \/ LosePostCommit(o)
    \/ AdminVoidOrderRead(o) \/ AdminVoidOrder(o)
    \/ AdminVoidInvoiceRead(o) \/ AdminVoidInvoice(o)

PaymentStep(p) ==
    \/ \E o \in Orders : HandleCreatePayment(p, o)
    \/ \E amount \in Amounts : HandleWalletTopup(p, amount)
    \/ LinkSumopodPayment(p)
    \/ GatewayFail(p) \/ GatewayCharge(p) \/ GatewayRefund(p)
    \/ AdminApproveRead(p)
    \/ AdminApproveTopup(p) \/ AdminApproveAborted(p) \/ AdminApproveInvoice(p)

SettlementNext ==
    \/ \E o \in Orders : OrderStep(o)
    \/ \E p \in Payments : PaymentStep(p)
    \/ \E e \in Events : ProcessWebhook(e)
    \/ \E w \in Wallets, dir \in Directions, amount \in Amounts : AdminAdjustWallet(w, dir, amount)

SettlementSpec == SettlementInit /\ [][SettlementNext]_settlementVars

\* The gateway retries the report of a charge until it is answered 200 (nothing
\* is assumed of its other reports), and a committed webhook goes on to its
\* commission call unless the process dies.
SettlementFairness ==
    /\ \A e \in Events : e.status = "paid" => WF_settlementVars(ProcessWebhook(e))
    /\ \A o \in Orders : WF_settlementVars(RecordCommission(o))

LiveSettlementSpec == SettlementSpec /\ SettlementFairness

-----------------------------------------------------------------------------
Booked(w, dir, ref) ==
    {i \in DOMAIN ledger[w] : ledger[w][i].ref = ref /\ ledger[w][i].dir = dir}
Credited(p) == Booked(WalletOf[p], "credit", TopupRef(p)) # {}

\* However often and under however many event ids a gateway reports a payment,
\* and whether or not an admin approves it as well, a top-up is credited at most
\* once and reversed at most once in a wallet (ProcessWebhook "same event_id
\* processed twice does not double-credit", adminApprovePayment).
TopupBookedOnce ==
    \A w \in Wallets : \A i, j \in DOMAIN ledger[w] :
        /\ ledger[w][i].ref = ledger[w][j].ref
        /\ ledger[w][i].ref # AdjustmentRef
        => i = j

\* A credited top-up is never shown as failed or still pending, in whatever
\* order the failed, paid and refunded events arrive (ProcessWebhook).
CreditImpliesPaid ==
    \A p \in Payments : Credited(p) => payments[p].status \in {"paid", "refunded"}

\* No invoice is marked paid for free: a collected (possibly later refunded)
\* payment of at least its total, or a wallet debit of exactly its total, stands
\* behind it (applyPaid, adminApprovePayment, PayInvoiceWithWallet).
PaidInvoiceIsBacked ==
    \A o \in Orders : invoices[o] = "paid" =>
        \/ \E p \in Payments : /\ payments[p].order = o
                               /\ payments[p].status \in {"paid", "refunded"}
                               /\ payments[p].amount >= orders[o].total
        \/ \E i \in Booked(WalletOf[o], "debit", InvoiceRef(o)) :
              ledger[WalletOf[o]][i].amount = orders[o].total

\* A cancelled order never leaves an invoice behind that can still be paid
\* (handleCancelOrder, adminVoidOrder against CreateInvoiceFromOrder).
CancelledNotPayable ==
    \A o \in Orders : orders[o].status = "cancelled" => invoices[o] # "unpaid"

\* A top-up the customer was charged for is eventually credited, also when a
\* failure was reported for an earlier attempt (applyPaid).
ChargedTopupIsCredited ==
    \A p \in Payments : (gateway[p] = "charged" /\ IsTopup(p)) ~> Credited(p)

\* A reported charge for an invoice eventually finds that invoice paid, however
\* the report interleaves with cancellations, voids and wallet payments
\* (applyPaid).
ChargedInvoiceIsPaid ==
    \A e \in Events :
        (e \in sent \ events /\ e.status = "paid" /\ ~IsTopup(e.payment))
            ~> \E o \in Orders : payments[e.payment].order = o /\ invoices[o] = "paid"

-----------------------------------------------------------------------------
(* What comments and messages of the code say and the code does not do.    *)

\* "cap the reversal at the current balance": a refund of a credited top-up
\* takes back what is left of it (payment/service.go, ProcessWebhook).
RefundIsCapped ==
    [][\A e \in Events :
         LET w == WalletOf[e.payment]
             amount == payments[e.payment].amount
         IN  (/\ e.status = "refunded" /\ e \in events' \ events
              /\ Credited(e.payment)
              /\ Booked(w, "debit", RefundRef(e.payment)) = {})
             => balance'[w] = balance[w] - (IF amount <= balance[w] THEN amount ELSE balance[w])
      ]_settlementVars

\* "If this payment was a wallet topup that was already credited, the gateway
\* refund must be reversed": only a credited top-up is ever debited.
OnlyCreditedIsReversed ==
    \A p \in Payments :
        Booked(WalletOf[p], "debit", RefundRef(p)) # {} => Credited(p)

\* "a paid invoice cannot be voided" (adminVoidInvoice).
PaidInvoiceNotVoided ==
    [][\A o \in Orders : invoices[o] = "paid" => invoices'[o] # "void"]_settlementVars

\* "Paid or completed orders are final" (handleCancelOrder).
PaidOrderNotCancelled ==
    [][\A o \in Orders : invoices[o] = "paid" => ~HandleCancelOrder(o)]_settlementVars

\* "another webhook event already settled this invoice": a charge that meets a
\* paid invoice repeats a payment that settled it, and is never a second
\* collection (applyPaid).
PaidAgainIsARepeat ==
    [][\A e \in Events : ApplyPaidAgain(e) =>
          \E p \in Payments : /\ payments[p].order = payments[e.payment].order
                              /\ payments[p].status \in {"paid", "refunded"}
      ]_settlementVars

\* "duplicate credit attempt; already settled": a webhook for a top-up that is
\* credited already is accepted like any other (applyPaid).
EveryWebhookIsAccepted ==
    \A e \in Events : e.status = "paid" /\ e \in sent ~> e \in events

\* "A failure is logged so it isn't silently lost and can be re-accrued by
\* re-processing the invoice": the commission of a settled invoice is recorded
\* in the end (ProcessWebhook).
CommissionIsAccrued ==
    \A o \in Orders : o \in postCommit ~> o \in accrued
=============================================================================

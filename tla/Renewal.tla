------------------------------ MODULE Renewal ------------------------------
(***************************************************************************)
(* Subscriptions and their renewal invoices.                               *)
(*   subscription/service.go  Activate, Cancel, ProcessTransitions,        *)
(*                            AdvancePeriodAfterPayment, Suspend, Unsuspend*)
(*   billing/renewal.go       CreateRenewalInvoice                         *)
(*   billing/products.go      Attach/DetachProductSubscription             *)
(*   cmd/worker/main.go       generateInvoices                             *)
(*                                                                         *)
(* The hourly generate_invoice job is a pass over all subscriptions in one *)
(* transaction, followed by one transaction per due subscription: the list *)
(* of due ones lives only in the worker's memory (`due').  At READ         *)
(* COMMITTED each statement of the pass sees what was committed before it, *)
(* so the pass is two steps: the statements that change rows in place, and *)
(* the selection of the due ones with their update.  A pass that rolls     *)
(* back takes neither step.  A webhook that settles a renewal invoice      *)
(* advances the subscription in a second transaction, after its commit     *)
(* (`postCommit').                                                         *)
(*                                                                         *)
(* A renewal order carries the key renew-<subscription>-<period start>, so *)
(* invoices are indexed by the subscription and the number of the period.  *)
(* next_invoice_at is written only together with current_period_end and is *)
(* always equal to it: both are the field `end'.                           *)
(***************************************************************************)
EXTENDS Integers

CONSTANTS
    Subs,           \* subscriptions with a billing period (not one_time)
    Workers,        \* worker processes running generate_invoice jobs
    PeriodLength,   \* length of a billing period
    Grace,          \* SUBSCRIPTION_GRACE_DAYS
    ExpiryDelay,    \* the 30 days of ProcessTransitions
    Horizon,        \* bound on the clock
    MaxPeriods,     \* bound on the periods of one subscription
    ManualHold,     \* whether something calls Suspend and Unsuspend
    Failures        \* whether calls may fail and processes may die

ASSUME DurationsAssumption ==
    /\ PeriodLength \in Nat \ {0}
    /\ Grace \in Nat /\ ExpiryDelay \in Nat
ASSUME RenewalBoundsAssumption == Horizon \in Nat /\ MaxPeriods \in Nat
ASSUME SwitchesAssumption == ManualHold \in BOOLEAN /\ Failures \in BOOLEAN

VARIABLES
    now,            \* time.Now
    subs,           \* subscriptions rows
    invoices,       \* status of the renewal invoice of each period
    pass,           \* per worker: the time its open pass runs at
    due,            \* per worker: flagged, renewal invoice not yet created
    postCommit      \* settled by a webhook, period not yet advanced

renewalVars == <<now, subs, invoices, pass, due, postCommit>>

NoGrace == -1       \* grace_until IS NULL; times are natural numbers
NoPass == -1
Periods == 0 .. MaxPeriods
SubStatus == {"none", "active", "past_due", "suspended", "cancelled", "expired"}
\* Two history fields: `inTime', the flag was set before the period ended;
\* `held', the subscription was suspended or unsuspended by hand.
SubRows == [status : SubStatus, period : Periods, end : Nat,
            grace : Nat \cup {NoGrace}, cancel : BOOLEAN, inTime : BOOLEAN,
            held : BOOLEAN]
RenewalStatus == {"none", "unpaid", "paid", "void"}

RenewalTypeOK ==
    /\ now \in Nat
    /\ subs \in [Subs -> SubRows]
    /\ invoices \in [Subs -> [Periods -> RenewalStatus]]
    /\ pass \in [Workers -> Nat \cup {NoPass}]
    /\ due \in [Workers -> SUBSET Subs]
    /\ postCommit \subseteq Subs \X Periods

RenewalInit ==
    /\ now = 0
    /\ subs = [s \in Subs |-> [status |-> "none", period |-> 0, end |-> 0,
                               grace |-> NoGrace, cancel |-> FALSE, inTime |-> FALSE,
                               held |-> FALSE]]
    /\ invoices = [s \in Subs |-> [n \in Periods |-> "none"]]
    /\ pass = [w \in Workers |-> NoPass]
    /\ due = [w \in Workers |-> {}]
    /\ postCommit = {}

Live == {"active", "past_due", "suspended"}

-----------------------------------------------------------------------------
\* Operations of the customer.

Activate(s) ==
    /\ subs[s].status = "none"
    /\ subs' = [subs EXCEPT ![s] = [@ EXCEPT !.status = "active", !.end = now + PeriodLength]]
    /\ UNCHANGED <<now, invoices, pass, due, postCommit>>

\* The row after a cancellation, wherever it comes from.
Cancelled(r) == [r EXCEPT !.status = "cancelled", !.cancel = FALSE, !.grace = NoGrace,
                          !.inTime = FALSE]

CancelNow(s) ==
    /\ subs[s].status \in Live
    /\ subs' = [subs EXCEPT ![s] = Cancelled(@)]
    /\ UNCHANGED <<now, invoices, pass, due, postCommit>>

CancelAtPeriodEnd(s) ==
    /\ subs[s].status \in {"active", "past_due"}
    /\ subs' = [subs EXCEPT ![s] = [@ EXCEPT !.cancel = TRUE, !.inTime = subs[s].inTime \/ subs[s].end > now]]
    /\ UNCHANGED <<now, invoices, pass, due, postCommit>>

-----------------------------------------------------------------------------
\* ProcessTransitions: four statements, in this order, at one time `t'.

\* Mutant of Lapse: the pass forgets past_due subscriptions.
LapseNever(r, t) == r

Lapse(r, t) ==
    IF r.status = "past_due" /\ r.grace # NoGrace /\ r.grace < t
    THEN [r EXCEPT !.status = "suspended"] ELSE r

\* Mutant of Expire: the 30 days are left out.
ExpireAtOnce(r, t) ==
    IF r.status = "suspended" /\ r.grace # NoGrace /\ r.grace < t
    THEN [r EXCEPT !.status = "expired"] ELSE r

Expire(r, t) ==
    IF r.status = "suspended" /\ r.grace # NoGrace /\ r.grace < t - ExpiryDelay
    THEN [r EXCEPT !.status = "expired"] ELSE r

CloseFlagged(r, t) ==
    IF r.status = "active" /\ r.cancel /\ r.end <= t THEN Cancelled(r) ELSE r

\* Mutant of Sweep: subscriptions cancelled at period end are closed last,
\* after the due ones have been flagged.
SweepFlagsFirst(r, t) == Expire(Lapse(r, t), t)

Sweep(r, t) == CloseFlagged(Expire(Lapse(r, t), t), t)

IsDue(r, t) == r.status = "active" /\ r.end <= t

\* Mutant of Flag: a due subscription is listed but stays active.
FlagKeepsActive(r, t) == [r EXCEPT !.grace = t + Grace]

Flag(r, t) == [r EXCEPT !.status = "past_due", !.grace = t + Grace]

BeginTransitions(w) ==
    /\ pass[w] = NoPass /\ due[w] = {}
    /\ pass' = [pass EXCEPT ![w] = now]
    /\ subs' = [s \in Subs |-> Sweep(subs[s], now)]
    /\ UNCHANGED <<now, invoices, due, postCommit>>

\* SKIP LOCKED leaves out any due row that another transaction holds.
FlagDue(w) ==
    /\ pass[w] # NoPass
    /\ pass' = [pass EXCEPT ![w] = NoPass]
    /\ \E found \in SUBSET {s \in Subs : IsDue(subs[s], pass[w])} :
          /\ subs' = [s \in Subs |-> IF s \in found THEN Flag(subs[s], pass[w]) ELSE subs[s]]
          /\ due' = [due EXCEPT ![w] = found]
    /\ UNCHANGED <<now, invoices, postCommit>>

Listed(w, s) == s \in due[w] /\ due' = [due EXCEPT ![w] = @ \ {s}]

\* The renewal order and its invoice, unless the key is taken; the status of
\* the subscription is not looked at.
CreateRenewalInvoice(w, s) ==
    LET n == subs[s].period IN
    /\ Listed(w, s)
    /\ invoices' = [invoices EXCEPT ![s][n] = IF @ = "none" THEN "unpaid" ELSE @]
    /\ UNCHANGED <<now, subs, pass, postCommit>>

\* generateInvoices logs an error and goes on with the next subscription.
RenewalInvoiceFails(w, s) ==
    /\ Failures
    /\ Listed(w, s)
    /\ UNCHANGED <<now, subs, invoices, pass, postCommit>>

\* The worker stops between the pass and the invoices.
WorkerStops(w) ==
    /\ Failures
    /\ due[w] # {}
    /\ due' = [due EXCEPT ![w] = {}]
    /\ UNCHANGED <<now, subs, invoices, pass, postCommit>>

-----------------------------------------------------------------------------
\* Payment of a renewal invoice: Settlement has the details.

SetInvoice(s, n, from, to) ==
    /\ invoices[s][n] \in from
    /\ invoices' = [invoices EXCEPT ![s][n] = to]
    /\ UNCHANGED <<now, subs, pass, due>>

\* Mutant of WebhookSettles: a second event for a paid invoice asks for another
\* advance.
WebhookSettlesAgain(s, n) ==
    /\ SetInvoice(s, n, {"unpaid", "void", "paid"}, "paid")
    /\ postCommit' = postCommit \cup {<<s, n>>}

\* applyPaid: anything but a paid invoice is settled, a void one included.
WebhookSettles(s, n) ==
    /\ SetInvoice(s, n, {"unpaid", "void"}, "paid")
    /\ postCommit' = postCommit \cup {<<s, n>>}

PayRenewalWithWallet(s, n) == SetInvoice(s, n, {"unpaid"}, "paid") /\ UNCHANGED postCommit
AdminApproveRenewal(s, n) == SetInvoice(s, n, {"unpaid"}, "paid") /\ UNCHANGED postCommit

\* Mutant of VoidRenewal: the invoice gets a status only orders have.
VoidRenewalAsCancelled(s, n) == SetInvoice(s, n, {"unpaid"}, "cancelled") /\ UNCHANGED postCommit

VoidRenewal(s, n) == SetInvoice(s, n, {"unpaid"}, "void") /\ UNCHANGED postCommit

\* The old end starts the new period, whatever the time is.
Advanced(r) == [r EXCEPT !.status = "active", !.period = r.period + 1,
                         !.end = r.end + PeriodLength,
                         !.grace = NoGrace, !.cancel = FALSE, !.inTime = FALSE]

\* A subscription that is cancelled or expired by now is refused, and the error
\* is only logged.
AdvancePeriodAfterPayment(s, n) ==
    /\ <<s, n>> \in postCommit
    /\ subs[s].period < MaxPeriods
    /\ postCommit' = postCommit \ {<<s, n>>}
    /\ subs' = [subs EXCEPT ![s] = IF @.status \in Live THEN Advanced(@) ELSE @]
    /\ UNCHANGED <<now, invoices, pass, due>>

\* The call fails, or the process dies after the webhook's commit.
AdvanceLost(s, n) ==
    /\ Failures
    /\ <<s, n>> \in postCommit
    /\ postCommit' = postCommit \ {<<s, n>>}
    /\ UNCHANGED <<now, subs, invoices, pass, due>>

\* Suspend leaves the grace deadline, Unsuspend clears it.
Suspend(s) ==
    /\ ManualHold
    /\ subs[s].status \in Live
    /\ subs' = [subs EXCEPT ![s] = [@ EXCEPT !.status = "suspended", !.held = TRUE]]
    /\ UNCHANGED <<now, invoices, pass, due, postCommit>>

Unsuspend(s) ==
    /\ ManualHold
    /\ subs[s].status = "suspended"
    /\ subs' = [subs EXCEPT ![s] = [@ EXCEPT !.status = "active", !.grace = NoGrace,
                                              !.held = TRUE]]
    /\ UNCHANGED <<now, invoices, pass, due, postCommit>>

Tick ==
    /\ now < Horizon
    /\ now' = now + 1
    /\ UNCHANGED <<subs, invoices, pass, due, postCommit>>

-----------------------------------------------------------------------------
InvoiceStep(s, n) ==
    \/ WebhookSettles(s, n) \/ PayRenewalWithWallet(s, n) \/ AdminApproveRenewal(s, n)
    \/ VoidRenewal(s, n)
    \/ AdvancePeriodAfterPayment(s, n) \/ AdvanceLost(s, n)

RenewalNext ==
    \/ Tick
    \/ \E s \in Subs : \/ Activate(s) \/ CancelNow(s) \/ CancelAtPeriodEnd(s)
                       \/ Suspend(s) \/ Unsuspend(s)
    \/ \E s \in Subs, n \in Periods : InvoiceStep(s, n)
    \/ \E w \in Workers : BeginTransitions(w) \/ FlagDue(w) \/ WorkerStops(w)
    \/ \E w \in Workers, s \in Subs : CreateRenewalInvoice(w, s) \/ RenewalInvoiceFails(w, s)

RenewalSpec == RenewalInit /\ [][RenewalNext]_renewalVars

\* Time passes, some worker keeps running the hourly job to its end, and a
\* process that has committed a webhook makes its next call.
RenewalFairness ==
    /\ WF_renewalVars(Tick)
    /\ WF_renewalVars(\E w \in Workers : BeginTransitions(w))
    /\ \A w \in Workers : WF_renewalVars(FlagDue(w))
    /\ \A w \in Workers, s \in Subs : WF_renewalVars(CreateRenewalInvoice(w, s))
    /\ \A s \in Subs, n \in Periods : WF_renewalVars(AdvancePeriodAfterPayment(s, n))

LiveRenewalSpec == RenewalSpec /\ RenewalFairness

-----------------------------------------------------------------------------
\* Nobody gets a free period: every period a subscription has moved past is paid
\* for, however webhooks, voids, lost calls and passes of several workers
\* interleave (applyPaid's alreadyPaid test and AdvancePeriodAfterPayment).
NoFreePeriod ==
    \A s \in Subs : \A n \in Periods : n < subs[s].period => invoices[s][n] = "paid"

\* A subscription is not given up early: one that expired has had its whole
\* period, the grace time and the thirty days of suspension
\* (ProcessTransitions: grace_until doubles as the suspension start).
NoEarlyExpiry ==
    \A s \in Subs :
        subs[s].status = "expired" => now > subs[s].end + Grace + ExpiryDelay

\* No renewal is billed before the period it follows has ended, although a
\* worker acts on a list that may be old (ProcessTransitions, generateInvoices).
\* A subscription unsuspended by hand is left out: it may be listed twice.
NotBilledEarly ==
    \A s \in Subs : ~subs[s].held =>
        \A n \in Periods :
            invoices[s][n] # "none" =>
                n < subs[s].period \/ (n = subs[s].period /\ subs[s].end <= now)

\* A customer who asks to leave before the period has ended is not billed for
\* another one: that subscription never becomes past due, whichever passes of
\* several workers the request falls between (the order of ProcessTransitions'
\* statements and the one time they all use), unless it was held by hand.
FlaggedIsNotBilled ==
    \A s \in Subs : subs[s].inTime /\ ~subs[s].held => subs[s].status # "past_due"

\* Nothing stays overdue for ever: a subscription with a grace deadline that ends
\* within the horizon is paid, cancelled or expired in the end
\* (ProcessTransitions runs every hour).
OverdueIsResolved ==
    \A s \in Subs :
        (/\ subs[s].status \in {"past_due", "suspended"}
         /\ subs[s].grace # NoGrace /\ subs[s].grace + ExpiryDelay < Horizon)
            ~> subs[s].status \notin {"past_due", "suspended"}

-----------------------------------------------------------------------------
(* What comments of the code say and the code does not do.                 *)

\* "the next tick re-flags it because it stays past_due": a subscription whose
\* renewal invoice could not be created gets it later (generateInvoices).
PastDueIsInvoiced ==
    \A s \in Subs : \A n \in Periods :
        (subs[s].status = "past_due" /\ subs[s].period = n)
            ~> invoices[s][n] # "none" \/ subs[s].status = "cancelled"

\* "is retried by the next reconciliation pass": a settled renewal advances its
\* subscription in the end, unless that is cancelled (ProcessWebhook).
SettledRenewalAdvances ==
    \A s \in Subs : \A n \in 0 .. MaxPeriods - 1 :
        <<s, n>> \in postCommit ~> subs[s].period > n \/ subs[s].status = "cancelled"

\* "calls AdvancePeriodAfterPayment once paid": a renewal paid in time advances
\* its subscription, unless that is cancelled (ProcessTransitions).
PaidRenewalAdvances ==
    \A s \in Subs : \A n \in 0 .. MaxPeriods - 1 :
        (subs[s].status = "past_due" /\ subs[s].period = n /\ invoices[s][n] = "paid")
            ~> subs[s].period > n \/ subs[s].status = "cancelled"

\* "the flag is recorded and the subscription stays active until
\* ProcessTransitions closes the period": a subscription that is to be cancelled
\* at its period's end is not left to expire instead (Cancel).
FlagIsHonoured ==
    \A s \in Subs : subs[s].cancel => subs[s].status # "expired"
=============================================================================

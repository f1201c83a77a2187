--------------------------- MODULE RenewalProofs ---------------------------
(***************************************************************************)
(* What Renewal promises for every number of subscriptions, workers and    *)
(* periods and for all durations.                                          *)
(***************************************************************************)
EXTENDS Renewal, TLAPS

-----------------------------------------------------------------------------
(* Type correctness.                                                       *)

\* A pass changes a row only into a row (ProcessTransitions).
LEMMA RowsStayRows ==
    ASSUME NEW r \in SubRows, NEW t \in Nat
    PROVE  /\ Sweep(r, t) \in SubRows
           /\ Flag(r, t) \in SubRows
           /\ Cancelled(r) \in SubRows
  <1> USE DEF SubRows, SubStatus
  <1>1. Cancelled(r) \in SubRows
    BY DEF Cancelled
  <1>2. Flag(r, t) \in SubRows
    <2>1. ASSUME NEW g \in Nat PROVE [r EXCEPT !.status = "past_due", !.grace = g] \in SubRows
      OBVIOUS
    <2>2. t + Grace \in Nat
      BY DurationsAssumption
    <2> QED  BY <2>1, <2>2 DEF Flag
  <1>3. Lapse(r, t) \in SubRows
    BY DEF Lapse
  <1>4. ASSUME NEW q \in SubRows PROVE Expire(q, t) \in SubRows
    BY DEF Expire
  <1>5. ASSUME NEW q \in SubRows PROVE CloseFlagged(q, t) \in SubRows
    BY DEF CloseFlagged, Cancelled
  <1> QED  BY <1>1, <1>2, <1>3, <1>4, <1>5 DEF Sweep

\* The updates of single fields keep a row a row, too (Activate, Cancel, Suspend,
\* Unsuspend, AdvancePeriodAfterPayment).
LEMMA UpdatedRows ==
    ASSUME NEW r \in SubRows
    PROVE  /\ \A e \in Nat : [r EXCEPT !.status = "active", !.end = e] \in SubRows
           /\ \A b \in BOOLEAN : [r EXCEPT !.cancel = TRUE, !.inTime = b] \in SubRows
           /\ [r EXCEPT !.status = "suspended", !.held = TRUE] \in SubRows
           /\ [r EXCEPT !.status = "active", !.grace = NoGrace, !.held = TRUE] \in SubRows
           /\ \A k \in Periods, e \in Nat :
                [r EXCEPT !.status = "active", !.period = k, !.end = e, !.grace = NoGrace,
                          !.cancel = FALSE, !.inTime = FALSE] \in SubRows
  BY DEF SubRows, SubStatus

\* An invoice takes one of its statuses.
LEMMA UpdatedInvoices ==
    ASSUME NEW f \in [Subs -> [Periods -> RenewalStatus]],
           NEW s \in Subs, NEW n \in Periods, NEW to \in RenewalStatus
    PROVE  [f EXCEPT ![s][n] = to] \in [Subs -> [Periods -> RenewalStatus]]
  OBVIOUS

\* Every step keeps the variables in their types.
LEMMA TypeStep == RenewalTypeOK /\ [RenewalNext]_renewalVars => RenewalTypeOK'
  <1> SUFFICES ASSUME RenewalTypeOK, [RenewalNext]_renewalVars PROVE RenewalTypeOK'
    OBVIOUS
  <1> USE DEF RenewalTypeOK
  <1>1. CASE Tick
    BY <1>1 DEF Tick
  <1>2. ASSUME NEW s \in Subs, Activate(s) PROVE RenewalTypeOK'
    <2>1. now + PeriodLength \in Nat
      BY DurationsAssumption
    <2>2. [subs[s] EXCEPT !.status = "active", !.end = now + PeriodLength] \in SubRows
      BY <2>1, UpdatedRows
    <2> QED  BY <1>2, <2>2 DEF Activate
  <1>3. ASSUME NEW s \in Subs, CancelNow(s) PROVE RenewalTypeOK'
    BY <1>3, RowsStayRows DEF CancelNow
  <1>4. ASSUME NEW s \in Subs, CancelAtPeriodEnd(s) PROVE RenewalTypeOK'
    <2> DEFINE b == subs[s].inTime \/ subs[s].end > now
               row == [subs[s] EXCEPT !.cancel = TRUE, !.inTime = b]
    <2>1. b \in BOOLEAN
      OBVIOUS
    <2>2. subs' = [subs EXCEPT ![s] = row] /\ UNCHANGED <<now, invoices, pass, due, postCommit>>
      BY <1>4 DEF CancelAtPeriodEnd
    <2> HIDE DEF b
    <2>3. row \in SubRows
      BY <2>1, UpdatedRows
    <2> HIDE DEF row
    <2> QED  BY <2>2, <2>3
  <1>5. ASSUME NEW s \in Subs, Suspend(s) \/ Unsuspend(s) PROVE RenewalTypeOK'
    <2>1. subs' \in [Subs -> SubRows]
      <3>1. /\ [subs[s] EXCEPT !.status = "suspended", !.held = TRUE] \in SubRows
            /\ [subs[s] EXCEPT !.status = "active", !.grace = NoGrace, !.held = TRUE] \in SubRows
        BY UpdatedRows
      <3> QED  BY <1>5, <3>1 DEF Suspend, Unsuspend
    <2> QED  BY <1>5, <2>1 DEF Suspend, Unsuspend
  <1>6. ASSUME NEW s \in Subs, NEW n \in Periods,
               \/ WebhookSettles(s, n) \/ PayRenewalWithWallet(s, n)
               \/ AdminApproveRenewal(s, n) \/ VoidRenewal(s, n)
        PROVE  RenewalTypeOK'
    <2>1. \E to \in RenewalStatus : invoices' = [invoices EXCEPT ![s][n] = to]
      BY <1>6 DEF WebhookSettles, PayRenewalWithWallet, AdminApproveRenewal, VoidRenewal,
                  SetInvoice, RenewalStatus
    <2>2. invoices' \in [Subs -> [Periods -> RenewalStatus]]
      BY <2>1, UpdatedInvoices
    <2>3. UNCHANGED <<now, subs, pass, due>> /\ postCommit' \subseteq postCommit \cup {<<s, n>>}
      BY <1>6 DEF WebhookSettles, PayRenewalWithWallet, AdminApproveRenewal, VoidRenewal,
                  SetInvoice
    <2> QED  BY <2>2, <2>3
  <1>7. ASSUME NEW s \in Subs, NEW n \in Periods, AdvancePeriodAfterPayment(s, n)
        PROVE  RenewalTypeOK'
    <2>1. subs' \in [Subs -> SubRows]
      <3>1. subs[s].period \in Periods /\ subs[s].end \in Nat
        BY DEF SubRows
      <3>2. subs[s].period + 1 \in Periods /\ subs[s].end + PeriodLength \in Nat
        BY <1>7, <3>1, DurationsAssumption, RenewalBoundsAssumption
           DEF AdvancePeriodAfterPayment, Periods
      <3>3. Advanced(subs[s]) \in SubRows
        BY <3>2, UpdatedRows DEF Advanced
      <3> QED  BY <1>7, <3>3 DEF AdvancePeriodAfterPayment
    <2> QED  BY <1>7, <2>1 DEF AdvancePeriodAfterPayment
  <1>8. ASSUME NEW s \in Subs, NEW n \in Periods, AdvanceLost(s, n) PROVE RenewalTypeOK'
    BY <1>8 DEF AdvanceLost
  <1>9. ASSUME NEW w \in Workers, BeginTransitions(w) PROVE RenewalTypeOK'
    BY <1>9, RowsStayRows DEF BeginTransitions
  <1>10. ASSUME NEW w \in Workers, FlagDue(w) PROVE RenewalTypeOK'
    <2>1. pass[w] \in Nat
      BY <1>10 DEF FlagDue, NoPass
    <2>2. PICK found \in SUBSET Subs :
            /\ subs' = [q \in Subs |-> IF q \in found THEN Flag(subs[q], pass[w]) ELSE subs[q]]
            /\ due' = [due EXCEPT ![w] = found]
      BY <1>10 DEF FlagDue
    <2>3. subs' \in [Subs -> SubRows]
      BY <2>1, <2>2, RowsStayRows
    <2>4. due' \in [Workers -> SUBSET Subs]
      BY <2>2
    <2> QED  BY <1>10, <2>3, <2>4 DEF FlagDue
  <1>11. ASSUME NEW w \in Workers, WorkerStops(w) PROVE RenewalTypeOK'
    BY <1>11 DEF WorkerStops
  <1>12. ASSUME NEW w \in Workers, NEW s \in Subs,
                CreateRenewalInvoice(w, s) \/ RenewalInvoiceFails(w, s)
         PROVE  RenewalTypeOK'
    <2>1. subs[s].period \in Periods
      BY DEF SubRows
    <2>2. CASE CreateRenewalInvoice(w, s)
      <3> DEFINE n == subs[s].period
                 to == IF invoices[s][n] = "none" THEN "unpaid" ELSE invoices[s][n]
      <3>1. invoices' = [invoices EXCEPT ![s][n] = to]
        BY <2>1, <2>2 DEF CreateRenewalInvoice
      <3>2. to \in RenewalStatus
        BY <2>1 DEF RenewalStatus
      <3> HIDE DEF n, to
      <3>3. invoices' \in [Subs -> [Periods -> RenewalStatus]]
        BY <2>1, <3>1, <3>2, UpdatedInvoices DEF n
      <3> QED  BY <2>2, <3>3 DEF CreateRenewalInvoice, Listed
    <2>3. CASE RenewalInvoiceFails(w, s)
      BY <2>3 DEF RenewalInvoiceFails, Listed
    <2> QED  BY <1>12, <2>2, <2>3
  <1>13. CASE UNCHANGED renewalVars
    BY <1>13 DEF renewalVars
  <1> QED
    BY <1>1, <1>2, <1>3, <1>4, <1>5, <1>6, <1>7, <1>8, <1>9, <1>10, <1>11, <1>12, <1>13
       DEF RenewalNext, InvoiceStep

\* Initially the variables have their types.
LEMMA TypeInit == RenewalInit => RenewalTypeOK
  BY RenewalBoundsAssumption
     DEF RenewalInit, RenewalTypeOK, SubRows, SubStatus, Periods, RenewalStatus, NoGrace, NoPass

\* The variables of subscriptions, renewal invoices and workers' lists keep
\* their types, whatever the number of subscriptions, periods and workers.
THEOREM RenewalTypeCorrect == RenewalSpec => []RenewalTypeOK
  BY TypeInit, TypeStep, PTL DEF RenewalSpec

-----------------------------------------------------------------------------
(* What a pass does to a row.                                              *)

\* A pass changes neither the period nor its end; it may clear the grace
\* deadline; an active or past-due row it leaves alone, or it closes it
\* (ProcessTransitions).
LEMMA SweptRow ==
    ASSUME NEW r \in SubRows, NEW t \in Nat
    PROVE  /\ Sweep(r, t).period = r.period
           /\ Sweep(r, t).end = r.end
           /\ Sweep(r, t).grace \in {r.grace, NoGrace}
           /\ Sweep(r, t).status = "none" <=> r.status = "none"
           /\ Sweep(r, t).status = "none" => Sweep(r, t) = r
           /\ Sweep(r, t).status = "active" => Sweep(r, t) = r /\ ~(r.cancel /\ r.end <= t)
           /\ Sweep(r, t).status = "past_due" => Sweep(r, t) = r
           /\ Sweep(r, t).status = "expired" =>
                \/ r.status = "expired"
                \/ r.grace # NoGrace /\ r.grace < t - ExpiryDelay
           /\ r.status = "active" /\ Sweep(r, t).status # "active" => ~Sweep(r, t).inTime
           /\ r.status # "active" => Sweep(r, t).inTime = r.inTime
           /\ Sweep(r, t).held = r.held
  <1> USE DEF SubRows, SubStatus
  <1>1. CASE r.status = "past_due"
    <2> DEFINE late == r.grace # NoGrace /\ r.grace < t
               later == r.grace # NoGrace /\ r.grace < t - ExpiryDelay
    <2>1. Sweep(r, t) = IF late THEN IF later THEN [r EXCEPT !.status = "expired"]
                                     ELSE [r EXCEPT !.status = "suspended"]
                        ELSE r
      BY <1>1 DEF Sweep, CloseFlagged, Expire, Lapse
    <2> HIDE DEF late, later
    <2>2. Sweep(r, t).status = "expired" => later
      BY <1>1, <2>1
    <2> QED  BY <1>1, <2>1, <2>2 DEF later
  <1>2. CASE r.status = "suspended"
    <2> DEFINE later == r.grace # NoGrace /\ r.grace < t - ExpiryDelay
    <2>1. Sweep(r, t) = IF later THEN [r EXCEPT !.status = "expired"] ELSE r
      BY <1>2 DEF Sweep, CloseFlagged, Expire, Lapse
    <2> HIDE DEF later
    <2> QED  BY <1>2, <2>1 DEF later
  <1>3. CASE r.status = "active"
    <2> DEFINE over == r.cancel /\ r.end <= t
    <2>1. Sweep(r, t) = IF over THEN Cancelled(r) ELSE r
      BY <1>3 DEF Sweep, CloseFlagged, Expire, Lapse
    <2> HIDE DEF over
    <2> QED  BY <1>3, <2>1 DEF over, Cancelled
  <1>4. CASE r.status \notin {"past_due", "suspended", "active"}
    <2>1. Sweep(r, t) = r
      BY <1>4 DEF Sweep, CloseFlagged, Expire, Lapse
    <2> QED  BY <1>4, <2>1
  <1> QED  BY <1>1, <1>2, <1>3, <1>4

-----------------------------------------------------------------------------
(* Every period a subscription has left is paid for.                       *)

\* What makes NoFreePeriod inductive: no invoice is ahead of its subscription,
\* and an advance is only ever asked for by the paid invoice of the current
\* period, so there is at most one request per subscription.
PeriodInv ==
    /\ RenewalTypeOK
    /\ NoFreePeriod
    /\ \A s \in Subs : \A n \in Periods : n > subs[s].period => invoices[s][n] = "none"
    /\ \A s \in Subs : \A n \in Periods :
          <<s, n>> \in postCommit => n = subs[s].period /\ invoices[s][n] = "paid"

\* A step that keeps every period, asks for no new advance and leaves paid and
\* missing invoices alone keeps PeriodInv.
LEMMA PeriodsKept ==
    ASSUME PeriodInv, RenewalTypeOK',
           \A s \in Subs : subs'[s].period = subs[s].period,
           \A s \in Subs : \A n \in Periods :
              \/ invoices'[s][n] = invoices[s][n]
              \/ invoices[s][n] # "paid" /\ n <= subs[s].period,
           postCommit' \subseteq postCommit
    PROVE  PeriodInv'
  <1> USE RenewalBoundsAssumption DEF PeriodInv, RenewalTypeOK
  <1>1. NoFreePeriod'
    BY DEF NoFreePeriod
  <1>2. \A s \in Subs : subs[s].period \in Int
    BY DEF SubRows, Periods
  <1>3. \A s \in Subs : \A n \in Periods : n > subs'[s].period => invoices'[s][n] = "none"
    <2> SUFFICES ASSUME NEW s \in Subs, NEW n \in Periods, n > subs[s].period
                 PROVE  invoices'[s][n] = "none"
      OBVIOUS
    <2>1. ~(n <= subs[s].period)
      BY <1>2 DEF Periods
    <2> QED  BY <2>1
  <1>4. \A s \in Subs : \A n \in Periods :
          <<s, n>> \in postCommit' => n = subs'[s].period /\ invoices'[s][n] = "paid"
    OBVIOUS
  <1> QED  BY <1>1, <1>3, <1>4

\* An invoice that is neither missing nor paid is that of the current period.
LEMMA OpenIsCurrent ==
    ASSUME PeriodInv, NEW s \in Subs, NEW n \in Periods, invoices[s][n] \notin {"none", "paid"}
    PROVE  n = subs[s].period
  <1>1. n \in Int /\ subs[s].period \in Int
    BY RenewalBoundsAssumption DEF PeriodInv, RenewalTypeOK, SubRows, Periods
  <1>2. ~(n < subs[s].period) /\ ~(n > subs[s].period)
    BY DEF PeriodInv, NoFreePeriod
  <1> QED  BY <1>1, <1>2

\* Every step preserves PeriodInv.
LEMMA PeriodStep == PeriodInv /\ [RenewalNext]_renewalVars => PeriodInv'
  <1> SUFFICES ASSUME PeriodInv, [RenewalNext]_renewalVars PROVE PeriodInv'
    OBVIOUS
  <1>1. RenewalTypeOK /\ RenewalTypeOK'
    BY TypeStep DEF PeriodInv
  <1>2. ASSUME UNCHANGED <<invoices, postCommit>>, \A s \in Subs : subs'[s].period = subs[s].period
        PROVE  PeriodInv'
    BY <1>1, <1>2, PeriodsKept
  <1>3. CASE Tick
    BY <1>2, <1>3 DEF Tick
  <1>4. ASSUME NEW s \in Subs,
               \/ Activate(s) \/ CancelNow(s) \/ CancelAtPeriodEnd(s) \/ Suspend(s) \/ Unsuspend(s)
        PROVE  PeriodInv'
    <2>1. \A q \in Subs : subs'[q].period = subs[q].period
      <3>1. CASE Activate(s)
        BY <1>1, <3>1 DEF RenewalTypeOK, SubRows, Activate
      <3>2. CASE CancelNow(s)
        BY <1>1, <3>2 DEF RenewalTypeOK, SubRows, CancelNow, Cancelled
      <3>3. CASE CancelAtPeriodEnd(s)
        <4> DEFINE b == subs[s].inTime \/ subs[s].end > now
        <4>1. subs' = [subs EXCEPT ![s] = [@ EXCEPT !.cancel = TRUE, !.inTime = b]]
          BY <3>3 DEF CancelAtPeriodEnd
        <4> HIDE DEF b
        <4> QED  BY <1>1, <4>1 DEF RenewalTypeOK, SubRows
      <3>4. CASE Suspend(s)
        <4>1. subs' = [subs EXCEPT ![s] = [@ EXCEPT !.status = "suspended", !.held = TRUE]]
          BY <3>4 DEF Suspend
        <4> QED  BY <1>1, <4>1 DEF RenewalTypeOK, SubRows
      <3>5. CASE Unsuspend(s)
        <4>1. subs' = [subs EXCEPT ![s] = [@ EXCEPT !.status = "active", !.grace = NoGrace, !.held = TRUE]]
          BY <3>5 DEF Unsuspend
        <4> QED  BY <1>1, <4>1 DEF RenewalTypeOK, SubRows
      <3> QED  BY <1>4, <3>1, <3>2, <3>3, <3>4, <3>5
    <2> QED  BY <1>2, <1>4, <2>1 DEF Activate, CancelNow, CancelAtPeriodEnd, Suspend, Unsuspend
  <1>5. ASSUME NEW s \in Subs, NEW n \in Periods, WebhookSettles(s, n) PROVE PeriodInv'
    <2>1. /\ n = subs[s].period
          /\ invoices' = [invoices EXCEPT ![s][n] = "paid"]
          /\ postCommit' = postCommit \cup {<<s, n>>}
          /\ UNCHANGED subs
      BY <1>5, OpenIsCurrent DEF WebhookSettles, SetInvoice
    <2>2. NoFreePeriod'
      BY <1>1, <2>1 DEF PeriodInv, NoFreePeriod, RenewalTypeOK
    <2>3. \A q \in Subs : \A k \in Periods : k > subs'[q].period => invoices'[q][k] = "none"
      <3> SUFFICES ASSUME NEW q \in Subs, NEW k \in Periods, k > subs[q].period
                   PROVE  invoices'[q][k] = "none"
        BY <2>1
      <3>1. k # subs[q].period
        BY <1>1, RenewalBoundsAssumption DEF RenewalTypeOK, SubRows, Periods
      <3> QED  BY <1>1, <2>1, <3>1 DEF PeriodInv, RenewalTypeOK
    <2>4. \A q \in Subs : \A k \in Periods :
            <<q, k>> \in postCommit' => k = subs'[q].period /\ invoices'[q][k] = "paid"
      BY <1>1, <2>1 DEF PeriodInv, RenewalTypeOK
    <2> QED  BY <1>1, <2>2, <2>3, <2>4 DEF PeriodInv
  <1>6. ASSUME NEW s \in Subs, NEW n \in Periods,
               PayRenewalWithWallet(s, n) \/ AdminApproveRenewal(s, n) \/ VoidRenewal(s, n)
        PROVE  PeriodInv'
    <2>1. /\ n = subs[s].period /\ invoices[s][n] = "unpaid"
          /\ \E to \in RenewalStatus : invoices' = [invoices EXCEPT ![s][n] = to]
          /\ UNCHANGED <<subs, postCommit>>
      BY <1>6, OpenIsCurrent
         DEF PayRenewalWithWallet, AdminApproveRenewal, VoidRenewal, SetInvoice, RenewalStatus
    <2>2. n <= subs[s].period
      BY <2>1, RenewalBoundsAssumption DEF Periods
    <2>3. \A q \in Subs : \A k \in Periods :
            \/ invoices'[q][k] = invoices[q][k]
            \/ invoices[q][k] # "paid" /\ k <= subs[q].period
      BY <1>1, <2>1, <2>2 DEF RenewalTypeOK
    <2> QED  BY <1>1, <2>1, <2>3, PeriodsKept
  <1>7. ASSUME NEW s \in Subs, NEW n \in Periods, AdvancePeriodAfterPayment(s, n) PROVE PeriodInv'
    <2>1. CASE subs[s].status \notin Live
      <3>1. UNCHANGED <<subs, invoices>> /\ postCommit' \subseteq postCommit
        BY <1>1, <1>7, <2>1 DEF AdvancePeriodAfterPayment, RenewalTypeOK
      <3> QED  BY <1>1, <3>1, PeriodsKept
    <2>2. CASE subs[s].status \in Live
      <3>1. /\ subs' = [subs EXCEPT ![s] = Advanced(subs[s])]
            /\ subs'[s].period = n + 1
            /\ \A q \in Subs : q # s => subs'[q].period = subs[q].period
            /\ n = subs[s].period /\ invoices[s][n] = "paid"
            /\ UNCHANGED invoices
            /\ postCommit' = postCommit \ {<<s, n>>}
        BY <1>1, <1>7, <2>2
           DEF AdvancePeriodAfterPayment, Advanced, RenewalTypeOK, SubRows, PeriodInv
      <3>2. \A q \in Subs : \A k \in Periods : k < subs'[q].period => k < subs[q].period \/ (q = s /\ k = n)
        BY <1>1, <3>1, RenewalBoundsAssumption DEF RenewalTypeOK, SubRows, Periods
      <3>3. NoFreePeriod'
        BY <3>1, <3>2 DEF PeriodInv, NoFreePeriod
      <3>4. \A q \in Subs : \A k \in Periods : k > subs'[q].period => k > subs[q].period
        BY <1>1, <3>1, RenewalBoundsAssumption DEF RenewalTypeOK, SubRows, Periods
      <3>5. \A q \in Subs : \A k \in Periods :
              <<q, k>> \in postCommit' => k = subs'[q].period /\ invoices'[q][k] = "paid"
        BY <3>1 DEF PeriodInv
      <3> QED  BY <1>1, <3>1, <3>3, <3>4, <3>5 DEF PeriodInv
    <2> QED  BY <2>1, <2>2
  <1>8. ASSUME NEW s \in Subs, NEW n \in Periods, AdvanceLost(s, n) PROVE PeriodInv'
    BY <1>1, <1>8, PeriodsKept DEF AdvanceLost
  <1>9. ASSUME NEW w \in Workers, BeginTransitions(w) PROVE PeriodInv'
    <2>1. \A q \in Subs : subs'[q].period = subs[q].period
      BY <1>1, <1>9, SweptRow DEF BeginTransitions, RenewalTypeOK
    <2> QED  BY <1>2, <1>9, <2>1 DEF BeginTransitions
  <1>10. ASSUME NEW w \in Workers, FlagDue(w) PROVE PeriodInv'
    <2>1. \A q \in Subs : subs'[q].period = subs[q].period
      <3>1. PICK found \in SUBSET Subs :
              subs' = [q \in Subs |-> IF q \in found THEN Flag(subs[q], pass[w]) ELSE subs[q]]
        BY <1>10 DEF FlagDue
      <3>2. \A q \in Subs : Flag(subs[q], pass[w]).period = subs[q].period
        BY <1>1 DEF Flag, RenewalTypeOK, SubRows
      <3> QED  BY <3>1, <3>2
    <2> QED  BY <1>2, <1>10, <2>1 DEF FlagDue
  <1>11. ASSUME NEW w \in Workers, WorkerStops(w) PROVE PeriodInv'
    BY <1>2, <1>11 DEF WorkerStops
  <1>12. ASSUME NEW w \in Workers, NEW s \in Subs, CreateRenewalInvoice(w, s) PROVE PeriodInv'
    <2>1. subs[s].period \in Periods /\ subs[s].period <= subs[s].period
      BY <1>1, RenewalBoundsAssumption DEF RenewalTypeOK, SubRows, Periods
    <2>2. \A q \in Subs : \A k \in Periods :
            \/ invoices'[q][k] = invoices[q][k]
            \/ invoices[q][k] # "paid" /\ k <= subs[q].period
      BY <1>1, <1>12, <2>1 DEF CreateRenewalInvoice, RenewalTypeOK
    <2> QED  BY <1>1, <1>12, <2>2, PeriodsKept DEF CreateRenewalInvoice
  <1>13. ASSUME NEW w \in Workers, NEW s \in Subs, RenewalInvoiceFails(w, s) PROVE PeriodInv'
    BY <1>2, <1>13 DEF RenewalInvoiceFails
  <1>14. CASE UNCHANGED renewalVars
    BY <1>2, <1>14 DEF renewalVars
  <1> QED
    BY <1>3, <1>4, <1>5, <1>6, <1>7, <1>8, <1>9, <1>10, <1>11, <1>12, <1>13, <1>14
       DEF RenewalNext, InvoiceStep

\* Nobody gets a free period, for any number of subscriptions and workers:
\* AdvancePeriodAfterPayment only follows the payment of the period that ends,
\* although it runs after the webhook's commit and trusts the row it finds.
THEOREM NobodyGetsAFreePeriod == RenewalSpec => []NoFreePeriod
  <1>1. RenewalInit => PeriodInv
    BY TypeInit DEF RenewalInit, PeriodInv, NoFreePeriod, Periods
  <1>2. PeriodInv => NoFreePeriod
    BY DEF PeriodInv
  <1> QED  BY <1>1, <1>2, PeriodStep, PTL DEF RenewalSpec

-----------------------------------------------------------------------------
(* No subscription expires early.                                          *)

\* What makes NoEarlyExpiry inductive: a row that was never activated has no
\* grace deadline, and a grace deadline is at least the grace time after the
\* period's end.
TimelyRow(r, t) ==
    /\ r.status = "none" => r.grace = NoGrace
    /\ r.grace # NoGrace => r.grace >= r.end + Grace
    /\ r.status = "expired" => t > r.end + Grace + ExpiryDelay

TimeInv == RenewalTypeOK /\ \A s \in Subs : TimelyRow(subs[s], now)

\* A pass, and the flagging of a due row, keep a row timely (ProcessTransitions).
LEMMA TimelyPass ==
    ASSUME NEW r \in SubRows, NEW t \in Nat, NEW u \in Nat, TimelyRow(r, t)
    PROVE  /\ TimelyRow(Sweep(r, t), t)
           /\ IsDue(r, u) => TimelyRow(Flag(r, u), t)
  <1>1. /\ r.end \in Nat /\ r.grace \in Nat \cup {NoGrace}
        /\ Grace \in Nat /\ ExpiryDelay \in Nat
    BY DurationsAssumption DEF SubRows
  <1>2. TimelyRow(Sweep(r, t), t)
    <2> DEFINE q == Sweep(r, t)
    <2>1. /\ q.end = r.end /\ q.grace \in {r.grace, NoGrace}
          /\ q.status = "none" <=> r.status = "none"
          /\ q.status = "expired" =>
                r.status = "expired" \/ (r.grace # NoGrace /\ r.grace < t - ExpiryDelay)
      BY SweptRow
    <2> HIDE DEF q
    <2>2. q.status = "none" => q.grace = NoGrace
      BY <2>1 DEF TimelyRow
    <2>3. q.grace # NoGrace => q.grace >= q.end + Grace
      BY <2>1 DEF TimelyRow
    <2>4. ASSUME q.status = "expired" PROVE t > q.end + Grace + ExpiryDelay
      <3>1. CASE r.status = "expired"
        BY <2>1, <3>1 DEF TimelyRow
      <3>2. CASE r.grace # NoGrace /\ r.grace < t - ExpiryDelay
        <4>1. r.grace >= r.end + Grace /\ r.grace \in Nat
          BY <1>1, <3>2 DEF TimelyRow
        <4> QED  BY <1>1, <2>1, <3>2, <4>1
      <3> QED  BY <2>1, <2>4, <3>1, <3>2
    <2> QED  BY <2>2, <2>3, <2>4 DEF TimelyRow, q
  <1>3. ASSUME IsDue(r, u) PROVE TimelyRow(Flag(r, u), t)
    <2> DEFINE g == u + Grace
    <2>1. r.end <= u /\ g \in Nat /\ g >= r.end + Grace
      BY <1>1, <1>3 DEF IsDue
    <2>2. Flag(r, u) = [r EXCEPT !.status = "past_due", !.grace = g]
      BY DEF Flag
    <2> HIDE DEF g
    <2>3. Flag(r, u).end = r.end /\ Flag(r, u).grace = g /\ Flag(r, u).status = "past_due"
      BY <2>2 DEF SubRows
    <2> QED  BY <2>1, <2>3 DEF TimelyRow
  <1> QED  BY <1>2, <1>3

\* Every step preserves TimeInv.
LEMMA TimeStep == TimeInv /\ [RenewalNext]_renewalVars => TimeInv'
  <1> SUFFICES ASSUME TimeInv, [RenewalNext]_renewalVars PROVE TimeInv'
    OBVIOUS
  <1>1. RenewalTypeOK /\ RenewalTypeOK'
    BY TypeStep DEF TimeInv
  <1>2. ASSUME UNCHANGED <<now, subs>> PROVE TimeInv'
    BY <1>1, <1>2 DEF TimeInv
  <1>3. ASSUME NEW s \in Subs, NEW r, TimelyRow(r, now), UNCHANGED now,
               subs' = [subs EXCEPT ![s] = r]
        PROVE  TimeInv'
    BY <1>1, <1>3 DEF TimeInv, RenewalTypeOK
  <1>4. CASE Tick
    <2> SUFFICES ASSUME NEW s \in Subs PROVE TimelyRow(subs[s], now')
      BY <1>1, <1>4 DEF TimeInv, Tick
    <2>1. /\ subs[s].end \in Nat /\ now \in Nat /\ now' = now + 1
          /\ Grace \in Nat /\ ExpiryDelay \in Nat
      BY <1>1, <1>4, DurationsAssumption DEF RenewalTypeOK, SubRows, Tick
    <2>2. TimelyRow(subs[s], now)
      BY DEF TimeInv
    <2> QED  BY <2>1, <2>2 DEF TimelyRow
  <1>5. ASSUME NEW s \in Subs, Activate(s) PROVE TimeInv'
    <2> DEFINE e == now + PeriodLength
    <2>1. subs' = [subs EXCEPT ![s] = [@ EXCEPT !.status = "active", !.end = e]] /\ UNCHANGED now
      BY <1>5 DEF Activate
    <2>2. subs[s] \in SubRows /\ subs[s].grace = NoGrace
      BY <1>1, <1>5 DEF Activate, TimeInv, TimelyRow, RenewalTypeOK
    <2> HIDE DEF e
    <2> DEFINE r == [subs[s] EXCEPT !.status = "active", !.end = e]
    <2>3. r.grace = NoGrace /\ r.status = "active"
      BY <2>2 DEF SubRows
    <2> HIDE DEF r
    <2>4. TimelyRow(r, now)
      BY <2>3 DEF TimelyRow
    <2> QED  BY <1>3, <2>1, <2>4 DEF r
  <1>6. ASSUME NEW s \in Subs, CancelNow(s) PROVE TimeInv'
    <2>1. Cancelled(subs[s]).grace = NoGrace /\ Cancelled(subs[s]).status = "cancelled"
      BY <1>1 DEF Cancelled, RenewalTypeOK, SubRows
    <2>2. TimelyRow(Cancelled(subs[s]), now)
      BY <2>1 DEF TimelyRow
    <2> QED  BY <1>3, <1>6, <2>2 DEF CancelNow
  <1>7. ASSUME NEW s \in Subs, CancelAtPeriodEnd(s) PROVE TimeInv'
    <2> DEFINE b == subs[s].inTime \/ subs[s].end > now
    <2>1. subs' = [subs EXCEPT ![s] = [@ EXCEPT !.cancel = TRUE, !.inTime = b]] /\ UNCHANGED now
      BY <1>7 DEF CancelAtPeriodEnd
    <2> HIDE DEF b
    <2> DEFINE r == [subs[s] EXCEPT !.cancel = TRUE, !.inTime = b]
    <2>2. r.status = subs[s].status /\ r.end = subs[s].end /\ r.grace = subs[s].grace
      BY <1>1 DEF RenewalTypeOK, SubRows
    <2>3. TimelyRow(r, now)
      BY <2>2 DEF TimeInv, TimelyRow
    <2> QED  BY <1>3, <2>1, <2>3
  <1>8. ASSUME NEW s \in Subs, Suspend(s) PROVE TimeInv'
    <2> DEFINE r == [subs[s] EXCEPT !.status = "suspended", !.held = TRUE]
    <2>1. subs' = [subs EXCEPT ![s] = r] /\ UNCHANGED now
      BY <1>8 DEF Suspend
    <2>2. r.status = "suspended" /\ r.end = subs[s].end /\ r.grace = subs[s].grace
      BY <1>1 DEF RenewalTypeOK, SubRows
    <2>3. TimelyRow(r, now)
      BY <2>2 DEF TimeInv, TimelyRow
    <2> QED  BY <1>3, <2>1, <2>3
  <1>9. ASSUME NEW s \in Subs, Unsuspend(s) PROVE TimeInv'
    <2> DEFINE r == [subs[s] EXCEPT !.status = "active", !.grace = NoGrace, !.held = TRUE]
    <2>1. subs' = [subs EXCEPT ![s] = r] /\ UNCHANGED now
      BY <1>9 DEF Unsuspend
    <2>2. r.grace = NoGrace /\ r.status = "active"
      BY <1>1 DEF RenewalTypeOK, SubRows
    <2> HIDE DEF r
    <2>3. TimelyRow(r, now)
      BY <2>2 DEF TimelyRow
    <2> QED  BY <1>3, <2>1, <2>3
  <1>10. ASSUME NEW s \in Subs, NEW n \in Periods, AdvancePeriodAfterPayment(s, n) PROVE TimeInv'
    <2>1. CASE subs[s].status \notin Live
      BY <1>1, <1>2, <1>10, <2>1 DEF AdvancePeriodAfterPayment, RenewalTypeOK
    <2>2. CASE subs[s].status \in Live
      <3>1. TimelyRow(Advanced(subs[s]), now)
        <4> DEFINE k == subs[s].period + 1
                   e == subs[s].end + PeriodLength
        <4>1. Advanced(subs[s]) = [subs[s] EXCEPT !.status = "active", !.period = k, !.end = e,
                                   !.grace = NoGrace, !.cancel = FALSE, !.inTime = FALSE]
          BY DEF Advanced
        <4> HIDE DEF k, e
        <4>2. Advanced(subs[s]).grace = NoGrace /\ Advanced(subs[s]).status = "active"
          BY <1>1, <4>1 DEF RenewalTypeOK, SubRows
        <4> QED  BY <4>2 DEF TimelyRow
      <3> QED  BY <1>3, <1>10, <2>2, <3>1 DEF AdvancePeriodAfterPayment
    <2> QED  BY <2>1, <2>2
  <1>11. ASSUME NEW w \in Workers, BeginTransitions(w) PROVE TimeInv'
    <2>1. \A s \in Subs : TimelyRow(Sweep(subs[s], now), now)
      BY <1>1, TimelyPass DEF TimeInv, RenewalTypeOK
    <2> QED  BY <1>1, <1>11, <2>1 DEF BeginTransitions, TimeInv
  <1>12. ASSUME NEW w \in Workers, FlagDue(w) PROVE TimeInv'
    <2>1. pass[w] \in Nat /\ now \in Nat /\ UNCHANGED now
      BY <1>1, <1>12 DEF FlagDue, RenewalTypeOK, NoPass
    <2>2. PICK found \in SUBSET {s \in Subs : IsDue(subs[s], pass[w])} :
            subs' = [q \in Subs |-> IF q \in found THEN Flag(subs[q], pass[w]) ELSE subs[q]]
      BY <1>12 DEF FlagDue
    <2>3. \A q \in Subs : IsDue(subs[q], pass[w]) => TimelyRow(Flag(subs[q], pass[w]), now)
      BY <1>1, <2>1, TimelyPass DEF TimeInv, RenewalTypeOK
    <2>4. \A q \in Subs : TimelyRow(subs'[q], now)
      BY <2>2, <2>3 DEF TimeInv
    <2> QED  BY <1>1, <2>1, <2>4 DEF TimeInv
  <1>13. ASSUME NEW s \in Subs, NEW n \in Periods,
                \/ WebhookSettles(s, n) \/ PayRenewalWithWallet(s, n)
                \/ AdminApproveRenewal(s, n) \/ VoidRenewal(s, n) \/ AdvanceLost(s, n)
         PROVE  TimeInv'
    BY <1>2, <1>13 DEF WebhookSettles, PayRenewalWithWallet, AdminApproveRenewal, VoidRenewal,
                       SetInvoice, AdvanceLost
  <1>14. ASSUME NEW w \in Workers, NEW s \in Subs,
                CreateRenewalInvoice(w, s) \/ RenewalInvoiceFails(w, s)
         PROVE  TimeInv'
    BY <1>2, <1>14 DEF CreateRenewalInvoice, RenewalInvoiceFails
  <1>15. ASSUME NEW w \in Workers, WorkerStops(w) PROVE TimeInv'
    BY <1>2, <1>15 DEF WorkerStops
  <1>16. CASE UNCHANGED renewalVars
    BY <1>2, <1>16 DEF renewalVars
  <1> QED
    BY <1>4, <1>5, <1>6, <1>7, <1>8, <1>9, <1>10, <1>11, <1>12, <1>13, <1>14, <1>15, <1>16
       DEF RenewalNext, InvoiceStep

\* A subscription expires only when its whole period, the grace time and the
\* days of suspension are over, although grace_until doubles as the start of
\* the suspension and several workers sweep at once (ProcessTransitions).
THEOREM NobodyExpiresEarly == RenewalSpec => []NoEarlyExpiry
  <1>1. RenewalInit => TimeInv
    <2> SUFFICES ASSUME RenewalInit PROVE \A s \in Subs : TimelyRow(subs[s], now)
      BY TypeInit DEF TimeInv
    <2> QED  BY DEF RenewalInit, TimelyRow
  <1>2. TimeInv => NoEarlyExpiry
    BY DEF TimeInv, TimelyRow, NoEarlyExpiry
  <1> QED  BY <1>1, <1>2, TimeStep, PTL DEF RenewalSpec

-----------------------------------------------------------------------------
(* Nobody is billed early, or after asking in time to leave.               *)

Current(s) == invoices[s][subs[s].period]

\* What makes NotBilledEarly and FlaggedIsNotBilled inductive, for one
\* subscription: it is not billed while it is active, it is on the list of at
\* most one worker, and one on a list is over, not yet billed and not active.
\* A pass that is under way is too early for a flag that was set in time.
BilledInTime(s) ==
    /\ subs[s].status \in {"none", "active"} => Current(s) = "none"
    /\ Current(s) # "none" => subs[s].end <= now
    /\ subs[s].status = "past_due" => subs[s].end <= now
    /\ subs[s].inTime => subs[s].status = "active" /\ subs[s].cancel
    /\ \A w \in Workers : s \in due[w] =>
          /\ subs[s].status \notin {"none", "active"}
          /\ Current(s) = "none"
          /\ subs[s].end <= now
    /\ \A v, w \in Workers : s \in due[v] /\ s \in due[w] => v = w
    /\ \A w \in Workers : subs[s].inTime => subs[s].end > pass[w]

BillingInv ==
    /\ PeriodInv
    /\ \A w \in Workers : pass[w] <= now
    /\ \A s \in Subs : ~subs[s].held => BilledInTime(s)

\* A step that leaves a subscription's row and invoices alone, lists it nowhere
\* new and starts no pass keeps it billed in time.
LEMMA BilledFrame ==
    ASSUME RenewalTypeOK, RenewalTypeOK', NEW s \in Subs, BilledInTime(s),
           subs'[s] = subs[s], invoices'[s] = invoices[s], now <= now',
           \A w \in Workers : s \in due'[w] => s \in due[w],
           \A w \in Workers : pass'[w] \in {pass[w], NoPass}
    PROVE  BilledInTime(s)'
  <1>1. now \in Nat /\ now' \in Nat /\ subs[s].end \in Nat
    BY DEF RenewalTypeOK, SubRows
  <1>2. Current(s)' = Current(s)
    BY DEF Current
  <1>3. subs[s].end <= now => subs[s].end <= now'
    BY <1>1
  <1>4. \A w \in Workers : subs[s].inTime => subs[s].end > pass'[w]
    BY <1>1 DEF BilledInTime, NoPass
  <1> HIDE DEF Current
  <1> QED  BY <1>2, <1>3, <1>4 DEF BilledInTime

\* An invoice of a subscription that was not held by hand exists only when the
\* subscription is over, on no list, and waits for its payment.
LEMMA BilledIsOver ==
    ASSUME NEW s \in Subs, BilledInTime(s), Current(s) # "none"
    PROVE  /\ subs[s].status \notin {"none", "active"}
           /\ subs[s].end <= now
           /\ ~subs[s].inTime
           /\ \A w \in Workers : s \notin due[w]
  BY DEF BilledInTime

\* Every step preserves BillingInv.
LEMMA BillingStep == BillingInv /\ [RenewalNext]_renewalVars => BillingInv'
  <1> SUFFICES ASSUME BillingInv, [RenewalNext]_renewalVars PROVE BillingInv'
    OBVIOUS
  <1>1. RenewalTypeOK /\ RenewalTypeOK' /\ PeriodInv /\ PeriodInv'
    BY PeriodStep, TypeStep DEF BillingInv, PeriodInv
  <1>2. /\ now \in Nat
        /\ \A w \in Workers : pass[w] \in Nat \cup {NoPass} /\ pass[w] <= now
        /\ \A s \in Subs : subs[s] \in SubRows /\ subs[s].period \in Periods /\ subs[s].end \in Nat
    BY <1>1 DEF RenewalTypeOK, BillingInv, SubRows
  <1>3. ASSUME UNCHANGED <<now, pass>>,
               NEW s \in Subs,
               \A q \in Subs : q # s => subs'[q] = subs[q] /\ invoices'[q] = invoices[q],
               \A q \in Subs, w \in Workers : q \in due'[w] => q \in due[w],
               ~subs'[s].held => BilledInTime(s)'
        PROVE  BillingInv'
    <2>1. \A q \in Subs : ~subs'[q].held => BilledInTime(q)'
      <3> SUFFICES ASSUME NEW q \in Subs, q # s, ~subs'[q].held PROVE BilledInTime(q)'
        BY <1>3
      <3>1. BilledInTime(q)
        BY <1>3 DEF BillingInv
      <3>2. now <= now'
        BY <1>2, <1>3
      <3>3. \A w \in Workers : pass'[w] \in {pass[w], NoPass}
        BY <1>3
      <3> QED  BY <1>1, <1>3, <3>1, <3>2, <3>3, BilledFrame
    <2>2. \A w \in Workers : pass'[w] <= now'
      BY <1>2, <1>3
    <2> QED  BY <1>1, <2>1, <2>2 DEF BillingInv
  <1>4. ASSUME UNCHANGED <<subs, invoices>>, UNCHANGED pass, now <= now', now' \in Nat,
               \A q \in Subs, w \in Workers : q \in due'[w] => q \in due[w]
        PROVE  BillingInv'
    <2>1. \A q \in Subs : ~subs'[q].held => BilledInTime(q)'
      <3> SUFFICES ASSUME NEW q \in Subs, ~subs'[q].held PROVE BilledInTime(q)'
        OBVIOUS
      <3>1. BilledInTime(q)
        BY <1>4 DEF BillingInv
      <3>2. \A w \in Workers : pass'[w] \in {pass[w], NoPass}
        BY <1>4
      <3> QED  BY <1>1, <1>4, <3>1, <3>2, BilledFrame
    <2>2. \A w \in Workers : pass'[w] <= now'
      BY <1>2, <1>4 DEF NoPass
    <2> QED  BY <1>1, <2>1, <2>2 DEF BillingInv
  <1>5. CASE Tick
    BY <1>2, <1>4, <1>5 DEF Tick
  <1>6. ASSUME NEW s \in Subs, Activate(s) PROVE BillingInv'
    <2> DEFINE e == now + PeriodLength
    <2>1. /\ subs' = [subs EXCEPT ![s] = [subs[s] EXCEPT !.status = "active", !.end = e]]
          /\ UNCHANGED <<now, invoices, pass, due>> /\ subs[s].status = "none"
      BY <1>6 DEF Activate
    <2> HIDE DEF e
    <2>2. /\ subs'[s].status = "active" /\ subs'[s].period = subs[s].period
          /\ subs'[s].inTime = subs[s].inTime /\ subs'[s].held = subs[s].held
      BY <1>1, <1>2, <2>1 DEF RenewalTypeOK, SubRows
    <2>3. ASSUME ~subs'[s].held PROVE BilledInTime(s)'
      <3>1. BilledInTime(s)
        BY <2>2, <2>3 DEF BillingInv
      <3>2. /\ ~subs[s].inTime /\ Current(s) = "none" /\ \A w \in Workers : s \notin due[w]
        BY <2>1, <3>1 DEF BilledInTime
      <3>3. Current(s)' = "none"
        BY <2>1, <2>2, <3>2 DEF Current
      <3> QED  BY <2>1, <2>2, <3>2, <3>3 DEF BilledInTime
    <2> QED  BY <1>1, <1>3, <2>1, <2>3 DEF RenewalTypeOK
  <1>7. ASSUME NEW s \in Subs, CancelNow(s) PROVE BillingInv'
    <2>1. /\ subs'[s].status = "cancelled" /\ subs'[s].period = subs[s].period
          /\ subs'[s].end = subs[s].end
          /\ ~subs'[s].inTime /\ subs'[s].held = subs[s].held
      BY <1>1, <1>2, <1>7 DEF RenewalTypeOK, SubRows, CancelNow, Cancelled
    <2>2. ASSUME ~subs'[s].held PROVE BilledInTime(s)'
      <3>1. BilledInTime(s)
        BY <2>1, <2>2 DEF BillingInv
      <3>2. Current(s)' = Current(s) /\ UNCHANGED <<now, due, pass>>
        BY <1>7, <2>1 DEF Current, CancelNow
      <3> HIDE DEF Current
      <3> QED  BY <2>1, <3>1, <3>2 DEF BilledInTime
    <2> QED  BY <1>1, <1>3, <1>7, <2>2 DEF RenewalTypeOK, CancelNow
  <1>8. ASSUME NEW s \in Subs, CancelAtPeriodEnd(s) PROVE BillingInv'
    <2> DEFINE b == subs[s].inTime \/ subs[s].end > now
    <2>1. /\ subs' = [subs EXCEPT ![s] = [subs[s] EXCEPT !.cancel = TRUE, !.inTime = b]]
          /\ UNCHANGED <<now, invoices, pass, due>> /\ subs[s].status \in {"active", "past_due"}
      BY <1>8 DEF CancelAtPeriodEnd
    <2>2. b \in BOOLEAN /\ (b => subs[s].inTime \/ subs[s].end > now)
      OBVIOUS
    <2> HIDE DEF b
    <2>3. /\ subs'[s].status = subs[s].status /\ subs'[s].period = subs[s].period
          /\ subs'[s].end = subs[s].end /\ subs'[s].cancel /\ subs'[s].inTime = b
          /\ subs'[s].held = subs[s].held
      BY <1>1, <1>2, <2>1 DEF RenewalTypeOK, SubRows
    <2>4. ASSUME ~subs'[s].held PROVE BilledInTime(s)'
      <3>1. BilledInTime(s)
        BY <2>3, <2>4 DEF BillingInv
      <3>2. Current(s)' = Current(s)
        BY <2>1, <2>3 DEF Current
      <3>3. b => subs[s].status = "active"
        <4>1. subs[s].status = "past_due" => subs[s].end <= now
          BY <3>1 DEF BilledInTime
        <4>2. subs[s].end > now => ~(subs[s].end <= now)
          BY <1>2
        <4>3. subs[s].inTime => subs[s].status = "active"
          BY <3>1 DEF BilledInTime
        <4> QED  BY <2>1, <2>2, <4>1, <4>2, <4>3
      <3>4. \A w \in Workers : b => subs[s].end > pass[w]
        <4> SUFFICES ASSUME NEW w \in Workers, b PROVE subs[s].end > pass[w]
          OBVIOUS
        <4>1. CASE subs[s].inTime
          BY <3>1, <4>1 DEF BilledInTime
        <4>2. CASE subs[s].end > now
          BY <1>2, <4>2 DEF NoPass
        <4> QED  BY <2>2, <4>1, <4>2
      <3> HIDE DEF Current
      <3> QED  BY <2>1, <2>3, <3>1, <3>2, <3>3, <3>4 DEF BilledInTime
    <2> QED  BY <1>1, <1>3, <2>1, <2>4 DEF RenewalTypeOK
  <1>9. ASSUME NEW s \in Subs, Suspend(s) \/ Unsuspend(s) PROVE BillingInv'
    <2>1. \E r : r.held /\ subs' = [subs EXCEPT ![s] = r]
      <3>1. CASE Suspend(s)
        <4>1. [subs[s] EXCEPT !.status = "suspended", !.held = TRUE].held
          BY <1>2 DEF SubRows
        <4> QED  BY <3>1, <4>1 DEF Suspend
      <3>2. CASE Unsuspend(s)
        <4>1. [subs[s] EXCEPT !.status = "active", !.grace = NoGrace, !.held = TRUE].held
          BY <1>2 DEF SubRows
        <4> QED  BY <3>2, <4>1 DEF Unsuspend
      <3> QED  BY <1>9, <3>1, <3>2
    <2>2. subs'[s].held
      BY <1>1, <2>1 DEF RenewalTypeOK
    <2>3. UNCHANGED <<now, invoices, pass, due>>
      BY <1>9 DEF Suspend, Unsuspend
    <2> QED  BY <1>1, <1>3, <2>1, <2>2, <2>3 DEF RenewalTypeOK
  <1>10. ASSUME NEW s \in Subs, NEW n \in Periods,
                \/ WebhookSettles(s, n) \/ PayRenewalWithWallet(s, n)
                \/ AdminApproveRenewal(s, n) \/ VoidRenewal(s, n)
         PROVE  BillingInv'
    <2>1. /\ \E to \in {"paid", "void"} : invoices' = [invoices EXCEPT ![s][n] = to]
          /\ invoices[s][n] \notin {"none", "paid"}
          /\ UNCHANGED <<now, subs, pass, due>>
      BY <1>10 DEF WebhookSettles, PayRenewalWithWallet, AdminApproveRenewal, VoidRenewal, SetInvoice
    <2>2. n = subs[s].period
      BY <1>1, <2>1, OpenIsCurrent
    <2>3. Current(s) # "none" /\ Current(s)' # "none"
      BY <1>1, <1>2, <2>1, <2>2 DEF Current, RenewalTypeOK
    <2>4. ASSUME ~subs'[s].held PROVE BilledInTime(s)'
      <3>1. BilledInTime(s)
        BY <2>1, <2>4 DEF BillingInv
      <3> HIDE DEF Current
      <3>2. /\ subs[s].status \notin {"none", "active"} /\ subs[s].end <= now
            /\ ~subs[s].inTime /\ \A w \in Workers : s \notin due[w]
        BY <2>3, <3>1, BilledIsOver
      <3> QED  BY <2>1, <2>3, <3>2 DEF BilledInTime
    <2>5. \A q \in Subs : q # s => invoices'[q] = invoices[q]
      BY <1>1, <2>1 DEF RenewalTypeOK
    <2> QED  BY <1>3, <2>1, <2>4, <2>5
  <1>11. ASSUME NEW s \in Subs, NEW n \in Periods, AdvancePeriodAfterPayment(s, n)
         PROVE  BillingInv'
    <2>1. CASE subs[s].status \notin Live
      BY <1>1, <1>2, <1>4, <1>11, <2>1 DEF AdvancePeriodAfterPayment, RenewalTypeOK
    <2>2. CASE subs[s].status \in Live
      <3> DEFINE k == subs[s].period + 1
                 e == subs[s].end + PeriodLength
      <3>1. /\ subs' = [subs EXCEPT ![s] = [subs[s] EXCEPT !.status = "active", !.period = k,
                          !.end = e, !.grace = NoGrace, !.cancel = FALSE, !.inTime = FALSE]]
            /\ UNCHANGED <<now, invoices, pass, due>>
        BY <1>1, <1>11, <2>2 DEF AdvancePeriodAfterPayment, Advanced, RenewalTypeOK
      <3>2. k \in Periods /\ k > subs[s].period
        BY <1>2, <1>11, RenewalBoundsAssumption DEF AdvancePeriodAfterPayment, Periods
      <3>3. Current(s) = "paid"
        BY <1>1, <1>11 DEF PeriodInv, AdvancePeriodAfterPayment, Current
      <3>4. invoices[s][k] = "none"
        BY <1>1, <3>2 DEF PeriodInv
      <3> HIDE DEF k, e
      <3>5. /\ subs'[s].status = "active" /\ subs'[s].period = k
            /\ ~subs'[s].inTime /\ subs'[s].held = subs[s].held
        BY <1>1, <1>2, <3>1 DEF RenewalTypeOK, SubRows
      <3>6. ASSUME ~subs'[s].held PROVE BilledInTime(s)'
        <4>1. BilledInTime(s)
          BY <3>5, <3>6 DEF BillingInv
        <4>2. \A w \in Workers : s \notin due[w]
          BY <3>3, <4>1, BilledIsOver
        <4>3. Current(s)' = "none"
          BY <3>1, <3>4, <3>5 DEF Current
        <4> HIDE DEF Current
        <4> QED  BY <3>1, <3>5, <4>2, <4>3 DEF BilledInTime
      <3> QED  BY <1>1, <1>3, <3>1, <3>6 DEF RenewalTypeOK
    <2> QED  BY <2>1, <2>2
  <1>12. ASSUME NEW s \in Subs, NEW n \in Periods, AdvanceLost(s, n) PROVE BillingInv'
    BY <1>2, <1>4, <1>12 DEF AdvanceLost
  <1>13. ASSUME NEW w \in Workers, BeginTransitions(w) PROVE BillingInv'
    <2>1. /\ \A s \in Subs : subs'[s] = Sweep(subs[s], now)
          /\ \A v \in Workers : pass'[v] = IF v = w THEN now ELSE pass[v]
          /\ UNCHANGED <<now, invoices, due>>
      BY <1>1, <1>13 DEF BeginTransitions, RenewalTypeOK
    <2>2. \A v \in Workers : pass'[v] <= now'
      BY <1>2, <2>1
    <2>3. ASSUME NEW s \in Subs, ~subs'[s].held PROVE BilledInTime(s)'
      <3> DEFINE r == subs[s]
                 q == subs'[s]
      <3>1. /\ q.period = r.period /\ q.end = r.end /\ q.held = r.held
            /\ q.status = "none" <=> r.status = "none"
            /\ q.status = "active" => q = r /\ ~(r.cancel /\ r.end <= now)
            /\ q.status = "past_due" => q = r
            /\ r.status = "active" /\ q.status # "active" => ~q.inTime
            /\ r.status # "active" => q.inTime = r.inTime
        BY <1>2, <2>1, SweptRow
      <3>2. BilledInTime(s)
        BY <2>3, <3>1 DEF BillingInv
      <3>3. Current(s)' = Current(s)
        BY <2>1, <3>1 DEF Current
      <3>4. /\ r.status \in {"none", "active"} => Current(s) = "none"
            /\ Current(s) # "none" => r.end <= now
            /\ r.status = "past_due" => r.end <= now
            /\ r.inTime => r.status = "active" /\ r.cancel
            /\ \A v \in Workers : s \in due[v] =>
                  r.status \notin {"none", "active"} /\ Current(s) = "none" /\ r.end <= now
            /\ \A u, v \in Workers : s \in due[u] /\ s \in due[v] => u = v
            /\ \A v \in Workers : r.inTime => r.end > pass[v]
        BY <3>2 DEF BilledInTime
      <3>5. q.inTime => q = r /\ q.status = "active" /\ q.cancel /\ ~(r.end <= now)
        BY <3>1, <3>4
      <3>6. ASSUME NEW v \in Workers, q.inTime PROVE q.end > pass'[v]
        <4>1. ~(r.end <= now) => r.end > now
          BY <1>2
        <4> QED  BY <2>1, <3>1, <3>4, <3>5, <3>6, <4>1
      <3>7. q.status \in {"none", "active"} => r.status = q.status
        BY <3>1
      <3> HIDE DEF Current
      <3>8. /\ q.status \in {"none", "active"} => Current(s)' = "none"
            /\ Current(s)' # "none" => q.end <= now'
            /\ q.status = "past_due" => q.end <= now'
            /\ q.inTime => q.status = "active" /\ q.cancel
            /\ \A v \in Workers : s \in due'[v] =>
                  q.status \notin {"none", "active"} /\ Current(s)' = "none" /\ q.end <= now'
            /\ \A u, v \in Workers : s \in due'[u] /\ s \in due'[v] => u = v
        BY <2>1, <3>1, <3>3, <3>4, <3>5, <3>7
      <3> QED  BY <3>6, <3>8 DEF BilledInTime
    <2> QED  BY <1>1, <2>2, <2>3 DEF BillingInv
  <1>14. ASSUME NEW w \in Workers, FlagDue(w) PROVE BillingInv'
    <2>1. PICK found \in SUBSET {s \in Subs : IsDue(subs[s], pass[w])} :
            /\ subs' = [q \in Subs |-> IF q \in found THEN Flag(subs[q], pass[w]) ELSE subs[q]]
            /\ due' = [due EXCEPT ![w] = found]
      BY <1>14 DEF FlagDue
    <2>2. /\ UNCHANGED <<now, invoices>> /\ pass[w] \in Nat
          /\ \A v \in Workers : pass'[v] \in {pass[v], NoPass}
          /\ \A v \in Workers : due'[v] = IF v = w THEN found ELSE due[v]
      BY <1>1, <1>2, <1>14, <2>1 DEF FlagDue, RenewalTypeOK
    <2>3. \A v \in Workers : pass'[v] <= now'
      BY <1>2, <2>2 DEF NoPass
    <2>4. ASSUME NEW s \in Subs, ~subs'[s].held, s \notin found PROVE BilledInTime(s)'
      <3>1. subs'[s] = subs[s] /\ invoices'[s] = invoices[s] /\ now <= now'
        BY <1>2, <2>1, <2>2, <2>4
      <3>2. BilledInTime(s)
        BY <2>4, <3>1 DEF BillingInv
      <3>3. \A v \in Workers : s \in due'[v] => s \in due[v]
        BY <2>2, <2>4
      <3> QED  BY <1>1, <2>2, <3>1, <3>2, <3>3, BilledFrame
    <2>5. ASSUME NEW s \in found, ~subs'[s].held PROVE BilledInTime(s)'
      <3> DEFINE g == pass[w] + Grace
      <3>1. s \in Subs /\ subs[s].status = "active" /\ subs[s].end <= pass[w]
        BY <2>1 DEF IsDue
      <3>2. subs'[s] = [subs[s] EXCEPT !.status = "past_due", !.grace = g]
        BY <2>1, <3>1 DEF Flag
      <3> HIDE DEF g
      <3>3. /\ subs'[s].status = "past_due" /\ subs'[s].end = subs[s].end
            /\ subs'[s].period = subs[s].period /\ subs'[s].inTime = subs[s].inTime
            /\ subs'[s].held = subs[s].held
        BY <1>2, <3>1, <3>2 DEF SubRows
      <3>4. BilledInTime(s)
        BY <2>5, <3>1, <3>3 DEF BillingInv
      <3>5. subs[s].end <= now /\ ~(subs[s].end > pass[w])
        BY <1>2, <2>2, <3>1
      <3>6. /\ Current(s) = "none" /\ ~subs[s].inTime
            /\ \A v \in Workers : s \notin due[v]
        BY <3>1, <3>4, <3>5 DEF BilledInTime
      <3>7. Current(s)' = "none"
        BY <2>2, <3>3, <3>6 DEF Current
      <3> HIDE DEF Current
      <3>8. \A v \in Workers : s \in due'[v] => v = w
        BY <2>2, <3>6
      <3> QED  BY <2>2, <3>3, <3>5, <3>6, <3>7, <3>8 DEF BilledInTime
    <2> QED  BY <1>1, <2>1, <2>3, <2>4, <2>5 DEF BillingInv
  <1>15. ASSUME NEW w \in Workers, WorkerStops(w) PROVE BillingInv'
    BY <1>1, <1>2, <1>4, <1>15 DEF WorkerStops, RenewalTypeOK
  <1>16. ASSUME NEW w \in Workers, NEW s \in Subs, CreateRenewalInvoice(w, s) PROVE BillingInv'
    <2> DEFINE n == subs[s].period
    <2>1. /\ invoices' = [invoices EXCEPT ![s][n] =
                            IF invoices[s][n] = "none" THEN "unpaid" ELSE invoices[s][n]]
          /\ UNCHANGED <<now, subs, pass>> /\ s \in due[w]
          /\ \A q \in Subs, v \in Workers : q \in due'[v] => q \in due[v]
          /\ s \notin due'[w]
      BY <1>1, <1>2, <1>16 DEF CreateRenewalInvoice, Listed, RenewalTypeOK
    <2>2. Current(s)' # "none"
      BY <1>1, <1>2, <2>1 DEF Current, RenewalTypeOK
    <2>3. ASSUME ~subs'[s].held PROVE BilledInTime(s)'
      <3>1. BilledInTime(s)
        BY <2>1, <2>3 DEF BillingInv
      <3> HIDE DEF Current
      <3>2. /\ subs[s].status \notin {"none", "active"} /\ subs[s].end <= now
            /\ ~subs[s].inTime /\ \A v \in Workers : s \in due[v] => v = w
        BY <2>1, <3>1 DEF BilledInTime
      <3>3. \A v \in Workers : s \notin due'[v]
        BY <2>1, <3>2
      <3> QED  BY <2>1, <2>2, <3>2, <3>3 DEF BilledInTime
    <2>4. \A q \in Subs : q # s => invoices'[q] = invoices[q]
      BY <1>1, <2>1 DEF RenewalTypeOK
    <2> QED  BY <1>3, <2>1, <2>3, <2>4
  <1>17. ASSUME NEW w \in Workers, NEW s \in Subs, RenewalInvoiceFails(w, s) PROVE BillingInv'
    BY <1>1, <1>2, <1>4, <1>17 DEF RenewalInvoiceFails, Listed, RenewalTypeOK
  <1>18. CASE UNCHANGED renewalVars
    BY <1>2, <1>4, <1>18 DEF renewalVars
  <1> QED
    BY <1>5, <1>6, <1>7, <1>8, <1>9, <1>10, <1>11, <1>12, <1>13, <1>14, <1>15, <1>16, <1>17, <1>18
       DEF RenewalNext, InvoiceStep

\* Initially nothing is billed, listed or under way.
LEMMA BillingInit == RenewalInit => BillingInv
  <1> SUFFICES ASSUME RenewalInit PROVE BillingInv
    OBVIOUS
  <1>1. PeriodInv
    BY TypeInit DEF RenewalInit, PeriodInv, NoFreePeriod, Periods
  <1>2. \A w \in Workers : pass[w] <= now
    BY DEF RenewalInit, NoPass
  <1>3. ASSUME NEW s \in Subs PROVE BilledInTime(s)
    <2>1. 0 \in Periods
      BY RenewalBoundsAssumption DEF Periods
    <2>2. /\ subs[s].status = "none" /\ ~subs[s].inTime /\ Current(s) = "none"
          /\ \A w \in Workers : due[w] = {}
      BY <2>1 DEF RenewalInit, Current
    <2> QED  BY <2>2 DEF BilledInTime
  <1> QED  BY <1>1, <1>2, <1>3 DEF BillingInv

\* No renewal is billed before its period has ended, for any number of workers:
\* a list that a worker carries from its pass to its invoices may be old, but
\* nothing on it can have been paid, advanced or listed again meanwhile.
THEOREM NobodyIsBilledEarly == RenewalSpec => []NotBilledEarly
  <1>1. BillingInv => NotBilledEarly
    <2> SUFFICES ASSUME BillingInv, NEW s \in Subs, ~subs[s].held, NEW n \in Periods,
                        invoices[s][n] # "none"
                 PROVE  n < subs[s].period \/ (n = subs[s].period /\ subs[s].end <= now)
      BY DEF NotBilledEarly
    <2>1. n \in Int /\ subs[s].period \in Int
      BY RenewalBoundsAssumption DEF BillingInv, PeriodInv, RenewalTypeOK, SubRows, Periods
    <2>2. ~(n > subs[s].period)
      BY DEF BillingInv, PeriodInv
    <2>3. n = subs[s].period => subs[s].end <= now
      BY DEF BillingInv, BilledInTime, Current
    <2> QED  BY <2>1, <2>2, <2>3
  <1> QED  BY <1>1, BillingInit, BillingStep, PTL DEF RenewalSpec

\* A customer who asks in time to leave is not billed again, whichever passes of
\* however many workers the request falls between: the sweep of a pass closes
\* the subscription before any pass as late as it flags due ones.
THEOREM NobodyIsBilledAfterLeaving == RenewalSpec => []FlaggedIsNotBilled
  <1>1. BillingInv => FlaggedIsNotBilled
    BY DEF BillingInv, BilledInTime, FlaggedIsNotBilled
  <1> QED  BY <1>1, BillingInit, BillingStep, PTL DEF RenewalSpec
=============================================================================

# Kilat Cloud: specifications, model checks and proofs

Kilat Cloud sells virtual machines. A Go back end (`src/backend`) takes orders, collects
money through a payment gateway or from a prepaid wallet, renews subscriptions, and drives
machines at Onidel, Proxmox, VMware and Dokploy; five React applications
(`src/frontend/apps/console-*`) present it. The API server (`cmd/api`) and any number of
workers (`cmd/worker`) share one PostgreSQL database at READ COMMITTED and one Redis.

Everything hard in this program happens between two statements: two processes that act on
one row, a gateway that repeats and reorders its webhooks, a worker that dies between a
provider's answer and its recording. This project models those parts in TLA+, checks them
with TLC on small instances and proves what matters most for all instances with TLAPS.

## 1. Inventory

| Part | State | Operations | What is hard | What makes it correct |
|---|---|---|---|---|
| Wallet ledger (`wallet/service.go`) | `wallets.balance`, `wallet_transactions` | `ApplyTransaction` inside the caller's transaction | concurrent callers, a repeated key, a rollback anywhere | the ledger explains the balance, no overdraft, a key is spent once |
| Payments, invoices, orders (`payment/`, `billing/service.go`, `api/handlers_*`) | orders, invoices, payments, payment_events | create, cancel, pay from the wallet, `ProcessWebhook`, approve, void, adjust | webhooks in any order and number, administrators who read and later write, calls after a commit | nothing is booked twice, nothing is paid for free, nothing charged is lost |
| Subscriptions and renewals (`subscription/`, `billing/renewal.go`, worker) | subscriptions, renewal invoices; the list of due ones in a worker's memory | `Activate`, `Cancel`, `ProcessTransitions`, `CreateRenewalInvoice`, `AdvancePeriodAfterPayment` | passes of several workers, a cancellation between two statements, calls lost after a commit | no free period, no early expiry, no early bill, nothing overdue for ever |
| Job queue (`platform/queue`) | jobs with lease, attempts and delay | enqueue, claim, complete, fail, administrator's retry and cancel | crashes, leases, host names, lost status writes | one runner per job, all attempts are made, every job ends |
| Outgoing webhooks (`webhook/deliverer.go`) | webhook_deliveries | `Deliver`, run as a job | a crash between the receiver's answer and its recording | success means delivered, a settled delivery is not posted again |
| Affiliate programme (`affiliate/service.go`) | settings, earnings | accrue, withdraw, reverse | a withdrawal of several statements against everything else | never pays more than was earned |
| Instance provisioning (`compute/`, worker) | instances, machines at the provider, provider_actions, a Redis lock | provision, sync, suspend, rename, terminate | a create call that returns no id, duplicate runs, lost answers | one provisioner, a stable mapping to one's own machine |
| Idempotency middleware (`api/middleware_idempotency.go`) | `idempotency_keys`: owner, status, stored answer, expiry | look up, replay, reserve, run the handler, store, release | five statements without a transaction, requests of several processes between them, a death after the handler's commit, a handler that commits and then fails | one request of a key commits anything, and what clients are told agrees with it |
| Customer console (`frontend/apps/console-user`) | the cookie and `localStorage`, shared by all tabs; React state of one tab; calls and timers in flight | sign in, validate, load and select organizations, navigate; quote and order an instance; top up and poll | late, lost and out-of-order answers, a 401 to any of them, other tabs that change the user, effects that cancel each other | acts for one's own organization, shows the price of what is selected, waits for nothing for ever |
| Coupons, reconciliation, snapshots, resource limits | their rows | see section 7 | read-then-insert limits, machines nobody maps | planned |
| Passwords, MFA, OAuth, API keys, organizations, IAM, networks, storage, tickets, adapters, platform, the other four front ends | single rows, I/O, presentation | see `PROJECT.json` | little state of their own | not modelled |

How they interact: `Settlement`, `Affiliate` and the administrator's handlers call the wallet
inside their own transactions. `ProcessWebhook` commits and then calls the affiliate and
subscription services, each in a transaction of its own. The hourly job and every operation
on a machine or a delivery are jobs of the queue. The worker and the API act on the same
`instances` rows. The idempotency middleware stands in front of the handlers that create
orders, payments, top-ups, instances, snapshots, addresses, buckets and API keys, after
authentication and before the check of the organization. The console calls the API with the
cookie of the browser, whoever has signed in with it last, and learns of a credited top-up only
by polling.

`PROJECT.json` lists every part, and under "hazards" what is hard to test in each of them, at
its line. Three hazards lie outside the models and are part of the plan: an invoice whose total is
zero can be paid neither from the wallet (`wallet/service.go:64`) nor through the gateway; two
orders can use the last redemption of a coupon (`billing/service.go:340`); a termination that runs
before the machine is mapped leaves the machine running (`cmd/worker/main.go:1270`).

## 2. Modules

| Module | Models | Variables | Uses |
|---|---|---|---|
| `Wallet` | the abstract promise: the balance moves only with one appended entry | `balance`, `ledger` | |
| `WalletTx` | `ApplyTransaction` statement by statement: row lock, insert, update, commit, rollback | + `rowLock`, `tx` | implements `WalletSpec` |
| `Settlement` | orders, invoices, payments, gateway, webhooks, administrators | `orders`, `invoices`, `payments`, `gateway`, `sent`, `events`, `requests`, `postCommit`, `accrued` | extends and implements `Wallet` |
| `Renewal` | subscriptions, passes, renewal invoices | `now`, `subs`, `invoices`, `pass`, `due`, `postCommit` | |
| `JobQueue` | table `jobs` and the worker processes | `jobs`, `procs`, `name`, `requests`, `faults` | |
| `Delivery` | `Deliver` as a handler | + `phase`, `delivered`, `posts` | composed with `JobQueue` |
| `Affiliate` | accrual, withdrawal, reversal | `settings`, `settled`, `earnings`, `selected` | extends and implements `Wallet` |
| `Provisioning` | rows, machines, runs of handlers, the lock | `inst`, `vms`, `job`, `run`, `lock`, `recorded`, `crashes` | |
| `OncePerKey` | the abstract promise of an Idempotency-Key: at most one request of a key takes effect, wholly or in part, and clients are told about that one | `asked`, `effects`, `finished`, `told` | |
| `Idempotency` | the middleware statement by statement | `row`, `req`, `effects` | implements `OncePerKey` (`Promise == INSTANCE OncePerKey WITH ...`) |
| `ConsoleSession` | `AuthProvider`, `OrgProvider`, the 401 handler, other tabs | `cookie`, `storedOrg`, `view`, `check`, `profile`, `listOf`, `orgId`, `orgLoads`, `page`, `events` | |
| `InstanceWizard` | the page that prices and orders an instance | + `wizard`, `quoteCalls`, `order` | extends `ConsoleSession` |
| `TopupPage` | the page that tops up the wallet, and the wallet as it sees it | + `wallet`, `unpaid`, `topup`, `loads`, `creating` | extends `ConsoleSession` |
| `CustomerConsole` | what a step of one means for the others | all of these | composes the three |
| `WalletProofs`, `SettlementProofs`, `RenewalProofs`, `ProvisioningProofs`, `IdempotencyProofs`, `ConsoleProofs` | theorems about the module of the same name (`ConsoleProofs`: `CustomerConsole`) | | |
| `JobQueueProofs` | theorems about `JobQueue` and `Delivery` | | |
| `RowLockProofs` | theorems about `WalletTx` and `Affiliate`: what the row locks of `SELECT ... FOR UPDATE` buy; lemmas about finite sums | | |
| `MC*` | constants, symmetry sets | | |

Conventions. A transaction that locks what it reads is one step. A handler that reads and
later writes is two steps with the request kept between them. What runs after a commit is a
step of its own, which may get lost. A transaction that fails rolls back and is a step that is
not enabled. A statement whose error is ignored has a step in which it does nothing. An
operator with the comment "Mutant of ..." is a wrong variant used only to show that a property
notices it; no specification uses it.

Correspondence that deserves a word:

- **Wallet.** An idempotency conflict is a unique violation, after which PostgreSQL refuses
  every further statement, so a caller that swallows the error still cannot commit: only
  `Outcome = "ok"` takes a step. Money is a whole number of minor units.
- **Settlement.** The statuses failed, expired and cancelled are handled alike and are one.
  `gateway` is the truth at the gateway, `sent` its reports, which arrive any number of times
  and in any order. With SumoPod the payment row exists before its link does (`linked`), and
  nobody can be charged without the link: when the gateway knows a payment whose row was not
  completed, the customer has been answered with an error and the row stays pending. Events of
  other statuses are recorded and change nothing; they are left out. An event id stands for one
  fact. For SumoPod it is made of the payment and the event type, so this assumes that the
  gateway gives the outcomes of a payment types of their own; otherwise a `completed` would be
  taken for a repetition of an earlier event of its type.
  Amounts are positive; coupons, taxes and fractions are not modelled.
- **Renewal.** A pass is two steps, because each of its statements sees what was committed
  before it while all use one time. Payments of renewal invoices are abstracted from
  `Settlement`: settling an invoice is atomic here, the administrator's void included.
  `Suspend` and `Unsuspend` have no caller in the repository; `ManualHold` switches them on.
  Time is a natural number; the length of a month is one constant.
- **JobQueue.** Times are ages and delays. A handler ends with its context, and its context is
  shorter than the lease; `LeaseAssumption` states that, and `InTime` enforces the context.
  The order in which ready jobs are claimed is left open. `KeepsName` says whether a restarted
  worker has the host name it had before.
- **Idempotency.** A key stands for the pair (scope, key). Of a handler the model keeps what it
  commits and what it answers. It succeeds (`HandlerSucceeds`); it answers with an error through
  `WriteError`, which returns nil, before it has committed anything (`HandlerRefuses`) or after
  (`HandlerFailsHalfway`: `handleCreateOrder` commits the order and then fails to invoice it,
  `createSumopodPayment` commits the payment's row and then fails at the gateway); or it returns an
  error of its own, which releases the row (`HandlerErrs`). The last one commits nothing: after
  their first commit all eight handlers end in `WriteError` or in `JSON` of a record that can be
  encoded. A handler that returned an error after a commit would break the promise, because the
  row is deleted and a retry would commit again; so would a middleware that released the row on
  every error status, which is the mutant `ReleaseOnErrors`. A request dies with its process or by a panic, which
  is recovered outside the middleware. Nothing deletes expired rows, so after 24 hours a key
  can be neither replayed nor reserved. A `200 {}` from a row without an answer carries nobody's
  answer, and a row that is answered with an error between the two SELECTs of a retry gives it a
  200 with that error; the refinement mapping (`Told`) calls it "hollow", a reply that says nothing, and
  `NoFabricatedSuccess` (section 5) is about it.
- **ConsoleSession.** A call carries the cookie it was sent with and is answered "ok" only if
  that session was good and, where the API asks for it, its user is a member; it may always fail
  or be answered 401, because the session check treats a database error as a bad session and
  clears the cookie. The three role probes are one call. Sign-in happens on the auth console, a
  different origin: going there is a page load that ends every call of the tab.
- **InstanceWizard, TopupPage.** A selection stands for everything a price depends on. Each run
  of the quote effect cancels the timer and the call of the one before; of a cancelled call only
  its possible 401 matters, so its contents are dropped. A balance call returns any balance the
  wallet had between sending and answering. The server has one unpaid top-up at a time.
- **Affiliate.** One currency: the loop repeats the same statements on other rows. A withdrawal
  locks its rows in one step; a deadlock that PostgreSQL breaks is a rollback.
- **Provisioning.** The queue is abstracted to "run again until it succeeds or is given up",
  with at most one unfinished job of a kind per instance. The administrator's check and set
  are one step. The provider's calls fail, work, or work without saying so. Its listing may
  lack a machine.

## 3. What is checked

| Run | Instance | Distinct states | Shows |
|---|---|---|---|
| `wallet_tx` | 1 wallet, 2 transactions, 2 keys, 3 entries, amounts -1..2 | 8,407 | `TxTypeOK` (a row's lock is held by the transaction that selected it), `LedgerChained`, `NeverOverdrawn`, `KeysSpentOnce`; `WalletTx` implements `WalletSpec` |
| `settlement` | 1 order, 2 payments, SumoPod | 518,056 | `TopupBookedOnce`, `CreditImpliesPaid`, `PaidInvoiceIsBacked`, `CancelledNotPayable`; the handlers implement `WalletSpec` |
| `settlement_live` | 1 order, 1 payment, every fact under 2 event ids, 1 adjustment | 102,246 | `ChargedTopupIsCredited`, `ChargedInvoiceIsPaid` |
| `renewal` | 1 subscription, 2 workers, 7 time units, 2 periods, failures, suspension by hand | 284,007 | `NoFreePeriod`, `NoEarlyExpiry`, `NotBilledEarly`, `FlaggedIsNotBilled`, `OverdueIsResolved` |
| `queue_admin` | 1 job, 2 workers of one host name, 1 fault, administrators | 3,763 | `NotGivenUpEarly`, `EveryJobEnds` |
| `queue_delivery` | 2 deliveries, 2 workers of one host name, 1 fault | 41,040 | `OneRunnerPerJob`, `RunnerHoldsLease`, `SuccessMeansDelivered`, `SuccessIsFinal`, `SettledNotPostedAgain`, `DeliveredOrGivenUp` |
| `affiliate` | 2 invoices, 2 users, 2 concurrent withdrawals | 50,600 | `NeverOverpaid`, `EarningsAreSettled`; the handlers implement `WalletSpec` |
| `provisioning` | 1 instance, 2 concurrent runs, 2 machines, 1 crash | 1,302,849 | `OneProvisioner`, `MappingIsStable` |
| `provisioning_two` | 2 instances, 2 concurrent runs, 2 machines | 2,197,738 | `MappedToOwnVM` |
| `idempotency` | 2 keys, 3 requests, 2 bodies | 857,717 | `Owned`; the middleware implements `OncePerKey` (`PromiseKept`) |
| `console` | 2 users, 2 organizations (one shared), 2 selections, 3 events, 2 calls of a kind in flight | 63,443 | `OrgIsOwn`, `QuoteIsForSelection`, `LiveQuote`, `CheckEnds`, `PendingEnds` |
| `v_paid_not_advanced` | 1 subscription, no failures | violated | section 5 |

Every property is stated in words above its definition, and for each one `PROJECT.json` names
a wrong variant of the code under which TLC finds it violated.

**Why the bounds are enough.** The interesting cases need two actors on one row, so there are
two of whatever competes (transactions, payments of one order, workers, processes,
withdrawals, runs) and one of what they compete for. Two event ids show that a fact reported
twice is booked once. Seven time units let a subscription pass through a period (2), grace (1)
and suspension (1) and still be renewed, and two periods let a late advance meet the next
one. Two attempts and one fault let a job fail, lose its worker and be taken back. Two
machines are one more than an instance should have. One wallet is the hard case: every row
shares it. Three requests with one key are one that runs, one that meets its row and one that
meets what they leave behind. In the console three events are a sign-in, a page and one thing
that goes wrong or changes meanwhile (another user in another tab, another organization, a
failed call, a reload); two calls in flight are enough to be answered in the wrong order.
`MaxEvents`, `MaxQuoteCalls`, `MaxLoads`, `MaxBalance`, `MaxPolls`, `MaxEntries`,
`MaxAdjustments`, `Copies`, `Horizon`, `MaxPeriods`, `MaxFaults`, `MaxRuns` and `MaxCrashes` bound the state space and stand for nothing in the code.

**Deadlock** is not checked: all orders may be settled and all jobs done, and the bounds stop
the clock. That nothing gets stuck which should not is stated by the liveness properties.

**Symmetry** is used for payments, withdrawals, machines and runs in runs without
liveness; no property names one of them.

**Fairness.**
- The gateway repeats the report of a charge until it is accepted, so the processing of a
  `paid` event is weakly fair. Nothing is assumed of its other reports.
- The hourly ticker of the worker makes `BeginTransitions` (of some worker), `FlagDue`,
  `CreateRenewalInvoice` and the clock weakly fair. A failure of any of them may always happen
  instead.
- After a commit the process goes on, so `RecordCommission` and `AdvancePeriodAfterPayment`
  are weakly fair; `LosePostCommit` and `AdvanceLost` may win.
- Workers poll every five seconds and are restarted by their supervisor, and a handler ends
  with its context. The claim is strongly fair per job, because it is ordered by `run_after`
  and a job may be claimable only now and then.
- Timers fire while the tab is open, and a call is answered or fails in the end, because the
  server and the browser give up on it: timers and answers of the console are weakly fair. What
  is answered is not assumed, and nothing is assumed of the customer: `LiveQuote` and
  `PendingEnds` speak of a selection and an organization that are left alone.

**Refinement.** `Promise` in `Idempotency` maps the rows and program counters of the middleware
to what clients have asked and been told: `asked` is the key of each request, `told` is derived
from its reply and from whose effect that reply describes, and `finished` are the requests that
took effect and whose handler was successful: a request that failed half-way is in `effects` and
not in `finished`, so the promise allows it to be told of a failure, and never anybody of a
success. `WalletSpec` is a property of three
runs. Its variables are variables of `WalletTx`, `Settlement` and `Affiliate`, so the refinement
mapping is the identity on them and hides the rest: each handler moves a balance only by one
proper entry.

## 4. What is proved

All proofs are checked by TLAPS for every value of the constants that satisfies the named
assumptions of the module. A theorem that needs more says so in its `ASSUME`. Every safety
property that a run checks, invariant, action property or refinement, is stated by a theorem.
Each inductive invariant below was first checked by TLC on the instances of section 3.

The ledger.

- `WalletProofs!WalletCorrect`, `LedgerCorrect` (`AmountsAssumption`, `NoKeyAssumption`): the
  ledger of every wallet chains up to its balance, no wallet is overdrawn, no key is spent
  twice. The inductive invariant is the conjunction of the three with the type: the new entry
  starts at the balance because the chain ends there. `EntryWritten` says what a call appends,
  `CallKeepsInv` has one step per conjunct.
- `RowLockProofs!RowLocksMakeCallsAtomic` (+ `NoTxAssumption`): `TxSpec => WalletSpec` for any
  number of concurrent transactions. `Commit` writes what was computed when the row was
  selected; `TxInv` says that whoever has selected a row holds its lock, and that its entry is
  still the one a call would write now. `PendingKept` carries that through the steps of others.
  `ConcurrentCallsNeverOverdraw`, `ConcurrentCallsSpendKeysOnce` and
  `ConcurrentCallsKeepTheLedger` follow from this and `LedgerCorrect`.
  `LocksAreHeldInTransactions` adds the other direction, which the refinement does without: a
  lock belongs to a transaction that is under way (`LockInv`).

Those who use it.

- `SettlementProofs!HandlersOnlyMakeCalls`: `SettlementSpec => WalletSpec`, so that
  `LedgerCorrect` holds of orders, webhooks and administrators, too. `NothingIsBookedTwice`,
  `CreditedIsShownPaid`, `NoInvoiceIsFree` and `NoCancelledOrderIsPayable` state the four
  invariants of the run. All rest on `SettlementCorrect`: `SettlementInv` adds to the properties
  and the types that events and requests under way are about rows that exist, that a payment
  for an invoice is for its whole total, which never changes, and that every entry carries its
  reference as its key, adjustments excepted (`KeysFollowRefs`), which is why `KeysSpentOnce`
  turns into `TopupBookedOnce`. `OrderMoves`, `InvoiceMoves` and `PaymentMoves` say how a step may
  change a row and `Books` how it may change the ledger; every action is shown to be one of these
  moves, and the invariant is shown for the moves.
- `RowLockProofs!AffiliateCorrect`: the rows that a withdrawal holds stay approved, and held rows
  belong to the same user exactly when the same withdrawal holds them. The second part is what
  makes the first inductive: `WithdrawCommit` marks by the user and not by the rows it selected,
  and would otherwise pay rows that somebody else holds. `CommissionIsCovered` bounds the rounding.
  `SettledEarningsStay` is the action property `EarningsAreSettled`.
- `RowLockProofs!NobodyIsOverpaid` (finitely many invoices and wallets): `[]NeverOverpaid`. Both
  sides are sums over sets. A sum of natural numbers is a number of coins (`Count`):
  `FoldExists` shows that counting solves the equation by which `MapThenSumSet` is defined,
  `FoldIsCount` that nothing else does, by induction over the subsets of a finite set
  (`SubsetInduction`, in a first-order form that takes a set instead of a predicate). Then a commit
  raises the left side by the sum of the rows it holds (`CountRaised`), and the right side by at
  least as much, for these rows were approved and become paid (`PaidGrows`). Equality is false
  (`VPayoutLost.cfg`).
- `RowLockProofs!PayoutsAreCalls` (finitely many invoices, every natural number an amount):
  `AffiliateSpec => WalletSpec`. The model gives TLC only the amounts that its invoices can add
  up to.

The queue and what it runs.

- `JobQueueProofs!NobodySharesAJob` and `RunnersHoldTheirLease` (`LeaseAssumption`,
  `QueueNamesAssumption`, no administrators): `[]OneRunnerPerJob` and `[]RunnerHoldsLease` for
  any number of jobs, workers and host names. `LeaseInv` adds that the lease of a running job is
  no older than the run; a run ends with its context, which is no longer than the lease, so a job
  in somebody's hands is never stale (`RunIsNotClaimable`). With administrators both are false
  (`VAdminJobs.cfg`, `VDoublePost.cfg`). `SuccessStays` is `SuccessIsFinal` under the same
  condition: only the one process that holds a job writes its result.
- `JobQueueProofs!NobodyGivesUpEarly` and `QueueTypeCorrect`: `[]NotGivenUpEarly` and
  `[]QueueTypeOK`, with administrators. A process may then decide on a job that others have run
  since, but `AttemptsInv` says that its attempt is never ahead of the row's.
  `BackoffIsADelay` shows that the backoff is a natural number: the provers do not know powers,
  but a library theorem counts the subsets of `1 .. n`.
- `JobQueueProofs!DeliveriesAreQueued`: `DeliverySpec => QueueSpec`, so that all of this holds
  while webhooks are delivered. `DeliveryTypeCorrect` is unconditional. `SuccessIsADelivery` and
  `SettledStaysSettled` (no administrators) use `DeliveryInv`: what a call of `Deliver` has read
  stays true while it is under way, for nobody else runs its job (`CallInv`). With administrators
  the second is false (`VDoublePost.cfg`).
- `ProvisioningProofs!LockAdmitsOne` and `MappingsDoNotMove`: `[]OneProvisioner` and
  `MappingIsStable` for any number of instances, handlers and machines. `ProvInv` adds to the
  types that a provisioner past its first step holds the lock of its instance, whatever crashes
  and expirations have left behind. The proof goes by what a step may do to one run, row, machine
  and job (`RunMoves`, `InstMoves`, `VMMoves`, `JobMoves`).
- `ProvisioningProofs!MachinesAreOwn` (names that differ, no renames): `[]MappedToOwnVM`. `OwnInv`
  says that rows, runs that look for a machine and machines that are up carry the name of their
  instance. With equal names it is false (`VSameName.cfg`), and a rename can make names equal.

Subscriptions, requests and the console.

- `RenewalProofs!RenewalTypeCorrect`: type correctness of `Renewal`.
- `RenewalProofs!NobodyGetsAFreePeriod`: `[]NoFreePeriod`. Not inductive on its own:
  `AdvancePeriodAfterPayment` runs after the webhook's commit and trusts the row it finds, so
  `PeriodInv` adds that a pending advance always belongs to the paid invoice of the current
  period and that no invoice is ahead of its subscription. Then there is at most one pending
  advance per subscription, which is why a second one cannot push it through an unpaid period.
- `RenewalProofs!NobodyExpiresEarly`: `[]NoEarlyExpiry`. `TimeInv` adds that a grace deadline
  is never less than the grace time after the period's end, and that rows which were never
  activated have none; `SweptRow` says what a pass does to a row.
- `RenewalProofs!NobodyIsBilledEarly` and `NobodyIsBilledAfterLeaving`: `[]NotBilledEarly` and
  `[]FlaggedIsNotBilled`. `BillingInv` extends `PeriodInv`: a subscription that was not held by
  hand is on the list of at most one worker, and one on a list is over, not active and not yet
  billed, so an old list does no harm; a flag that was set in time is set on an active row
  whose period ends after every pass under way, so the sweep of a later pass closes it before
  any pass can flag it. The renewal theorems allow failures, manual suspension and any number of
  workers.
- `IdempotencyProofs!KeysHaveOneOwner` (`NamesAssumption`): `[]Owned`, which is inductive with the
  type: the row of a key belongs to one request, which alone answers it, releases it or takes
  effect, and a row whose request took effect, be it half of it, is never released. A request
  that took effect is told what its handler answered, or nothing.
- `IdempotencyProofs!MiddlewareKeepsPromise`: `IdemSpec => PromiseKept`, the refinement of
  `OncePerKey`. `Owned` rules out a second effect; `PromiseStep` maps each statement to a step
  of the promise or to a stutter (`AnswerTells` for the answers, `ToldKept` for everybody else's,
  `FinishedKept` for who has finished). What is not promised, because the code does not keep it:
  that whoever is told of a failure has committed nothing (`FailureLeavesNothing`, section 5).
- `ConsoleProofs!ActiveOrgIsOwn` and `LatePricesAreDropped`: `[]OrgIsOwn` and
  `QuoteIsForSelection` for any number of users, organizations, prices and calls in flight.
  `ConsoleInv` adds that a session which may be answered is a user's, so that a list that arrives
  is a user's list, and that a quote call which was not cancelled was sent by the page on display
  for the selection and the organization it displays (`CallsAreCurrent`).

Only model-checked: the liveness properties (`ChargedTopupIsCredited`, `ChargedInvoiceIsPaid`,
`OverdueIsResolved`, `EveryJobEnds`, `DeliveredOrGivenUp`, `LiveQuote`, `CheckEnds`,
`PendingEnds`), for liveness under fairness is out of this prover's reach, and what section 5 says
is violated.

## 5. Disagreements between the code and what it says

One is a run of `PROJECT.json`:

- `v_paid_not_advanced` (`PaidRenewalAdvances`). `subscription/service.go:189`: "the worker
  creates those invoices via billing and calls AdvancePeriodAfterPayment once paid". Only the
  webhook does. A renewal paid from the wallet, or approved by an administrator, leaves its
  subscription past due until it is suspended and expires.

### Further disagreements

Each of these has a configuration beside the modules: `tlc -config <cfg> <module>`, and TLC finds
the property violated. Properties that share an instance share a file, which has one of them
active and the others in comments.

| Configuration (module) | Property | What the repository says | What TLC shows |
|---|---|---|---|
| `VRefundCap.cfg` (`MCSettlement`) | `RefundIsCapped` | `payment/service.go:465` "Balance may already be spent; cap the reversal at the current balance" | on an insufficient balance nothing is taken back at all |
| `VSettlement.cfg` (`MCSettlement`) | `OnlyCreditedIsReversed` | `payment/service.go:436` "a wallet topup that was already credited" | a refund event that overtakes the paid one debits other money |
| `VSettlement.cfg` (`MCSettlement`) | `PaidInvoiceNotVoided` | `handlers_admin_billing.go:477` "a paid invoice cannot be voided" | an invoice paid between the read and the write is voided |
| `VSettlement.cfg` (`MCSettlement`) | `PaidOrderNotCancelled` | `handlers_orders_invoices.go:255` "Paid or completed orders are final." | the administrator's approval, like a payment from the wallet, leaves the order in processing, and it can be cancelled |
| `VSettlement.cfg` (`MCSettlement`) | `PaidAgainIsARepeat` | `payment/service.go:600` "another webhook event already settled this invoice" | the charge of a second payment of an invoice is booked nowhere |
| `VSettlementLive.cfg` (`MCSettlement`) | `EveryWebhookIsAccepted` | `payment/service.go:570` "duplicate credit attempt; already settled" | the conflict has aborted the transaction, so the event fails on every repeat |
| `VSettlementLive.cfg` (`MCSettlement`) | `CommissionIsAccrued` | `payment/service.go:495` "can be re-accrued by re-processing the invoice" | nothing re-processes a paid invoice |
| `VRenewal.cfg` (`MCRenewal`) | `PastDueIsInvoiced` | `cmd/worker/main.go:1798` "the next tick re-flags it because it stays past_due." | only active subscriptions are flagged; it is never invoiced |
| `VRenewal.cfg` (`MCRenewal`) | `SettledRenewalAdvances` | `payment/service.go:486` "is retried by the next reconciliation pass" | no pass advances a paid subscription |
| `VRenewal.cfg` (`MCRenewal`) | `FlagIsHonoured` | `subscription/service.go:144` "the flag is recorded and the subscription stays active until ProcessTransitions closes the period" | a flag set on a past-due row is never acted on |
| `VJobLost.cfg` (`MCJobQueue`) | `CrashedJobIsTakenBack` | `queue.go:66` "so operations are never lost permanently on a worker crash" | a job whose host name does not return stays running |
| `VAdminJobs.cfg` (`MCJobQueue`) | `RunningJobIsNotRetried` | `handlers_admin_ops.go:341` "cannot retry a running job" | a job claimed between the read and the write is queued again |
| `VAdminJobs.cfg` (`MCJobQueue`) | `RunningJobIsNotCancelled` | `handlers_admin_ops.go:359` "only queued or retry jobs can be cancelled" | likewise cancelled while it runs |
| `VDoublePost.cfg` (`MCDelivery`) | `RetriedJobNeverDoublePosts` | `deliverer.go:36` "a retried job never double-posts a settled delivery" | a job retried while it runs is run twice, and the run that loaded the row first posts after the other has settled it |
| `VPayoutLost.cfg` (`MCAffiliate`) | `PaidIsCredited` | `affiliate/service.go:332` "moves ALL approved earnings of the user to paid and credits the organization wallet" | earnings accrued between the SELECT and the UPDATE are marked paid and not credited |
| `VSameName.cfg` (`MCProvisioning`) | `NamesIdentifyVMs` | `cmd/worker/main.go:636` "(names are unique per scope)" | two instances of one name can be mapped to each other's machine |
| `VRecreated.cfg` (`MCProvisioning`) | `SuccessIsNotReplayed` | `cmd/worker/main.go:606` "a replayed successful job never re-calls the provider create call." | the recorded success is not looked at before the call |
| `VTermination.cfg` (`MCProvisioning`) | `DeletedStaysDeleted` | `cmd/worker/main.go:1267` "already terminated; idempotent replay" | a sync that loaded the row before a termination writes a live status after it |
| `VTermination.cfg` (`MCProvisioning`) | `RefusedMeansTerminated` | `compute/service.go:444` "already terminated" | a failed destroy leaves the row in deleting, and every later request is refused while the machine is up |
| `VRecreated.cfg` (`MCProvisioning`) | `NoDoubleVM` | `Master Prompt Backend Kilat Cloud.md:3435` "Provisioning tidak menghasilkan double VM." | a run that fails between the create call and the mapping is run again and creates a second machine |
| `VIdempotency.cfg` (`MCIdempotency`) | `DifferentBodyConflicts` | `middleware_idempotency.go:20` "same key with a different body conflicts" | the lookup does not compare hashes: another body gets the first one's answer |
| `VIdempotency.cfg` (`MCIdempotency`) | `NoFabricatedSuccess` | `middleware_idempotency.go:103` "a failed request must never be cached/replayed as a fabricated success" | a retry that meets a reservation, of a request that runs, died or could not release it, gets `200 {}` |
| `VIdempotency.cfg` (`MCIdempotency`) | `ErrorsAreNotReplayed` | `middleware_idempotency.go:102` "Release the reservation so the client can retry with the same key" | a handler's error goes through `WriteError`, which returns nil: it is stored and replayed |
| `VIdempotency.cfg` (`MCIdempotency`) | `FailureLeavesNothing` | `middleware_idempotency.go:102` "Release the reservation so the client can retry with the same key" | an order whose invoice failed, or a payment's row whose gateway call failed, is committed; its key answers the error for a day and a conflict after that, so a retry with the key never completes it |
| `VConsole.cfg` (`MCConsole`) | `OrderedAtItsPrice` | `CreateInstance.tsx:223` "Pricing comes from a live quote." | until the next quote arrives the previous selection's price, or 0, is what is ordered |
| `VConsole.cfg` (`MCConsole`) | `ToastMeansCredited` | `Topup.tsx:112` "Top-up credited to your wallet" | the balance of another organization, another credit or a balance first loaded after the click is taken for the top-up |

## 6. What is not modelled

Calendar arithmetic of periods, one-time subscriptions, coupons, taxes and fractional money;
power actions, resize, snapshots, backups, ISO images, restore, clone, migrate and rebuild;
registration of webhook endpoints and their signatures; codes and statistics of the affiliate
programme; passwords, MFA, OAuth codes and API keys; organizations, networks, storage, tickets
and notifications, which change single rows; provider adapters, which are modelled from how the
worker uses them; configuration, logging and migrations.

Most of the repository's lines are the front ends: some 130,000 lines of TypeScript, of which
the model covers a few hundred. What is left out there is not left for later but has nothing to
check: a typical page of the customer or the administrator console fetches a list when it is
mounted, shows it as a table, and posts a form. It keeps no state between two answers, takes
part in no protocol, and what could go wrong (a wrong label, a wrong path, a missing field) is a
matter of types and presentation. The pages modelled are those in which several calls, timers or
tabs race: the session, the organization, the priced wizard, the polled top-up. The back end,
which holds the protocols, is written in Go and is where most of the modules are.

The type predicates of `Settlement`, `Affiliate`, `Provisioning`, `Idempotency` and the console
document the ranges of the variables; TLC checks those of `WalletTx`, `Renewal`, `JobQueue` and
`Delivery`, and TLAPS those of `Wallet`, `Renewal` and `Idempotency`.

## 7. Plan

Done: wallet, settlement, renewal, queue, delivery, affiliate, provisioning, idempotency, the
customer console; the theorems of section 4. Next, in this order:

1. `Reconciliation`: `reconciliationTick` against `Provisioning`, and a termination that
   overtakes the mapping and leaves a machine that only reconciliation can find.
2. `Coupons` and `Quota`: limits that are counted before the insert (redemptions, ISO images,
   resource limits), and invoices whose total is zero.
3. `Calendar`: the end of a billing period (`subscription/service.go`) as a pure function,
   checked against a reference definition.
4. Renewal with the administrator's void as a read and a later write; the jobs for snapshots,
   restore and migration, which have the form of `provisionInstance`.

Proofs, in this order: what the pages of `TopupPage` promise beyond liveness (a credit that the
page announces has been made); the lemmas about sums used for settlement (the balances of all
wallets are the credits less the debits); what still holds of the queue when administrators
interfere, beyond `NotGivenUpEarly`.

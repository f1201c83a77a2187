----------------------------- MODULE TopupPage -----------------------------
(***************************************************************************)
(* The page that tops up the wallet:                                       *)
(*   console-user/src/features/customer/pages/Topup.tsx                    *)
(*                                                                         *)
(* The gateway's webhook credits the wallet behind the page's back, so     *)
(* the page polls the balance every five seconds until it has risen above  *)
(* the one on display when the top-up was created, or until five minutes   *)
(* have passed.  No answer is cancelled: balances arrive in any order, and *)
(* for the organization that was active when they were asked for.          *)
(***************************************************************************)
EXTENDS ConsoleSession, FiniteSets

CONSTANTS
    MaxBalance,     \* bound on a wallet's balance; each credit is 1
    MaxPolls,       \* polls until the page gives up: the 300 seconds
    MaxLoads        \* bound on balance calls in flight

ASSUME TopupAssumption ==
    /\ MaxBalance \in Nat \ {0} /\ MaxPolls \in Nat \ {0} /\ MaxLoads \in Nat \ {0}

VARIABLES
    wallet,         \* server: the balance of each organization
    unpaid,         \* server: the organization of the top-up that awaits payment
    topup,          \* the component's state while it is mounted
    loads,          \* GET /wallet in flight
    creating        \* POST /wallet/topup in flight

topupVars == <<wallet, unpaid, topup, loads, creating>>

Null == MaxBalance + 1      \* no balance on display
Shown(b) == IF b = Null THEN 0 ELSE b
FreshTopup == [balance |-> Null, loading |-> TRUE, pending |-> "none", snapshot |-> 0,
               elapsed |-> 0, toast |-> "none"]
NotCreating == [sent |-> FALSE, seen |-> 0, ok |-> FALSE, live |-> FALSE]

\* `low' is the balance when the call was sent; `toast' is a history field: whether
\* the top-up was credited when the page said so.
TopupTypeOK ==
    /\ wallet \in [Orgs -> 0 .. MaxBalance]
    /\ unpaid \in Orgs \cup {NoOrg}
    /\ topup \in [balance : 0 .. Null, loading : BOOLEAN,
                  pending : {"none", "pending", "timeout"}, snapshot : 0 .. MaxBalance,
                  elapsed : 0 .. MaxPolls, toast : {"none", "credited", "early"}]
    /\ loads \subseteq [org : Orgs \cup {NoOrg}, low : 0 .. MaxBalance, ok : BOOLEAN, live : BOOLEAN]
    /\ creating \in [sent : BOOLEAN, seen : 0 .. MaxBalance, ok : BOOLEAN, live : BOOLEAN]

TopupInit ==
    /\ wallet = [o \in Orgs |-> 1]
    /\ unpaid = NoOrg
    /\ topup = FreshTopup /\ loads = {} /\ creating = NotCreating

ToppingUp == view = "console" /\ page = "topup"

-----------------------------------------------------------------------------
\* What the page asks the server for, when the organization `o' is active.
LoadOf(o) ==
    IF o = NoOrg THEN {}
    ELSE {[org |-> o, low |-> wallet[o], ok |-> MayActFor(o), live |-> TRUE]}

\* The effect on the balance and the pending top-up, after `t' is rendered.
Noticed(t) ==
    IF t.pending = "pending" /\ Shown(t.balance) > t.snapshot
    THEN [t EXCEPT !.pending = "none", !.elapsed = 0,
                   !.toast = IF unpaid = NoOrg THEN "credited" ELSE "early"]
    ELSE t

\* The page is left: nothing is left of a call but its answer.
Abandoned(calls) == {[org |-> NoOrg, low |-> 0, ok |-> c.ok, live |-> FALSE] : c \in calls}

\* The page is opened: the balance is loaded.
TopupMounts(o) ==
    /\ topup' = FreshTopup
    /\ loads' = Abandoned(loads) \cup LoadOf(o)
    /\ UNCHANGED <<wallet, unpaid, creating>>

TopupUnmounts ==
    /\ topup' = FreshTopup
    /\ loads' = Abandoned(loads)
    /\ creating' = [creating EXCEPT !.seen = 0, !.live = FALSE]
    /\ UNCHANGED <<wallet, unpaid>>

\* A page load ends the calls, too.
TopupGone ==
    /\ topup' = FreshTopup /\ loads' = {} /\ creating' = NotCreating
    /\ UNCHANGED <<wallet, unpaid>>

\* Another organization: its balance is loaded, the interval starts again, and
\* the rest of the state stays.
TopupSeesOrg(o) ==
    /\ topup' = [topup EXCEPT !.elapsed = 0]
    /\ loads' = loads \cup LoadOf(o)
    /\ UNCHANGED <<wallet, unpaid, creating>>

\* Mutant of Poll: the seconds are not counted.
PollForEver ==
    /\ ToppingUp /\ Routine
    /\ topup.pending = "pending" /\ Cardinality(loads) < MaxLoads
    /\ loads' = loads \cup LoadOf(orgId)
    /\ UNCHANGED <<sessionVars, wallet, unpaid, creating, topup>>

\* A poll of the interval; the last one gives up.
Poll ==
    LET last == topup.elapsed + 1 >= MaxPolls IN
    /\ ToppingUp /\ Routine
    /\ topup.pending = "pending" /\ Cardinality(loads) < MaxLoads
    /\ topup' = [topup EXCEPT !.elapsed = IF last THEN 0 ELSE @ + 1,
                              !.pending = IF last THEN "timeout" ELSE @]
    /\ loads' = loads \cup LoadOf(orgId)
    /\ UNCHANGED <<sessionVars, wallet, unpaid, creating>>

\* A balance arrives: any that the wallet has had since the call was sent.  It is
\* shown if the page is still there, whichever organization it belongs to.
BalanceArrives(c, answer) ==
    /\ answer # "401"
    /\ \/ ~c.live /\ UNCHANGED topup
       \/ /\ c.live /\ answer = "ok"
          /\ \E amount \in c.low .. wallet[c.org] :
                topup' = Noticed([topup EXCEPT !.balance = amount, !.loading = FALSE])
       \/ c.live /\ answer = "failed" /\ topup' = [topup EXCEPT !.loading = FALSE]
    /\ loads' = loads \ {c}
    /\ UNCHANGED <<sessionVars, wallet, unpaid, creating>>

BalanceAnswered(c, answer) ==
    /\ c \in loads /\ answer \in CallAnswers(c.ok) /\ CallCounted(c.ok, answer)
    /\ \/ BalanceArrives(c, answer)
       \/ answer = "401" /\ Expired /\ TopupGone

\* The form is there once the first load is over.  The balance that is compared
\* later is the one rendered at the click.  (Bound: one unpaid top-up at a time.)
CreateTopup ==
    /\ ToppingUp /\ Routine
    /\ ~(topup.loading /\ topup.balance = Null) /\ ~creating.sent
    /\ orgId # NoOrg /\ unpaid = NoOrg
    /\ creating' = [sent |-> TRUE, seen |-> Shown(topup.balance), ok |-> MayActFor(orgId), live |-> TRUE]
    /\ unpaid' = IF MayActFor(orgId) THEN orgId ELSE unpaid
    /\ UNCHANGED <<sessionVars, wallet, topup, loads>>

CreateArrives(answer) ==
    /\ answer # "401"
    /\ topup' = IF answer = "ok" /\ creating.live
                THEN Noticed([topup EXCEPT !.pending = "pending", !.snapshot = creating.seen,
                                           !.elapsed = 0, !.toast = "none"])
                ELSE topup
    /\ creating' = NotCreating
    /\ UNCHANGED <<sessionVars, wallet, unpaid, loads>>

CreateAnswered(answer) ==
    /\ creating.sent /\ answer \in CallAnswers(creating.ok) /\ CallCounted(creating.ok, answer)
    /\ \/ CreateArrives(answer)
       \/ answer = "401" /\ Expired /\ TopupGone

\* The gateway's webhook credits the top-up; the wallet gets other credits, too.
GatewayCredits ==
    /\ Routine
    /\ unpaid # NoOrg /\ wallet[unpaid] < MaxBalance
    /\ wallet' = [wallet EXCEPT ![unpaid] = @ + 1]
    /\ unpaid' = NoOrg
    /\ UNCHANGED <<sessionVars, topup, loads, creating>>

OtherCredit(o) ==
    /\ Happens
    /\ wallet[o] < MaxBalance
    /\ wallet' = [wallet EXCEPT ![o] = @ + 1]
    /\ UNCHANGED <<sessionVars, unpaid, topup, loads, creating>>

TopupNext ==
    \/ Poll \/ CreateTopup \/ GatewayCredits
    \/ \E o \in Orgs : OtherCredit(o)
    \/ \E c \in loads, a \in {"ok", "401", "failed"} : BalanceAnswered(c, a)
    \/ \E a \in {"ok", "401", "failed"} : CreateAnswered(a)

-----------------------------------------------------------------------------
\* A customer is not left waiting: while one organization stays active, a pending
\* top-up is noticed or given up, even if every poll fails (the poll effect).
PendingEnds ==
    \A o \in Orgs : (topup.pending = "pending" /\ orgId = o)
                        ~> (topup.pending # "pending" \/ orgId # o)

\* "Top-up credited to your wallet": when the page says so, it is.
ToastMeansCredited == topup.toast # "early"
=============================================================================

--------------------------- MODULE InstanceWizard ---------------------------
(***************************************************************************)
(* The page that creates an instance:                                      *)
(*   console-user/src/features/customer/pages/CreateInstance.tsx           *)
(*                                                                         *)
(* Five steps; from the fourth on, every change of the priced part of the  *)
(* selection (region, size, currency, billing period), of the step or of   *)
(* the organization runs the quote effect again: it cancels the timer and  *)
(* the call of the previous run and arms a timer of its own.  The last     *)
(* step submits the selection with the price on display.                   *)
(***************************************************************************)
EXTENDS ConsoleSession, FiniteSets

CONSTANTS
    Selections,     \* what can be selected, as far as prices differ
    NoSelection,
    MaxQuoteCalls   \* bound on quote calls in flight

ASSUME WizardAssumption == NoSelection \notin Selections /\ MaxQuoteCalls \in Nat \ {0}

VARIABLES
    wizard,         \* the component's state while it is mounted
    quoteCalls,     \* POST /pricing/quote in flight, cancelled ones too
    order           \* POST /instances in flight

wizardVars == <<wizard, quoteCalls, order>>

Asks == [sel : Selections \cup {NoSelection}, org : Orgs \cup {NoOrg}]
NoQuote == [sel |-> NoSelection, org |-> NoOrg]
NoOrder == [sel |-> NoSelection, price |-> NoQuote, ok |-> FALSE]

FreshWizard == [step |-> 0, sel |-> NoSelection, quote |-> NoQuote, failed |-> FALSE,
                timer |-> FALSE, submitting |-> FALSE]

WizardTypeOK ==
    /\ wizard \in [step : 0 .. 4, sel : Selections \cup {NoSelection}, quote : Asks,
                   failed : BOOLEAN, timer : BOOLEAN, submitting : BOOLEAN]
    /\ quoteCalls \subseteq [for : Asks, ok : BOOLEAN, live : BOOLEAN]
    /\ order \in [sel : Selections \cup {NoSelection}, price : Asks, ok : BOOLEAN]

WizardInit == wizard = FreshWizard /\ quoteCalls = {} /\ order = NoOrder

Wizarding == view = "console" /\ page = "wizard"

-----------------------------------------------------------------------------
\* Mutant of Cancelled: the cleanup leaves the calls alone.
CancelledNever(calls) == calls

\* The cleanup of the quote effect: nothing is left of a call but its answer.
Cancelled(calls) == {[for |-> NoQuote, ok |-> c.ok, live |-> FALSE] : c \in calls}

\* Mutant of QuoteEffect: the effect does not run when only the selection changes.
QuoteEffectForSteps(w) ==
    /\ wizard' = [w EXCEPT !.timer = IF w.step = wizard.step THEN wizard.timer ELSE w.step >= 3]
    /\ quoteCalls' = Cancelled(quoteCalls)

\* The effect's cleanup and its next run, when `w' is rendered.  The price on
\* display stays until another one arrives.
QuoteEffect(w) ==
    /\ wizard' = [w EXCEPT !.timer = w.step >= 3]
    /\ quoteCalls' = Cancelled(quoteCalls)

\* The page is left: the cleanup runs, the state is gone.
WizardUnmounts ==
    /\ wizard' = FreshWizard
    /\ quoteCalls' = Cancelled(quoteCalls)
    /\ UNCHANGED order

\* A page load ends the calls, too.
WizardGone == wizard' = FreshWizard /\ quoteCalls' = {} /\ order' = NoOrder

\* A new organization runs the effect again.
WizardSeesOrg == QuoteEffect(wizard) /\ UNCHANGED order

\* Region, size and billing are chosen at their steps.
Choose(s) ==
    /\ Wizarding /\ Routine
    /\ wizard.step \in {0, 2, 3} /\ s # wizard.sel
    /\ QuoteEffect([wizard EXCEPT !.sel = s])
    /\ UNCHANGED <<sessionVars, order>>

\* canAdvance: what a step asks for is chosen.  Back goes to any earlier step.
GoTo(n) ==
    /\ Wizarding /\ Routine
    /\ \/ n = wizard.step + 1 /\ wizard.sel # NoSelection
       \/ n < wizard.step
    /\ QuoteEffect([wizard EXCEPT !.step = n])
    /\ UNCHANGED <<sessionVars, order>>

\* 350 ms without a change: the quote is asked for.
TimerFires ==
    /\ Wizarding /\ Routine
    /\ wizard.timer /\ Cardinality(quoteCalls) < MaxQuoteCalls
    /\ wizard' = [wizard EXCEPT !.timer = FALSE]
    /\ quoteCalls' = quoteCalls \cup
          {[for |-> [sel |-> wizard.sel, org |-> orgId], ok |-> cookie.good, live |-> TRUE]}
    /\ UNCHANGED <<sessionVars, order>>

\* The answer is shown unless the call was cancelled.
QuoteArrives(c, answer) ==
    /\ answer # "401"
    /\ wizard' = IF c.live
                 THEN [wizard EXCEPT !.quote = IF answer = "ok" THEN c.for ELSE NoQuote,
                                     !.failed = answer # "ok"]
                 ELSE wizard
    /\ quoteCalls' = quoteCalls \ {c}
    /\ UNCHANGED <<sessionVars, order>>

\* A 401 ends the session, whether the call was cancelled or not.
QuoteAnswered(c, answer) ==
    /\ c \in quoteCalls /\ answer \in CallAnswers(c.ok) /\ CallCounted(c.ok, answer)
    /\ \/ QuoteArrives(c, answer)
       \/ answer = "401" /\ Expired /\ WizardGone

\* The instance is ordered with the price on display, or with 0.
Submit ==
    /\ Wizarding /\ Routine
    /\ wizard.step = 4 /\ ~wizard.submitting /\ orgId # NoOrg
    /\ order = NoOrder
    /\ order' = [sel |-> wizard.sel, price |-> wizard.quote, ok |-> MayActFor(orgId)]
    /\ wizard' = [wizard EXCEPT !.submitting = TRUE]
    /\ UNCHANGED <<sessionVars, quoteCalls>>

\* A success navigates to the instance, whichever page is shown by now.
SubmitAnswered(answer) ==
    /\ order # NoOrder /\ answer \in CallAnswers(order.ok) /\ CallCounted(order.ok, answer)
    /\ \/ /\ answer = "ok"
          /\ page' = "home"
          /\ order' = NoOrder
          /\ wizard' = FreshWizard
          /\ quoteCalls' = Cancelled(quoteCalls)
          /\ UNCHANGED <<cookie, storedOrg, view, check, profile, listOf, orgId, orgLoads>>
       \/ answer = "401" /\ Expired /\ WizardGone
       \/ /\ answer = "failed"
          /\ order' = NoOrder
          /\ wizard' = [wizard EXCEPT !.submitting = FALSE]
          /\ UNCHANGED <<sessionVars, quoteCalls>>

WizardNext ==
    \/ \E s \in Selections : Choose(s)
    \/ \E n \in 0 .. 4 : GoTo(n)
    \/ TimerFires \/ Submit
    \/ \E c \in quoteCalls, a \in {"ok", "401", "failed"} : QuoteAnswered(c, a)
    \/ \E a \in {"ok", "401", "failed"} : SubmitAnswered(a)

-----------------------------------------------------------------------------
\* A price that is put on display is that of the selection and the organization
\* on display, however late the answers to earlier selections arrive, unless
\* it goes with its page (the `cancelled' flag of the quote effect).
QuoteIsForSelection ==
    [][wizard'.quote \notin {wizard.quote, NoQuote} =>
          wizard'.quote = [sel |-> wizard'.sel, org |-> orgId']]_<<wizard, orgId>>

\* A selection that is not changed any more gets its own price, or an error, in
\* the end, although each change restarts the timer and cancels the call (the
\* dependencies of the quote effect).
AwaitsPrice ==
    /\ Wizarding /\ wizard.step >= 3
    /\ ~wizard.failed /\ wizard.quote # [sel |-> wizard.sel, org |-> orgId]
Resettled == <<wizard.step, wizard.sel, orgId>>' # <<wizard.step, wizard.sel, orgId>>
LiveQuote == []<>~AwaitsPrice \/ []<><<Resettled>>_<<wizard, orgId>>

\* "Pricing comes from a live quote": an instance is ordered at the price of what
\* is ordered.
OrderedAtItsPrice == order # NoOrder => order.price.sel = order.sel
=============================================================================

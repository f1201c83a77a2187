--------------------------- MODULE CustomerConsole ---------------------------
(***************************************************************************)
(* The customer console as a whole: the session of the tab, the wizard and *)
(* the top-up page.  One page is mounted at a time; navigation unmounts    *)
(* it, a page load ends its calls, another organization runs its effects   *)
(* again, and a 401 to any call, of a page that was left too, ends the     *)
(* session.                                                                *)
(***************************************************************************)
EXTENDS InstanceWizard, TopupPage

consoleVars == <<sessionVars, events, wizardVars, topupVars>>

ConsoleTypeOK == SessionTypeOK /\ WizardTypeOK /\ TopupTypeOK

ConsoleInit == SessionInit /\ WizardInit /\ TopupInit

\* What a step of the session, or of the other page, means for each page.
WizardFollows ==
    IF view' # "console" THEN WizardGone
    ELSE IF page' # page THEN WizardUnmounts
    ELSE IF page = "wizard" /\ orgId' # orgId THEN WizardSeesOrg
    ELSE UNCHANGED wizardVars

TopupFollows ==
    IF view' # "console" THEN TopupGone
    ELSE IF page' # page THEN IF page' = "topup" THEN TopupMounts(orgId') ELSE TopupUnmounts
    ELSE IF page = "topup" /\ orgId' # orgId THEN TopupSeesOrg(orgId')
    ELSE UNCHANGED topupVars

SessionStep == SessionNext /\ WizardFollows /\ TopupFollows
WizardStep == WizardNext /\ TopupFollows
TopupStep == TopupNext /\ WizardFollows

ConsoleNext == SessionStep \/ WizardStep \/ TopupStep

ConsoleSpec == ConsoleInit /\ [][ConsoleNext]_consoleVars

\* Timers fire while the tab is open, and every call is answered in the end:
\* the server has a time limit.
AnyAnswer == {"ok", "401", "failed"}
ConsoleFairness ==
    /\ WF_consoleVars((\E a \in AnyAnswer : MeAnswered(a)) /\ WizardFollows /\ TopupFollows)
    /\ WF_consoleVars((\E a \in AnyAnswer : RoleAnswered(a)) /\ WizardFollows /\ TopupFollows)
    /\ WF_consoleVars(TimerFires /\ TopupFollows)
    /\ \A l \in BOOLEAN :
          WF_consoleVars((\E c \in quoteCalls, a \in AnyAnswer : c.live = l /\ QuoteAnswered(c, a))
                         /\ TopupFollows)
    /\ WF_consoleVars(Poll /\ WizardFollows)
    /\ WF_consoleVars((\E c \in loads, a \in AnyAnswer : BalanceAnswered(c, a)) /\ WizardFollows)

LiveConsoleSpec == ConsoleSpec /\ ConsoleFairness
=============================================================================

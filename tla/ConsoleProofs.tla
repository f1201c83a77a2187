---------------------------- MODULE ConsoleProofs ----------------------------
(***************************************************************************)
(* The customer console for any number of users, organizations, prices and *)
(* calls in flight: the tab never acts for an organization that is not the *)
(* listed user's, and a late price is never put next to another selection. *)
(***************************************************************************)
EXTENDS CustomerConsole, TLAPS

\* A good session is somebody's.
Somebodys(c) == c.good => c.user \in Users

\* What makes OrgIsOwn inductive: whoever has sent a call that may be answered is
\* a user, so that the list that arrives is a user's list.
SessionInv ==
    /\ SessionTypeOK
    /\ Somebodys(cookie)
    /\ \A c \in orgLoads : Somebodys(c)
    /\ OrgIsOwn

\* What makes QuoteIsForSelection hold: a call that was not cancelled was sent by
\* the page on display, for what it displays.
CallsAreCurrent ==
    \A c \in quoteCalls : c.live = TRUE =>
        Wizarding /\ c.for = [sel |-> wizard.sel, org |-> orgId]

ConsoleInv == SessionInv /\ WizardTypeOK /\ CallsAreCurrent

-----------------------------------------------------------------------------
\* Events are counted up to their bound.
LEMMA Counted ==
    ASSUME SessionTypeOK, Happens \/ Routine PROVE events' \in 0 .. MaxEvents
  BY ConsoleAssumption DEF SessionTypeOK, Happens, Routine

LEMMA CallsAreCounted ==
    ASSUME NEW ok, NEW answer, CallCounted(ok, answer) PROVE Happens \/ Routine
  BY DEF CallCounted

\* The cookies there are.
LEMMA CookieFacts ==
    /\ NoCookie \in Cookies /\ Somebodys(NoCookie)
    /\ \A u \in Users : [user |-> u, good |-> TRUE] \in Cookies
                        /\ Somebodys([user |-> u, good |-> TRUE])
    /\ \A c \in Cookies : [c EXCEPT !.good = FALSE] \in Cookies
                          /\ Somebodys([c EXCEPT !.good = FALSE])
    /\ NoCheck \in Checks
    /\ \A c \in Cookies : [stage |-> "me", asked |-> c, fetched |-> NoUser] \in Checks
    /\ \A c \in Cookies, u \in Users \cup {NoUser} :
          [stage |-> "role", asked |-> c, fetched |-> u] \in Checks
  <1>1. NoCookie \in Cookies /\ Somebodys(NoCookie)
    BY DEF NoCookie, Cookies, Somebodys
  <1>2. ASSUME NEW u \in Users
        PROVE  [user |-> u, good |-> TRUE] \in Cookies /\ Somebodys([user |-> u, good |-> TRUE])
    BY DEF Cookies, Somebodys
  <1>3. ASSUME NEW c \in Cookies
        PROVE  [c EXCEPT !.good = FALSE] \in Cookies /\ Somebodys([c EXCEPT !.good = FALSE])
    BY DEF Cookies, Somebodys
  <1>4. NoCheck \in Checks
    BY <1>1 DEF NoCheck, Checks
  <1>5. ASSUME NEW c \in Cookies PROVE [stage |-> "me", asked |-> c, fetched |-> NoUser] \in Checks
    BY DEF Checks
  <1>6. ASSUME NEW c \in Cookies, NEW u \in Users \cup {NoUser}
        PROVE  [stage |-> "role", asked |-> c, fetched |-> u] \in Checks
    BY DEF Checks
  <1> QED  BY <1>1, <1>2, <1>3, <1>4, <1>5, <1>6

\* OrgProvider's choice is one of the user's organizations, or none.
LEMMA ActiveIsOwn ==
    ASSUME NEW u \in Users, NEW stored
    PROVE  ActiveOrg(u, stored) \in Member[u] \cup {NoOrg}
  <1>1. CASE Member[u] = {}
    BY <1>1 DEF ActiveOrg
  <1>2. CASE Member[u] # {}
    <2>1. (CHOOSE o \in Member[u] : TRUE) \in Member[u]
      BY <1>2
    <2> QED  BY <1>2, <2>1 DEF ActiveOrg
  <1> QED  BY <1>1, <1>2

\* Wherever the tab starts again, it starts from nothing.
LEMMA StartsAgain ==
    ASSUME SessionInv, NEW c \in Cookies, Leave \/ Load(c),
           cookie' \in Cookies, Somebodys(cookie)', storedOrg' \in Orgs \cup {NoOrg},
           events' \in 0 .. MaxEvents
    PROVE  SessionInv'
  <1>1. /\ view' \in {"auth", "spinner"} /\ check' \in Checks
        /\ profile' = NoUser /\ listOf' = NoUser /\ orgId' = NoOrg /\ orgLoads' = {}
        /\ page' = "home"
    BY CookieFacts DEF Leave, Load
  <1>2. SessionTypeOK'
    BY <1>1, ConsoleAssumption DEF SessionTypeOK
  <1> QED  BY <1>1, <1>2 DEF SessionInv, OrgIsOwn

\* A 401 to any call keeps the invariant.
LEMMA ExpiryKeeps == ASSUME SessionInv, Expired, Happens \/ Routine PROVE SessionInv'
  <1>1. events' \in 0 .. MaxEvents
    BY Counted DEF SessionInv
  <1>2. NoCookie \in Cookies /\ Leave /\ cookie' = NoCookie /\ storedOrg' = NoOrg
    BY CookieFacts DEF Expired
  <1>3. Somebodys(cookie)'
    BY <1>2, CookieFacts DEF Somebodys
  <1> QED  BY <1>1, <1>2, <1>3, StartsAgain

\* Every step of the session keeps its invariant.
LEMMA SessionKept == ASSUME SessionInv, SessionNext PROVE SessionInv'
  <1>1. /\ SessionTypeOK /\ cookie \in Cookies /\ check \in Checks
        /\ storedOrg \in Orgs \cup {NoOrg} /\ Somebodys(cookie) /\ OrgIsOwn
        /\ orgLoads \subseteq Cookies /\ \A c \in orgLoads : Somebodys(c)
    BY DEF SessionInv, SessionTypeOK
  <1>2. events' \in 0 .. MaxEvents
    BY <1>1, Counted, CallsAreCounted
       DEF SessionNext, SignIn, MeAnswered, RoleAnswered, OrgsAnswered, SelectOrg, Navigate,
           Reload, RefreshOrgs, Logout, Elsewhere
  <1>3. ASSUME NEW u \in Users, SignIn(u) PROVE SessionInv'
    <2>1. cookie' = [user |-> u, good |-> TRUE] /\ Load(cookie') /\ UNCHANGED storedOrg
      BY <1>3 DEF SignIn
    <2>2. cookie' \in Cookies /\ Somebodys(cookie)'
      BY <2>1, CookieFacts DEF Somebodys
    <2> QED  BY <1>1, <1>2, <2>1, <2>2, StartsAgain
  <1>4. ASSUME Reload PROVE SessionInv'
    <2>1. Load(cookie) /\ UNCHANGED <<cookie, storedOrg>>
      BY <1>4 DEF Reload
    <2>2. Somebodys(cookie)'
      BY <1>1, <2>1 DEF Somebodys
    <2> QED  BY <1>1, <1>2, <2>1, <2>2, StartsAgain
  <1>5. ASSUME Expired PROVE SessionInv'
    <2>1. NoCookie \in Cookies /\ Leave /\ cookie' = NoCookie /\ storedOrg' = NoOrg
      BY <1>5, CookieFacts DEF Expired
    <2>2. Somebodys(cookie)'
      BY <2>1, CookieFacts DEF Somebodys
    <2> QED  BY <1>2, <2>1, <2>2, StartsAgain
  <1>6. ASSUME NEW a, MeAnswered(a) PROVE SessionInv'
    <2>1. CASE /\ check' = [stage |-> "role", asked |-> cookie, fetched |-> check.asked.user]
               /\ UNCHANGED <<cookie, storedOrg, view, profile, listOf, orgId, orgLoads, page>>
      <3>1. check.asked.user \in Users \cup {NoUser}
        BY <1>1 DEF Checks, Cookies
      <3>2. check' \in Checks
        BY <1>1, <2>1, <3>1, CookieFacts
      <3> QED  BY <1>1, <1>2, <2>1, <3>2 DEF SessionInv, SessionTypeOK, OrgIsOwn, Somebodys
    <2>2. CASE Leave /\ UNCHANGED <<cookie, storedOrg>>
      <3>1. Somebodys(cookie)'
        BY <1>1, <2>2 DEF Somebodys
      <3> QED  BY <1>1, <1>2, <2>2, <3>1, StartsAgain
    <2> QED  BY <1>5, <1>6, <2>1, <2>2 DEF MeAnswered
  <1>7. ASSUME NEW a, RoleAnswered(a) PROVE SessionInv'
    <2>1. CASE /\ view' = "console" /\ check' = NoCheck
               /\ profile' = check.fetched
               /\ orgLoads' = {cookie}
               /\ UNCHANGED <<cookie, storedOrg, listOf, orgId, page>>
      <3>1. check.fetched \in Users \cup {NoUser} /\ check' \in Checks
        BY <1>1, <2>1, CookieFacts DEF Checks
      <3> QED  BY <1>1, <1>2, <2>1, <3>1 DEF SessionInv, SessionTypeOK, OrgIsOwn, Somebodys
    <2>2. CASE cookie' = NoCookie /\ Leave /\ UNCHANGED storedOrg
      <3>1. cookie' \in Cookies /\ Somebodys(cookie)'
        BY <2>2, CookieFacts DEF Somebodys
      <3> QED  BY <1>1, <1>2, <2>2, <3>1, StartsAgain
    <2> QED  BY <1>7, <2>1, <2>2 DEF RoleAnswered
  <1>8. ASSUME NEW c \in orgLoads, NEW a, OrgsAnswered(c, a) PROVE SessionInv'
    <2>1. CASE a = "ok"
      <3>1. c.good = TRUE
        BY <1>1, <1>8, <2>1 DEF OrgsAnswered, CallAnswers, Cookies
      <3>2. c.user \in Users
        BY <1>1, <3>1 DEF Somebodys
      <3> DEFINE active == ActiveOrg(c.user, storedOrg)
      <3>3. active \in Member[c.user] \cup {NoOrg} /\ Member[c.user] \subseteq Orgs
        BY <3>2, ActiveIsOwn, ConsoleAssumption
      <3>4. /\ listOf' = c.user /\ orgId' = active
            /\ storedOrg' = IF active = NoOrg THEN storedOrg ELSE active
            /\ orgLoads' \subseteq orgLoads
            /\ UNCHANGED <<cookie, view, check, profile, page>>
        BY <1>8, <2>1 DEF OrgsAnswered
      <3> HIDE DEF active
      <3>5. SessionTypeOK'
        BY <1>1, <1>2, <3>2, <3>3, <3>4 DEF SessionTypeOK
      <3>6. OrgIsOwn'
        BY <3>2, <3>3, <3>4, ConsoleAssumption DEF OrgIsOwn
      <3> QED  BY <1>1, <3>4, <3>5, <3>6 DEF SessionInv, Somebodys
    <2>2. CASE /\ orgLoads' = orgLoads \ {c}
               /\ UNCHANGED <<cookie, storedOrg, view, check, profile, listOf, orgId, page>>
      BY <1>1, <1>2, <2>2 DEF SessionInv, SessionTypeOK, OrgIsOwn, Somebodys
    <2> QED  BY <1>5, <1>8, <2>1, <2>2 DEF OrgsAnswered
  <1>9. ASSUME RefreshOrgs PROVE SessionInv'
    BY <1>1, <1>2, <1>9 DEF RefreshOrgs, SessionInv, SessionTypeOK, OrgIsOwn, Somebodys
  <1>10. ASSUME NEW o \in Orgs, SelectOrg(o) PROVE SessionInv'
    BY <1>1, <1>2, <1>10 DEF SelectOrg, SessionInv, SessionTypeOK, OrgIsOwn, Somebodys
  <1>11. ASSUME Logout PROVE SessionInv'
    <2>1. cookie' \in Cookies /\ Somebodys(cookie)' /\ Leave /\ UNCHANGED storedOrg
      BY <1>1, <1>11, CookieFacts DEF Logout, Somebodys
    <2> QED  BY <1>1, <1>2, <2>1, StartsAgain
  <1>12. ASSUME NEW p \in Pages, Navigate(p) PROVE SessionInv'
    BY <1>1, <1>2, <1>12 DEF Navigate, SessionInv, SessionTypeOK, OrgIsOwn, Somebodys
  <1>13. ASSUME Elsewhere PROVE SessionInv'
    <2>1. UNCHANGED <<view, check, profile, listOf, orgId, orgLoads, page>>
      BY <1>13 DEF Elsewhere
    <2>2. cookie' \in Cookies /\ Somebodys(cookie)' /\ storedOrg' \in Orgs \cup {NoOrg}
      <3>1. cookie.good => Member[cookie.user] \subseteq Orgs
        BY <1>1, ConsoleAssumption DEF Somebodys
      <3> QED  BY <1>1, <1>13, <3>1, CookieFacts DEF Elsewhere, Somebodys
    <2> QED  BY <1>1, <1>2, <2>1, <2>2 DEF SessionInv, SessionTypeOK, OrgIsOwn, Somebodys
  <1> QED
    BY <1>3, <1>4, <1>6, <1>7, <1>8, <1>9, <1>10, <1>11, <1>12, <1>13 DEF SessionNext

-----------------------------------------------------------------------------
WizardRows == [step : 0 .. 4, sel : Selections \cup {NoSelection}, quote : Asks,
               failed : BOOLEAN, timer : BOOLEAN, submitting : BOOLEAN]
QuoteCallRows == [for : Asks, ok : BOOLEAN, live : BOOLEAN]
OrderRows == [sel : Selections \cup {NoSelection}, price : Asks, ok : BOOLEAN]

WizardKept == WizardTypeOK' /\ CallsAreCurrent'

\* What a page starts from, and what is left of cancelled calls.
LEMMA WizardFacts ==
    /\ NoQuote \in Asks /\ NoOrder \in OrderRows
    /\ FreshWizard \in WizardRows /\ FreshWizard.quote = NoQuote
    /\ \A calls \in SUBSET QuoteCallRows :
          Cancelled(calls) \subseteq QuoteCallRows /\ \A c \in Cancelled(calls) : c.live = FALSE
  <1>1. NoQuote \in Asks
    BY DEF NoQuote, Asks
  <1>2. NoOrder \in OrderRows
    BY <1>1 DEF NoOrder, OrderRows
  <1>3. FreshWizard \in WizardRows /\ FreshWizard.quote = NoQuote
    BY <1>1 DEF FreshWizard, WizardRows
  <1>4. ASSUME NEW calls \in SUBSET QuoteCallRows
        PROVE  Cancelled(calls) \subseteq QuoteCallRows /\ \A c \in Cancelled(calls) : c.live = FALSE
    <2> SUFFICES ASSUME NEW c \in Cancelled(calls) PROVE c \in QuoteCallRows /\ c.live = FALSE
      OBVIOUS
    <2>1. PICK d \in calls : c = [for |-> NoQuote, ok |-> d.ok, live |-> FALSE]
      BY DEF Cancelled
    <2>2. d.ok \in BOOLEAN
      BY DEF QuoteCallRows
    <2> QED  BY <1>1, <2>1, <2>2 DEF QuoteCallRows
  <1> QED  BY <1>1, <1>2, <1>3, <1>4

LEMMA WizardTypes ==
    WizardTypeOK <=> wizard \in WizardRows /\ quoteCalls \subseteq QuoteCallRows /\ order \in OrderRows
  BY DEF WizardTypeOK, WizardRows, QuoteCallRows, OrderRows

\* The cleanup of the effect cancels every call, so that none can be out of date.
LEMMA CleanupKeeps ==
    ASSUME ConsoleInv, wizard' \in WizardRows, order' \in OrderRows,
           quoteCalls' = Cancelled(quoteCalls) \/ quoteCalls' = {}
    PROVE  WizardKept
  <1>1. quoteCalls \in SUBSET QuoteCallRows
    BY WizardTypes DEF ConsoleInv
  <1>2. quoteCalls' \subseteq QuoteCallRows /\ \A c \in quoteCalls' : c.live = FALSE
    BY <1>1, WizardFacts
  <1>3. WizardTypeOK'
    BY <1>2 DEF WizardTypeOK, WizardRows, QuoteCallRows, OrderRows
  <1>4. CallsAreCurrent'
    BY <1>2 DEF CallsAreCurrent
  <1> QED  BY <1>3, <1>4 DEF WizardKept

\* The effect runs with another rendering.
LEMMA EffectKeeps ==
    ASSUME ConsoleInv, NEW w \in WizardRows, QuoteEffect(w), order' \in OrderRows
    PROVE  WizardKept /\ wizard'.quote = w.quote
  <1> DEFINE b == w.step >= 3
  <1>1. wizard' = [w EXCEPT !.timer = b] /\ b \in BOOLEAN
    BY DEF QuoteEffect
  <1> HIDE DEF b
  <1>2. wizard' \in WizardRows /\ wizard'.quote = w.quote
    BY <1>1 DEF WizardRows
  <1> QED  BY <1>2, CleanupKeeps DEF QuoteEffect

\* The wizard follows what happens elsewhere in the tab.
LEMMA FollowingKeeps ==
    ASSUME ConsoleInv, WizardFollows
    PROVE  WizardKept /\ wizard'.quote \in {wizard.quote, NoQuote}
  <1>1. wizard \in WizardRows /\ order \in OrderRows /\ quoteCalls \subseteq QuoteCallRows
    BY WizardTypes DEF ConsoleInv
  <1>2. CASE WizardGone \/ WizardUnmounts
    <2>1. wizard' = FreshWizard /\ order' \in OrderRows
      BY <1>1, <1>2, WizardFacts DEF WizardGone, WizardUnmounts
    <2> QED  BY <1>2, <2>1, WizardFacts, CleanupKeeps DEF WizardGone, WizardUnmounts
  <1>3. CASE WizardSeesOrg
    BY <1>1, <1>3, EffectKeeps DEF WizardSeesOrg
  <1>4. CASE /\ view' = "console" /\ page' = page /\ ~(page = "wizard" /\ orgId' # orgId)
             /\ UNCHANGED wizardVars
    <2>1. UNCHANGED <<wizard, quoteCalls, order>>
      BY <1>4 DEF wizardVars
    <2>2. WizardTypeOK'
      BY <2>1 DEF ConsoleInv, WizardTypeOK
    <2>3. CallsAreCurrent'
      BY <1>4, <2>1 DEF ConsoleInv, CallsAreCurrent, Wizarding
    <2> QED  BY <2>1, <2>2, <2>3 DEF WizardKept
  <1> QED  BY <1>2, <1>3, <1>4 DEF WizardFollows

\* The session is left alone, ends with a 401, or goes to another page.
LEMMA PageStepKeepsSession ==
    ASSUME SessionInv, Happens \/ Routine,
           \/ UNCHANGED sessionVars
           \/ Expired
           \/ /\ page' = "home"
              /\ UNCHANGED <<cookie, storedOrg, view, check, profile, listOf, orgId, orgLoads>>
    PROVE  SessionInv'
  <1>1. events' \in 0 .. MaxEvents
    BY Counted DEF SessionInv
  <1>2. CASE /\ page' \in {page, "home"}
             /\ UNCHANGED <<cookie, storedOrg, view, check, profile, listOf, orgId, orgLoads>>
    BY <1>1, <1>2, ConsoleAssumption DEF SessionInv, SessionTypeOK, OrgIsOwn, Somebodys
  <1> QED  BY <1>2, ExpiryKeeps DEF sessionVars

\* A step of the wizard keeps both invariants; the one that puts a price on display
\* is the answer to a call that was not cancelled.
LEMMA WizardStepKeeps ==
    ASSUME ConsoleInv, WizardNext
    PROVE  /\ SessionInv' /\ WizardKept
           /\ \/ wizard'.quote \in {wizard.quote, NoQuote}
              \/ wizard'.quote = [sel |-> wizard'.sel, org |-> orgId']
  <1> DEFINE Fine == wizard'.quote \in {wizard.quote, NoQuote}
                     \/ wizard'.quote = [sel |-> wizard'.sel, org |-> orgId']
  <1>1. /\ wizard \in WizardRows /\ order \in OrderRows /\ quoteCalls \subseteq QuoteCallRows
        /\ SessionInv /\ CallsAreCurrent /\ orgId \in Orgs \cup {NoOrg} /\ cookie \in Cookies
    BY WizardTypes DEF ConsoleInv, SessionInv, SessionTypeOK
  <1>2. ASSUME NEW s \in Selections, Choose(s) PROVE SessionInv' /\ WizardKept /\ Fine
    <2> DEFINE w == [wizard EXCEPT !.sel = s]
    <2>1. w \in WizardRows /\ w.quote = wizard.quote
      BY <1>1 DEF WizardRows
    <2>2. QuoteEffect(w) /\ UNCHANGED <<sessionVars, order>> /\ Routine
      BY <1>2 DEF Choose
    <2> HIDE DEF w
    <2> QED  BY <1>1, <2>1, <2>2, EffectKeeps, PageStepKeepsSession
  <1>3. ASSUME NEW n \in 0 .. 4, GoTo(n) PROVE SessionInv' /\ WizardKept /\ Fine
    <2> DEFINE w == [wizard EXCEPT !.step = n]
    <2>1. w \in WizardRows /\ w.quote = wizard.quote
      BY <1>1 DEF WizardRows
    <2>2. QuoteEffect(w) /\ UNCHANGED <<sessionVars, order>> /\ Routine
      BY <1>3 DEF GoTo
    <2> HIDE DEF w
    <2> QED  BY <1>1, <2>1, <2>2, EffectKeeps, PageStepKeepsSession
  <1>4. ASSUME TimerFires PROVE SessionInv' /\ WizardKept /\ Fine
    <2> DEFINE ask == [sel |-> wizard.sel, org |-> orgId]
               call == [for |-> ask, ok |-> cookie.good, live |-> TRUE]
    <2>1. /\ wizard' = [wizard EXCEPT !.timer = FALSE] /\ quoteCalls' = quoteCalls \cup {call}
          /\ UNCHANGED <<sessionVars, order>> /\ Routine /\ Wizarding
      BY <1>4 DEF TimerFires
    <2>2. ask \in Asks
      BY <1>1 DEF Asks, WizardRows
    <2>3. cookie.good \in BOOLEAN
      BY <1>1 DEF Cookies
    <2>4. call \in QuoteCallRows /\ call.for = ask
      BY <2>2, <2>3 DEF QuoteCallRows
    <2>5. wizard' \in WizardRows /\ wizard'.quote = wizard.quote /\ wizard'.sel = wizard.sel
      BY <1>1, <2>1 DEF WizardRows
    <2>6. UNCHANGED <<view, page, orgId>>
      BY <2>1 DEF sessionVars
    <2>7. ask' = ask
      BY <2>5, <2>6
    <2> HIDE DEF ask, call
    <2>8. ASSUME NEW c \in quoteCalls', c.live = TRUE PROVE Wizarding' /\ c.for = ask
      BY <1>1, <2>1, <2>4, <2>6, <2>8 DEF CallsAreCurrent, Wizarding, ask
    <2>9. CallsAreCurrent'
      BY <2>7, <2>8 DEF CallsAreCurrent, ask
    <2>10. WizardTypeOK'
      BY <1>1, <2>1, <2>4, <2>5 DEF WizardTypeOK, WizardRows, QuoteCallRows, OrderRows
    <2> QED  BY <1>1, <2>1, <2>5, <2>9, <2>10, PageStepKeepsSession DEF WizardKept
  <1>5. ASSUME Expired, WizardGone, Happens \/ Routine PROVE SessionInv' /\ WizardKept /\ Fine
    <2>1. wizard' = FreshWizard /\ order' = NoOrder /\ quoteCalls' = {}
      BY <1>5 DEF WizardGone
    <2> QED  BY <1>1, <1>5, <2>1, WizardFacts, CleanupKeeps, ExpiryKeeps
  <1>6. ASSUME NEW c \in quoteCalls, NEW a \in {"ok", "401", "failed"}, QuoteAnswered(c, a)
        PROVE  SessionInv' /\ WizardKept /\ Fine
    <2>1. Happens \/ Routine
      BY <1>6, CallsAreCounted DEF QuoteAnswered
    <2>2. CASE QuoteArrives(c, a)
      <3>1. quoteCalls' = quoteCalls \ {c} /\ UNCHANGED <<sessionVars, order>>
        BY <2>2 DEF QuoteArrives
      <3>2. UNCHANGED <<view, page, orgId>>
        BY <3>1 DEF sessionVars
      <3>3. c.live \in BOOLEAN /\ c.for \in Asks
        BY <1>1 DEF QuoteCallRows
      <3>4. PICK q \in Asks, f \in BOOLEAN :
               /\ c.live = TRUE => wizard' = [wizard EXCEPT !.quote = q, !.failed = f]
               /\ c.live = FALSE => wizard' = wizard
               /\ q \in {c.for, NoQuote}
        BY <2>2, <3>3, WizardFacts DEF QuoteArrives
      <3>5. /\ wizard' \in WizardRows /\ wizard'.sel = wizard.sel
            /\ c.live = TRUE => wizard'.quote \in {c.for, NoQuote}
            /\ c.live = FALSE => wizard'.quote = wizard.quote
        BY <1>1, <3>3, <3>4 DEF WizardRows
      <3>6. CallsAreCurrent'
        BY <1>1, <3>1, <3>2, <3>5 DEF CallsAreCurrent, Wizarding
      <3>7. WizardTypeOK'
        BY <1>1, <3>1, <3>5 DEF WizardTypeOK, WizardRows, QuoteCallRows, OrderRows
      <3>8. Fine
        BY <1>1, <3>2, <3>3, <3>5 DEF CallsAreCurrent
      <3> QED  BY <1>1, <2>1, <3>1, <3>6, <3>7, <3>8, PageStepKeepsSession DEF WizardKept
    <2> QED  BY <1>5, <1>6, <2>1, <2>2 DEF QuoteAnswered
  <1>7. ASSUME NEW b \in BOOLEAN, wizard' = [wizard EXCEPT !.submitting = b], order' \in OrderRows,
               UNCHANGED <<sessionVars, quoteCalls>>, Happens \/ Routine
        PROVE  SessionInv' /\ WizardKept /\ Fine
    <2>1. wizard' \in WizardRows /\ wizard'.quote = wizard.quote /\ wizard'.sel = wizard.sel
      BY <1>1, <1>7 DEF WizardRows
    <2>2. UNCHANGED <<view, page, orgId>>
      BY <1>7 DEF sessionVars
    <2>3. CallsAreCurrent'
      BY <1>1, <1>7, <2>1, <2>2 DEF CallsAreCurrent, Wizarding
    <2>4. WizardTypeOK'
      BY <1>1, <1>7, <2>1 DEF WizardTypeOK, WizardRows, QuoteCallRows, OrderRows
    <2> QED  BY <1>1, <1>7, <2>1, <2>3, <2>4, PageStepKeepsSession DEF WizardKept
  <1>8. ASSUME Submit PROVE SessionInv' /\ WizardKept /\ Fine
    <2>1. PICK b \in BOOLEAN : order' = [sel |-> wizard.sel, price |-> wizard.quote, ok |-> b]
      <3>1. MayActFor(orgId) \in BOOLEAN
        BY <1>1 DEF MayActFor, Cookies
      <3> QED  BY <1>8, <3>1 DEF Submit
    <2>2. order' \in OrderRows
      BY <1>1, <2>1 DEF OrderRows, WizardRows
    <2> QED  BY <1>7, <1>8, <2>2 DEF Submit
  <1>9. ASSUME NEW a \in {"ok", "401", "failed"}, SubmitAnswered(a)
        PROVE  SessionInv' /\ WizardKept /\ Fine
    <2>1. Happens \/ Routine
      BY <1>9, CallsAreCounted DEF SubmitAnswered
    <2>2. CASE a = "ok"
      <3>1. /\ wizard' = FreshWizard /\ order' = NoOrder /\ quoteCalls' = Cancelled(quoteCalls)
            /\ page' = "home"
            /\ UNCHANGED <<cookie, storedOrg, view, check, profile, listOf, orgId, orgLoads>>
        BY <1>9, <2>2 DEF SubmitAnswered
      <3> QED  BY <1>1, <2>1, <3>1, WizardFacts, CleanupKeeps, PageStepKeepsSession
    <2>3. CASE a = "failed"
      BY <1>7, <1>9, <2>1, <2>3, WizardFacts DEF SubmitAnswered
    <2> QED  BY <1>5, <1>9, <2>1, <2>2, <2>3 DEF SubmitAnswered
  <1> QED  BY <1>2, <1>3, <1>4, <1>6, <1>8, <1>9 DEF WizardNext

\* A step of the top-up page leaves the session alone or ends it.
LEMMA TopupStepKeeps ==
    ASSUME ConsoleInv, TopupNext, WizardFollows
    PROVE  SessionInv' /\ WizardKept /\ wizard'.quote \in {wizard.quote, NoQuote}
  <1>1. Happens \/ Routine
    BY CallsAreCounted DEF TopupNext, Poll, CreateTopup, GatewayCredits, OtherCredit,
                           BalanceAnswered, CreateAnswered
  <1>2. UNCHANGED sessionVars \/ Expired
    BY DEF TopupNext, Poll, CreateTopup, GatewayCredits, OtherCredit, BalanceAnswered,
           BalanceArrives, CreateAnswered, CreateArrives
  <1> QED  BY <1>1, <1>2, PageStepKeepsSession, FollowingKeeps DEF ConsoleInv

\* Every step of the console keeps the invariant and puts no other price on
\* display than that of what it displays.
LEMMA ConsoleStepKeeps ==
    ASSUME ConsoleInv, ConsoleNext
    PROVE  /\ ConsoleInv'
           /\ \/ wizard'.quote \in {wizard.quote, NoQuote}
              \/ wizard'.quote = [sel |-> wizard'.sel, org |-> orgId']
  <1>1. CASE SessionStep
    BY <1>1, SessionKept, FollowingKeeps DEF SessionStep, ConsoleInv, WizardKept
  <1>2. CASE WizardStep
    BY <1>2, WizardStepKeeps DEF WizardStep, ConsoleInv, WizardKept
  <1>3. CASE TopupStep
    BY <1>3, TopupStepKeeps DEF TopupStep, ConsoleInv, WizardKept
  <1> QED  BY <1>1, <1>2, <1>3 DEF ConsoleNext

LEMMA ConsoleStart == ConsoleInit => ConsoleInv
  <1> SUFFICES ASSUME ConsoleInit PROVE ConsoleInv
    OBVIOUS
  <1>1. SessionTypeOK
    <2>1. 0 \in 0 .. MaxEvents
      BY ConsoleAssumption
    <2> QED  BY <2>1, CookieFacts, ConsoleAssumption DEF ConsoleInit, SessionInit, SessionTypeOK
  <1>2. SessionInv
    BY <1>1, CookieFacts DEF ConsoleInit, SessionInit, SessionInv, OrgIsOwn, Somebodys
  <1>3. WizardTypeOK
    BY WizardFacts, WizardTypes DEF ConsoleInit, WizardInit
  <1>4. CallsAreCurrent
    BY DEF ConsoleInit, WizardInit, CallsAreCurrent
  <1> QED  BY <1>2, <1>3, <1>4 DEF ConsoleInv

LEMMA ConsoleStays == ConsoleInv /\ [ConsoleNext]_consoleVars => ConsoleInv'
  <1> SUFFICES ASSUME ConsoleInv, UNCHANGED consoleVars PROVE ConsoleInv'
    BY ConsoleStepKeeps
  <1>1. UNCHANGED <<sessionVars, events, wizard, quoteCalls, order>>
    BY DEF consoleVars, wizardVars
  <1>2. SessionInv'
    BY <1>1, PageStepKeepsSession DEF ConsoleInv, Routine
  <1>3. WizardTypeOK'
    BY <1>1 DEF ConsoleInv, WizardTypeOK
  <1>4. CallsAreCurrent'
    BY <1>1 DEF ConsoleInv, CallsAreCurrent, Wizarding, sessionVars
  <1> QED  BY <1>2, <1>3, <1>4 DEF ConsoleInv

\* The types, and what makes the two properties hold, in every reachable state.
THEOREM ConsoleCorrect == ConsoleSpec => []ConsoleInv
  BY ConsoleStart, ConsoleStays, PTL DEF ConsoleSpec

\* For any users and memberships, the active organization is one of the listed
\* user's, whatever other tabs have left in localStorage and however late the lists
\* arrive (OrgProvider).
THEOREM ActiveOrgIsOwn == ConsoleSpec => []OrgIsOwn
  <1>1. ConsoleInv => OrgIsOwn
    BY DEF ConsoleInv, SessionInv
  <1> QED  BY <1>1, ConsoleCorrect, PTL

\* For any number of selections and of calls in flight, a price that is put on
\* display belongs to what is on display (the `cancelled' flag of the quote effect).
THEOREM LatePricesAreDropped == ConsoleSpec => QuoteIsForSelection
  <1>1. ConsoleInv /\ [ConsoleNext]_consoleVars
            => [wizard'.quote \notin {wizard.quote, NoQuote} =>
                   wizard'.quote = [sel |-> wizard'.sel, org |-> orgId']]_<<wizard, orgId>>
    <2>1. UNCHANGED consoleVars => UNCHANGED <<wizard, orgId>>
      BY DEF consoleVars, wizardVars, sessionVars
    <2> QED  BY <2>1, ConsoleStepKeeps
  <1> QED  BY <1>1, ConsoleCorrect, PTL DEF ConsoleSpec, QuoteIsForSelection
=============================================================================

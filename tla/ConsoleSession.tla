--------------------------- MODULE ConsoleSession ---------------------------
(***************************************************************************)
(* One browser tab of the customer console: who is signed in, and for      *)
(* which organization.                                                     *)
(*   console-user/src/lib/auth.tsx             AuthProvider                *)
(*   console-user/src/lib/api.ts               request, the 401 handler    *)
(*   console-user/src/features/customer/useOrg.tsx   OrgProvider           *)
(*   console-user/src/routes.tsx               RequireRole                 *)
(*   backend/internal/api/middleware_auth.go   what the API answers        *)
(*                                                                         *)
(* The cookie and localStorage are shared with the other tabs of the       *)
(* browser, which sign in and out, as other users too, while this tab      *)
(* waits for answers.  A call carries the cookie it was sent with; it may  *)
(* succeed if that session was good then, and it may fail or be answered   *)
(* 401 in any case: a database error counts as a bad session.  Leaving for *)
(* the auth console is a page load, which ends every call of the tab.      *)
(* Users are customers: staff have a console of their own.                 *)
(***************************************************************************)
EXTENDS Naturals

CONSTANTS
    Users,
    Orgs,
    Member,         \* the organizations of each user
    NoUser,
    NoOrg,          \* "", no organization
    Pages,          \* the routes, of "home", "wizard" and "topup", that are visited
    MaxEvents       \* bound on sign-ins, page changes, other tabs' doings and failures

ASSUME ConsoleAssumption ==
    /\ NoUser \notin Users /\ NoOrg \notin Orgs
    /\ Member \in [Users -> SUBSET Orgs]
    /\ Pages \subseteq {"home", "wizard", "topup"} /\ "home" \in Pages
    /\ MaxEvents \in Nat

VARIABLES
    cookie,         \* the session cookie: whose it is, whether it is good
    storedOrg,      \* localStorage kilat_org_id
    view,           \* the auth console, the spinner, or the console
    check,          \* the validation that AuthProvider has under way
    profile,        \* the user this tab shows
    listOf,         \* the user whose organizations are listed
    orgId,          \* the active organization
    orgLoads,       \* GET /organizations under way, each as the cookie it was sent with
    page,           \* the route inside the console
    events          \* how many bounded events there have been

sessionVars == <<cookie, storedOrg, view, check, profile, listOf, orgId, orgLoads, page>>

NoCookie == [user |-> NoUser, good |-> FALSE]
Cookies == [user : Users \cup {NoUser}, good : BOOLEAN]
\* `asked' is the cookie the call was sent with.
NoCheck == [stage |-> "none", asked |-> NoCookie, fetched |-> NoUser]
Checks == [stage : {"none", "me", "role"}, asked : Cookies, fetched : Users \cup {NoUser}]

SessionTypeOK ==
    /\ cookie \in Cookies /\ storedOrg \in Orgs \cup {NoOrg}
    /\ view \in {"auth", "spinner", "console"}
    /\ check \in Checks /\ orgLoads \subseteq Cookies
    /\ {profile, listOf} \subseteq Users \cup {NoUser}
    /\ orgId \in Orgs \cup {NoOrg}
    /\ page \in Pages
    /\ events \in 0 .. MaxEvents

SessionInit ==
    /\ cookie = NoCookie /\ storedOrg = NoOrg
    /\ view = "auth" /\ check = NoCheck
    /\ profile = NoUser /\ listOf = NoUser /\ orgId = NoOrg /\ orgLoads = {}
    /\ page = "home"
    /\ events = 0

Happens == events < MaxEvents /\ events' = events + 1
Routine == UNCHANGED events

\* What a call may be answered that was sent with a good cookie, or not.
CallAnswers(ok) == {"401", "failed"} \cup (IF ok THEN {"ok"} ELSE {})
\* Only what goes wrong with a good session is bounded.
CallCounted(ok, answer) == IF ok /\ answer # "ok" THEN Happens ELSE Routine

\* withOrg: the user of the session belongs to the organization of the call.
MayActFor(o) == cookie.good /\ o \in Member[cookie.user]

-----------------------------------------------------------------------------
\* A page load: the providers start from nothing, and AuthProvider asks who
\* the cookie belongs to.
Load(c) ==
    /\ view' = "spinner"
    /\ check' = [stage |-> "me", asked |-> c, fetched |-> NoUser]
    /\ profile' = NoUser /\ listOf' = NoUser /\ orgId' = NoOrg /\ orgLoads' = {}
    /\ page' = "home"

\* The tab goes to the auth console.
Leave ==
    /\ view' = "auth"
    /\ check' = NoCheck
    /\ profile' = NoUser /\ listOf' = NoUser /\ orgId' = NoOrg /\ orgLoads' = {}
    /\ page' = "home"

\* A 401 outside /auth/: jwtAuth clears the cookie, whatever it is by now, and
\* handleSessionExpired clears localStorage and goes to /login.
Expired ==
    /\ cookie' = NoCookie
    /\ storedOrg' = NoOrg
    /\ Leave

\* The user signs in on the auth console, which hands a code to /oauth/callback.
SignIn(u) ==
    /\ Happens
    /\ view = "auth"
    /\ cookie' = [user |-> u, good |-> TRUE]
    /\ Load(cookie')
    /\ UNCHANGED storedOrg

\* The page is opened or reloaded.
Reload ==
    /\ Happens
    /\ view # "spinner"
    /\ Load(cookie)
    /\ UNCHANGED <<cookie, storedOrg>>

\* Mutant of MeAnswered: when the call fails, `loading' stays true.
MeAnsweredSpins(answer) ==
    /\ check.stage = "me" /\ answer \in CallAnswers(check.asked.good) /\ CallCounted(check.asked.good, answer)
    /\ \/ /\ answer = "ok"
          /\ check' = [stage |-> "role", asked |-> cookie, fetched |-> check.asked.user]
          /\ UNCHANGED <<cookie, storedOrg, view, profile, listOf, orgId, orgLoads, page>>
       \/ answer = "401" /\ Expired
       \/ /\ answer = "failed" /\ check' = NoCheck
          /\ UNCHANGED <<cookie, storedOrg, view, profile, listOf, orgId, orgLoads, page>>

\* GET /me: the role is resolved next; anything but an answer signs the tab out.
MeAnswered(answer) ==
    /\ check.stage = "me" /\ answer \in CallAnswers(check.asked.good) /\ CallCounted(check.asked.good, answer)
    /\ \/ /\ answer = "ok"
          /\ check' = [stage |-> "role", asked |-> cookie, fetched |-> check.asked.user]
          /\ UNCHANGED <<cookie, storedOrg, view, profile, listOf, orgId, orgLoads, page>>
       \/ answer = "401" /\ Expired
       \/ answer = "failed" /\ Leave /\ UNCHANGED <<cookie, storedOrg>>

\* resolveRole's probes, as one call: a 401 signs the tab out, any other failure
\* leaves a customer.  RequireRole then renders the console, and OrgProvider asks
\* for the organizations.
RoleAnswered(answer) ==
    /\ check.stage = "role" /\ answer \in CallAnswers(check.asked.good) /\ CallCounted(check.asked.good, answer)
    /\ \/ /\ answer \in {"ok", "failed"}
          /\ view' = "console" /\ check' = NoCheck
          /\ profile' = check.fetched
          /\ orgLoads' = {cookie}
          /\ UNCHANGED <<cookie, storedOrg, listOf, orgId, page>>
       \/ answer = "401" /\ cookie' = NoCookie /\ Leave /\ UNCHANGED storedOrg

\* Mutant of ActiveOrg: the stored organization is taken over unseen.
ActiveOrgAsStored(u, stored) ==
    IF stored # NoOrg \/ Member[u] = {} THEN stored ELSE CHOOSE o \in Member[u] : TRUE

\* The stored organization if the user belongs to it, or else the first one.
ActiveOrg(u, stored) ==
    IF stored \in Member[u] THEN stored
    ELSE IF Member[u] = {} THEN NoOrg ELSE CHOOSE o \in Member[u] : TRUE

OrgsAnswered(c, answer) ==
    /\ c \in orgLoads /\ answer \in CallAnswers(c.good) /\ CallCounted(c.good, answer)
    /\ \/ /\ answer = "ok"
          /\ LET active == ActiveOrg(c.user, storedOrg) IN
             /\ listOf' = c.user
             /\ orgId' = active
             /\ storedOrg' = IF active = NoOrg THEN storedOrg ELSE active
          /\ orgLoads' = orgLoads \ {c}
          /\ UNCHANGED <<cookie, view, check, profile, page>>
       \/ answer = "401" /\ Expired
       \/ /\ answer = "failed"
          /\ orgLoads' = orgLoads \ {c}
          /\ UNCHANGED <<cookie, storedOrg, view, check, profile, listOf, orgId, page>>

\* refresh, after an organization was created or an invitation accepted.
RefreshOrgs ==
    /\ Happens
    /\ view = "console"
    /\ orgLoads' = orgLoads \cup {cookie}
    /\ UNCHANGED <<cookie, storedOrg, view, check, profile, listOf, orgId, page>>

SelectOrg(o) ==
    /\ Happens
    /\ view = "console" /\ listOf # NoUser /\ o \in Member[listOf]
    /\ orgId' = o /\ storedOrg' = o
    /\ UNCHANGED <<cookie, view, check, profile, listOf, orgLoads, page>>

\* POST /auth/logout is sent and not waited for: the page load that follows may
\* overtake it, and the cookie stays.
Logout ==
    /\ Happens
    /\ view = "console"
    /\ cookie' \in {cookie, NoCookie}
    /\ Leave
    /\ UNCHANGED storedOrg

Navigate(p) ==
    /\ Happens
    /\ view = "console" /\ p # page
    /\ page' = p
    /\ UNCHANGED <<cookie, storedOrg, view, check, profile, listOf, orgId, orgLoads>>

-----------------------------------------------------------------------------
\* What other tabs and the server do to the cookie and to localStorage.

Elsewhere ==
    /\ Happens
    /\ \/ \E u \in Users : cookie' = [user |-> u, good |-> TRUE] /\ UNCHANGED storedOrg
       \/ cookie # NoCookie /\ cookie' = NoCookie /\ storedOrg' \in {storedOrg, NoOrg}
       \/ cookie.good /\ cookie' = [cookie EXCEPT !.good = FALSE] /\ UNCHANGED storedOrg
       \/ cookie.good /\ storedOrg' \in Member[cookie.user] /\ UNCHANGED cookie
    /\ UNCHANGED <<view, check, profile, listOf, orgId, orgLoads, page>>

SessionNext ==
    \/ \E u \in Users : SignIn(u)
    \/ \E a \in {"ok", "401", "failed"} :
          MeAnswered(a) \/ RoleAnswered(a) \/ \E c \in orgLoads : OrgsAnswered(c, a)
    \/ \E o \in Orgs : SelectOrg(o)
    \/ \E p \in Pages : Navigate(p)
    \/ Reload \/ RefreshOrgs \/ Logout \/ Elsewhere

-----------------------------------------------------------------------------
\* The active organization is one of the listed user's, although its id comes
\* from a localStorage that outlives the session and that other tabs write for
\* other users (OrgProvider).
OrgIsOwn == orgId # NoOrg => listOf # NoUser /\ orgId \in Member[listOf]

\* The spinner goes away: a validation ends in the console or on the auth
\* console, whatever the calls answer (AuthProvider).
CheckEnds == view = "spinner" ~> view # "spinner"
=============================================================================

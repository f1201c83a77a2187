SPECIFICATION LiveConsoleSpec
CONSTANTS
    u1 = u1
    u2 = u2
    o1 = o1
    o2 = o2
    Users = {u1, u2}
    Orgs = {o1, o2}
    Member <- MCMember
    NoUser = NoUser
    NoOrg = NoOrg
    Pages = {"home", "wizard", "topup"}
    MaxEvents = 3
    Selections = {a, b}
    NoSelection = NoSelection
    MaxQuoteCalls = 2
    MaxBalance = 2
    MaxPolls = 2
    MaxLoads = 2
INVARIANT OrgIsOwn
PROPERTIES QuoteIsForSelection LiveQuote CheckEnds PendingEnds
CHECK_DEADLOCK FALSE

\* Two requests at a time, three in all, one failure or expiry.
CONSTANTS
    ann = ann  bob = bob  new = new  na = na  nb = nb  nc = nc  ea = ea  eb = eb  ec = ec
    c1 = c1  r1 = r1  r2 = r2
    None = None  Blank = Blank
    UserIds = {ann, bob, new}
    Names = {na, nb, nc}
    Emails = {ea, eb, ec}
    Displays = {1, 2}
    Clients = {c1, Blank}
    External = {nb, nc}
    Requests = {r1, r2}
    UserPatches <- MCUserPatches
    ProfilePatches <- MCProfilePatches
    NewEmails = {ea, ec}
    NewDisplays = {1}
    NewLevels = {"USER"}
    InitialUsers <- MCUsers
    InitialClients <- MCClients
    InitialSessions <- MCSessions
    MaxRequests = 3
    MaxFailures = 1
SPECIFICATION Spec
INVARIANTS
    AccountsTypeOK
    DeadlockNeedsKeyChange
PROPERTIES
    OverwritesAreOvertaken
    ReactivationIsAsked
    ClientsGoWithUser
    AuditTellsTheChange
    TokensNeedActiveUser
    AccountRequestEnds
CHECK_DEADLOCK FALSE

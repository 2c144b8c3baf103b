\* One failure of the database: is an acknowledged update stored?
CONSTANTS
    l1 = l1  l2 = l2  o1 = o1  o2 = o2  o3 = o3
    n1 = n1  n2 = n2  t1 = t1  t2 = t2  r1 = r1  r2 = r2
    EmptyText = EmptyText
    None = None
    LicenseIds = {l1, l2}
    ObligationIds = {o1, o2, o3}
    Names = {n1, n2}
    Texts = {t1, t2}
    Words = {}
    Requests = {r1, r2}
    InitialRows <- MCInitialRows
    InitialLinks <- MCInitialLinks
    LicenseForms <- MCForms
    LicensePatches <- MCPatches
    MaxRequests = 2
    MaxFailures = 1
SPECIFICATION LicenseSpec
PROPERTIES
    AcknowledgedIsStored
CHECK_DEADLOCK FALSE

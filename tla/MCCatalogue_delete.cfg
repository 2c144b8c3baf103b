\* Two requests at a time: what does a DELETE change?
CONSTANTS
    l1 = l1  l2 = l2  o1 = o1  o2 = o2
    n1 = n1  n2 = n2  t1 = t1  t2 = t2  w1 = w1  w2 = w2  r1 = r1  r2 = r2
    EmptyText = EmptyText
    None = None
    LicenseIds = {l1, l2}
    ObligationIds = {o1, o2}
    Names = {n1, n2}
    Texts = {t1, t2}
    Words = {w1, w2}
    Requests = {r1, r2}
    InitialRows <- MCInitialRows
    InitialLinks <- MCInitialLinks
    LicenseForms <- MCLicenseForms
    LicensePatches <- MCLicensePatches
    ObligationForms <- MCObligationForms
    ObligationPatches <- MCObligationPatches
    MaxRequests = 3
    MaxFailures = 1
SPECIFICATION CatalogueSpec
PROPERTIES
    DeleteOnlyDeactivates
CHECK_DEADLOCK FALSE

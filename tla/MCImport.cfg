\* Two requests, one of them or both an import, one failure.
CONSTANTS
    l1 = l1  l2 = l2  l3 = l3  l4 = l4  o1 = o1  o2 = o2  o3 = o3  o4 = o4
    n1 = n1  n2 = n2  t1 = t1  t2 = t2  w1 = w1  r1 = r1  r2 = r2
    EmptyText = EmptyText
    None = None
    LicenseIds = {l1, l2, l3, l4}
    ObligationIds = {o1, o2, o3, o4}
    Names = {n1, n2}
    Texts = {t1, t2}
    Words = {w1}
    Requests = {r1, r2}
    InitialRows <- MCInitialRows
    InitialLinks <- MCInitialLinks
    LicenseForms = {}
    LicensePatches <- MCLicensePatches
    ObligationForms = {}
    ObligationPatches <- MCObligationPatches
    LicenseFiles <- MCLicenseFiles
    ObligationFiles <- MCObligationFiles
    MaxRequests = 2
    MaxFailures = 1
SPECIFICATION ImportSpec
INVARIANTS
    ImportTypeOK
    ImportDeadlockNeedsBothKinds
PROPERTIES
    SummaryTellsOutcome
    TextNeedsReadPermission
    EveryImportEnds
CHECK_DEADLOCK FALSE

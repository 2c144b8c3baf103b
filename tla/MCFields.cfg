\* Two requests at a time, four in all, one database failure.
CONSTANTS
    risk = risk  right = right  duty = duty  o1 = o1  o2 = o2  r1 = r1  r2 = r2
    None = None
    Types = {risk, right, duty}
    ObligationIds = {o1, o2}
    Requests = {r1, r2}
    InitialTypes <- MCTypes
    InitialUse <- MCUse
    MaxRequests = 4
    MaxFailures = 1
SPECIFICATION Spec
INVARIANTS
    FieldsTypeOK
PROPERTIES
    InactiveUseNeedsRace
    UnauditedOnlyBySave
    FieldRequestEnds
CHECK_DEADLOCK FALSE

\* The variable does not parse: every SET is for the default of the code.
CONSTANTS
    r1 = r1  r2 = r2  r3 = r3  c1 = c1  c2 = c2  c3 = c3  c4 = c4
    None = None
    Requests = {r1, r2, r3}
    Connections = {c1, c2, c3, c4}
    MaxIdle = 2
    Thresholds = {3, 7, 9}
    Variable = 0
    CodeDefault = 7
    ServerDefault = 3
SPECIFICATION Spec
INVARIANTS
    SessionsTypeOK
    WrongThresholdNeedsDisturbance
SYMMETRY MCSymmetry

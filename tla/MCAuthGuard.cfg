SPECIFICATION GuardSpec
CONSTANTS
    Logins = {c1, c2}
    Idents = {u1, u2}
    Sources = {s1, s2}
    Everyone = Everyone
    Limit <- MCLimit
    Window <- MCWindow
    MaxTrackedIdents = 1
    MaxTrackedSources = 1
    LastTime = 2
    MaxRequests = 3
    GuardFaults = TRUE
SYMMETRY Symmetry
INVARIANTS
    GuardTypeOK
    AttemptsBounded

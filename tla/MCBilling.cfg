SPECIFICATION Spec
CONSTANTS
    Orders = {o1, o2}
    Requests = {r1, r2}
    None = None
    ProDays = 2
    MaxTime = 2
    Faults = TRUE
SYMMETRY Symmetry
INVARIANTS
    TypeOK
    EntitlementBacked
    PaidTimeBound
    AnsweredIsDurable
PROPERTY CancellationIsFinal

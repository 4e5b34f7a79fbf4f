CONSTANTS
    o1 = o1
    o2 = o2
    o3 = o3
    Ops <- MCOps
    None = None
    Faults = TRUE
SYMMETRY Symmetry
SPECIFICATION Spec
INVARIANTS
    TypeOK
    LosesAtMostOne
    NeverStartsEmpty
PROPERTIES
    Refines

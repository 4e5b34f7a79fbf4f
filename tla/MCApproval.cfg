SPECIFICATION Spec
CONSTANTS
    owner = owner
    tester = tester
    Ids = {i1, i2}
    Actors = {owner, tester}
    KindOf <- MCKindOf
    Markets = {m1}
    Values = {v1, v2}
    Unread = Unread
    Nobody = Nobody
    Ttl = 1
    MaxTime = 2
    MaxAttempts = 1
    Faults = TRUE
SYMMETRY Symmetry
INVARIANTS
    TypeOK
    WritesAreAuthorised

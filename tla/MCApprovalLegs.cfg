SPECIFICATION FairSpec
CONSTANTS
    owner = owner
    tester = tester
    Ids = {i1}
    Actors = {owner, tester}
    KindOf <- MCKindOf
    Markets = {m1, m2}
    Values = {v1, v2}
    Unread = Unread
    Nobody = Nobody
    Ttl = 1
    MaxTime = 0
    MaxAttempts = 2
    Faults = TRUE
INVARIANTS
    TelegramRevalidates
    OkMeansApplied
PROPERTIES
    AuditIsFinal
    ApprovedEnds

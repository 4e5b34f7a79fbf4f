SPECIFICATION Spec
CONSTANTS
    MarketOf <- MCMarketOf
    Moment <- MCMoment
    Undated = {1}
    Ahead <- MCAhead
    Requests = {r1, r2}
    Filters <- MCFilters
    MaxStatus = 2
    Week = 0
    PageSize = 1
    MaxPages = 2
    MaxRows = 2
    MaxCached = 1
    MaxNow = 1
    MaxRestarts = 1
INVARIANTS
    TypeOK
    AnsweredIsKept
PROPERTIES
    CompleteUnlessMore
    RequestsEnd
CHECK_DEADLOCK FALSE

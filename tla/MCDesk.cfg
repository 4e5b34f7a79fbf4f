SPECIFICATION Spec
CONSTANTS
    a1 = a1  a2 = a2  b1 = b1
    coupang = coupang  naver = naver  toss = toss
    t1 = t1  t2 = t2
    o1 = o1  o2 = o2
    s1 = s1  s2 = s2  s3 = s3
    d1 = d1  d2 = d2
    x1 = x1  x2 = x2  n1 = n1  n2 = n2
    u1 = u1  u2 = u2  i1 = i1  i2 = i2
    MarketOf <- MCMarketOf
    Trackings = {t1, t2}
    FirstImport <- MCImport
    CallSizes = {1, 2}
    MaxTries = 2
    MaxEdits = 1
    None = None
    StockQuestions <- MCStockQuestions
    SettlementQuestions <- MCSettlementQuestions
    RuleQuestions <- MCRuleQuestions
    UploadQuestions <- MCUploadQuestions
    Absent = Absent
    Tabs = {coupang, naver}
    Skus = {s1, s2}
    Drafts = {d1, d2}
    FirstTab = naver
    FirstSku = s1
    MaxKeys = 3
    Nothing = Nothing
    Tenants = {x1, x2}
    Admins = {x1}
    Markets = {coupang, naver, toss}
    Naver = naver
    SellerAccounts = {n1, n2}
    MasterSkus = {s1, s2, s3}
    Requests = {1, 2}
    FreeMarketLimit = 1
    FreeProductLimit = 1
    NoAccount = NoAccount
    Users = {u1, u2}
    Approvals = {i1, i2}
    MaxOnWay = 2
    Nobody = Nobody
SYMMETRY Symmetry
INVARIANTS
    DeskTypeOK
    PlanIsExact
    AcceptedOnce
    AdviceHolds
    SentAsConfirmed
    ConnectionsHold
    PageIsTruthful
CHECK_DEADLOCK FALSE

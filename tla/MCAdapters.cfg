SPECIFICATION Spec
CONSTANTS
    Kinds = {"coupang", "naver", "toss", "gmarket", "dry"}
    Calls = {c1, c2}
    Commands <- MCCommands
    Products <- MCProducts
    Tokens = {t1, t2}
    NoToken = NoToken
    MaxAttempts = 2
    MaxEvents = 1
SYMMETRY Symmetry
INVARIANTS
    TypeOK
    OkMeansReached
    TokensFresh
PROPERTY NothingInvented
CHECK_DEADLOCK FALSE

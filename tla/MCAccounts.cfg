CONSTANTS
    Calls = {c1, c2}
    Users = {u1, u2}
    Tokens = {t1, t2, t3}
    None = None
    MaxSessions = 2
    Ttl = 1
    MaxTime = 1
    Faults = TRUE
SYMMETRY Symmetry
SPECIFICATION Spec
INVARIANTS
    TypeOK
    SessionsHold

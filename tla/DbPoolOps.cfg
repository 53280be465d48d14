\* Every operation on one session of either driver, with time.
SPECIFICATION Spec
CONSTANTS
    MaxSessions = 1
    Workers = {w1}
    Keys = {my, pg}
    PgKeys = {pg}
    Scopes = {s1}
    Tokens = {t1}
    None = None
    MaxOpen = 1
    MaxIdle = 1
    IdleLimit = 1
    Lifetime = 2
    OpTimeout = 1
    AcquireLimit = 1
    Ops = {"connection", "prepare", "run", "begin", "commit", "rollback",
           "savepoint", "cursor", "fetch", "next_result", "close_result",
           "close", "batch"}
    Timed = TRUE
SYMMETRY Symmetry
INVARIANTS TypeOK IdleClean TransactionLease

\* A statement handle on which a transaction was begun.
SPECIFICATION Spec
CONSTANTS
    MaxSessions = 1
    Workers = {w1}
    Keys = {my}
    PgKeys = {}
    Scopes = {s1}
    Tokens = {t1}
    None = None
    MaxOpen = 1
    MaxIdle = 1
    IdleLimit = 1
    Lifetime = 1
    OpTimeout = 1
    AcquireLimit = 1
    Ops = {"prepare", "begin", "commit"}
    Timed = FALSE
INVARIANTS IdleUnprepared

\* Two calls compete for one session; time passes, the server may never answer.
SPECIFICATION FairSpec
CONSTANTS
    MaxSessions = 1
    Workers = {w1, w2}
    Keys = {my, pg}
    PgKeys = {pg}
    Scopes = {s1}
    Tokens = {t1}
    None = None
    MaxOpen = 1
    MaxIdle = 1
    IdleLimit = 1
    Lifetime = 1
    OpTimeout = 1
    AcquireLimit = 1
    Ops = {"connection", "run", "close"}
    Timed = TRUE
PROPERTIES CallEnds CancelEnds TimeoutOnlyWhenFull

\* Two request scopes present each other's handles and end while sessions are open.
SPECIFICATION Spec
CONSTANTS
    MaxSessions = 3
    Workers = {w1, w2}
    Keys = {my}
    PgKeys = {}
    Scopes = {s1, s2}
    Tokens = {t1, t2}
    None = None
    MaxOpen = 2
    MaxIdle = 1
    IdleLimit = 1
    Lifetime = 1
    OpTimeout = 1
    AcquireLimit = 1
    Ops = {"connection", "run", "begin", "close"}
    Timed = FALSE
SYMMETRY Symmetry
INVARIANTS ExclusiveUse WithinMax CancelReaches ScopeConfined EndedScopeHoldsNothing

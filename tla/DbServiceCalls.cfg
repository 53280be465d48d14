\* Three calls for two workers and a ring of two entries; no database has to answer.
SPECIFICATION FairService
CONSTANTS
    Threads = {w1, w2}
    Queue = 2
    Scopes = {s1}
    None = None
    MaxSent = 3
    MaxPiped = 2
CHECK_DEADLOCK FALSE
INVARIANTS AtWork CancelSticks StopReachesAll
PROPERTIES KeepsPromise EveryoneServed

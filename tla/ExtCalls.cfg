\* Two threads of a host and two scopes; the process may crash, hang and be replaced,
\* and no database has to answer.
SPECIFICATION FairSpec
CONSTANTS
    Threads = {w1}
    Queue = 1
    Scopes = {s1, s2}
    None = None
    Hosts = {h1, h2}
    MaxCalls = 3
    MaxStarts = 2
CHECK_DEADLOCK FALSE
INVARIANTS Agreed ScopesEnd
PROPERTIES HostsReturn

\* Every kind of stage, read by every kind of consumer, within three open files and two
\* children; cancelled, and out of memory, at any step.
SPECIFICATION FairSpec
CONSTANTS
    MaxFiles = 3
    MaxProcesses = 2
    Paths = {p1, p2}
    Inodes = {n1, n2}
    MaxChanges = 2
    Stages = 3
    Pipelines <- MCPipelines
    Consumers = {"collect", "first", "for", "save"}
    Items = 3
    Width = 2
    MemoryLimit = TRUE
CHECK_DEADLOCK FALSE
INVARIANTS Balanced NothingStaysOpen Faithful SaveIsWhole WatchIsTrue
PROPERTIES CancelStops

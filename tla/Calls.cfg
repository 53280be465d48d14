\* Functions, closures, streams, builtins, transactions and a module, with every
\* combination of the switches; cut off by the memory limit at any step.
SPECIFICATION Spec
CONSTANTS
    Places <- MCPlaces
    LastBucket = 2
    PoolCount = 2
    PoolBytes = 4
    Grown = 2
    Contracts = {"sort", "write_text"}
    Actions = {"write_text"}
    Modules = {"m"}
    Capacities = {1}
    MaxRecursion = 2
    TraceLimit = 2
    MaxSteps = 5
    MaxEntries = 2
VIEW MCView
CHECK_DEADLOCK FALSE
INVARIANTS BooksKept PoolIsPrivate ScopeOutlivesStreams
PROPERTIES CommitOnlyWhole

\* Every program by both engines, with every set of options and every fault.
SPECIFICATION Spec
CONSTANTS
    MaxInt = 7
    Exact = 7
    MaxRecursion = 5
    Cadence = 4
    Deadline = 16
    MaxNesting = 12
    PlanOps = 6
    Sites = 16
    Stable = 2
    Misses = 2
    Programs <- MCPrograms
    Options <- MCOptions
CHECK_DEADLOCK FALSE
INVARIANTS OnlyWholeChunks EnginesAgree SlotsAgree CheckedRunsCleanly

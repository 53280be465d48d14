\* A return whose value fails inside a try block.
SPECIFICATION Spec
CONSTANTS
    MaxInt = 7
    Exact = 7
    MaxRecursion = 5
    Cadence = 4
    Deadline = 16
    MaxNesting = 12
    PlanOps = 6
    Sites = 16
    Stable = 2
    Misses = 2
    Programs <- Swallowed
    Options <- MCOptions
CHECK_DEADLOCK FALSE
INVARIANTS CatchRuns

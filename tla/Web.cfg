\* One server alone and one with two workers, bodies of at most two chunks, one open
\* file: workers that fail, crash and are told to stop at any step.
SPECIFICATION FairSpec
CONSTANTS
    Most = 2
    MaxFiles = 1
    Chunks = 2
CHECK_DEADLOCK FALSE
INVARIANTS CleanBetweenRequests ShortEndIsLast ReapedOrTold
 

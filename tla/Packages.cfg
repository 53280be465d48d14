\* Two processes run three commands on two packages of two versions; one call fails or
\* one command is killed.
SPECIFICATION Spec
CONSTANTS
    Processes = {p1, p2}
    Names = {"a", "aa"}
    Versions = {1, 2}
    Text <- MCText
    Longer <- MCLonger
    Resolved <- MCResolved
    MaxCommands = 3
    Mishaps = 1
CHECK_DEADLOCK FALSE
INVARIANTS StoreIsSound FailureChangesNothing
PROPERTIES NoVersionLost

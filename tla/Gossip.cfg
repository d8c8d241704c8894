SPECIFICATION Spec
CONSTANTS
    Nodes = {1, 2, 3}
    Starts <- MCStarts
INVARIANTS  NoPendingLeak
PROPERTIES LiveConnKept DeadGoOffline SuspicionHeals
CHECK_DEADLOCK FALSE

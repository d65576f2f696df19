SPECIFICATION FairSpec
CONSTANTS
    Slot = {s0, s1}
    Pooling = {TRUE, FALSE}
    Ends = {"output", "exception"}
INVARIANTS PoolNeverQueues CleanExitLeavesNothing WorkMatchesLease
PROPERTIES EndsWhenTold
CHECK_DEADLOCK FALSE

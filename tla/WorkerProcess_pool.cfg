SPECIFICATION FairSpec
CONSTANTS
    Slot = {s0, s1}
    Pooling = {TRUE}
    Ends = {"output", "exception"}
PROPERTIES FailedSlotEndsProcess
CHECK_DEADLOCK FALSE

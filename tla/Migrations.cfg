SPECIFICATION FairSpec
CONSTANTS
    None = None
    MaxJobs = 2
    MaxAttempts = 3
    WorkerId = {w1}
    Slot = {0, 1}
    Retries = {0, 1}
    Target = {0, 1, 2, 3, 4}
INVARIANTS HeadOwnsWork DrainOutlivesUpgrade
PROPERTIES NeverStranded OldWorkConcludes

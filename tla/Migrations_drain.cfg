SPECIFICATION Spec
CONSTANTS
    None = None
    MaxJobs = 1
    MaxAttempts = 1
    WorkerId = {w1}
    Slot = {0}
    Retries = {0}
    Target = {3, 4}
PROPERTIES DowngradeKeepsDrain

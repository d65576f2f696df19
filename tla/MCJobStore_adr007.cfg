SPECIFICATION Spec
CONSTANTS
    j1 = j1  j2 = j2  j3 = j3  t1 = t1
    None = None
    JobId = {j1}
    ClaimId = {c1}
    WorkerId = {w1}
    Slot = {0}
    Task = {t1}
    Key = {}
    Output = {ok}
    Error = {err}
    ExpiredError = expired
    LeaseSeconds = 3
    Grace = 1
    MaxBackoff = 1
    QueueLimit = 3
    SubmissionsPerMinute = 3
    RateWindow = 0
    RecoverLimit = 1
    Definition <- TwoKinds
INVARIANTS CapBoundsOwnership

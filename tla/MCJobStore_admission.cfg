SPECIFICATION Spec
CONSTANTS
    j1 = j1  j2 = j2  j3 = j3  t1 = t1
    None = None
    JobId = {j1, j2, j3}
    ClaimId = {c1, c2}
    WorkerId = {w1}
    Slot = {0}
    Task = {t1}
    Key = {k1, k2}
    Output = {ok}
    Error = {err}
    ExpiredError = expired
    LeaseSeconds = 1
    Grace = 1
    MaxBackoff = 1
    QueueLimit = 2
    SubmissionsPerMinute = 2
    RateWindow = 1
    RecoverLimit = 1
    Definition <- TwoKinds
SYMMETRY InterchangeableJobs
INVARIANTS KeyAdmitsOnce QueueBounded RateBounded

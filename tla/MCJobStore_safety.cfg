SPECIFICATION Spec
CONSTANTS
    j1 = j1  j2 = j2  j3 = j3  t1 = t1
    None = None
    JobId = {j1, j2}
    ClaimId = {c1, c2, c3, c4}
    WorkerId = {w1, w2}
    Slot = {0}
    Task = {t1}
    Key = {}
    Output = {ok}
    Error = {err}
    ExpiredError = expired
    LeaseSeconds = 2
    Grace = 1
    MaxBackoff = 2
    QueueLimit = 3
    SubmissionsPerMinute = 3
    RateWindow = 0
    RecoverLimit = 2
    Definition <- ParentAndChild
SYMMETRY Interchangeable
INVARIANTS TypeOK Ownership FenceHistory RetryBudget SlotExclusive ResultIsLastWord
    DependencyRespected AuditTrail
PROPERTIES LeaseDecides HistoryIsFinal KeepsPromise

SPECIFICATION SinkSpec
CONSTANTS
    c1 = c1  c2 = c2  c3 = c3  c4 = c4
    j1 = j1  j2 = j2  j3 = j3  t1 = t1
    None = None
    JobId = {j1, j2, j3}
    ClaimId = {c1, c2, c3, c4}
    WorkerId = {w1}
    Slot = {0}
    Task = {t1}
    Key = {}
    Output = {ok}
    Error = {err}
    ExpiredError = expired
    LeaseSeconds = 2
    Grace = 1
    MaxBackoff = 0
    QueueLimit = 3
    SubmissionsPerMinute = 3
    RateWindow = 0
    RecoverLimit = 1
    Definition <- RetriedLeaf
ACTION_CONSTRAINT IdsInOrder
INVARIANTS EffectOnce
PROPERTIES AttemptEnds BlockedChildEnds EveryJobConcludes

SPECIFICATION CoordinatorSpec
CONSTANTS
    t1 = t1  t2 = t2  s1 = s1
    None = None
    JobId = {j1, j2}
    ClaimId = {c1, c2}
    WorkerId = {w1}
    Slot = {0, 1}
    Task = {t1, t2}
    Key = {}
    Output = {ok}
    Error = {err}
    ExpiredError = expired
    LeaseSeconds = 2
    Grace = 1
    MaxBackoff = 0
    QueueLimit = 2
    SubmissionsPerMinute = 2
    RateWindow = 0
    RecoverLimit = 1
    Session = {s1, s2}
    Capacity = {1, 2}
    SuspectAfter = 1
    DeadAfter = 3
    Definition <- TwoTasks
    Capabilities <- Skills
    Profile <- Profiles
SYMMETRY Interchangeable
INVARIANTS PlacementFits
PROPERTIES DrainedGetsNoWork ReplacedProcessIsFenced

SPECIFICATION DetectorSpec
CONSTANTS
    t1 = t1
    WorkerId = {w1, w2}
    Session = {s1, s2, s3}
    Capacity = {1}
    Capabilities <- OneTask
    SuspectAfter = 1
    DeadAfter = 3
INVARIANTS DrainHolds VerdictsAreEarned
PROPERTIES IdsChangeHandsOnlyWhenSilent SilenceIsNoticed

SPECIFICATION Spec
CONSTANTS
    None = None
    Tx = {t1, t2, t3}
    Worker = {w1, w2}
    Job = {j1, j2}
    Admission = Admission
    Recovery = Recovery
SYMMETRY Interchangeable
INVARIANTS NoWaitCycle DecisionStands ReadsStayCurrent
PROPERTIES SweepTakesOnlyLapsed

SPECIFICATION Spec
CONSTANTS
    t1 = t1
    t2 = t2
    Tool <- TwoTools
    MaxVersion = 3
    AnyVersion = FALSE
    Modes = {"plain", "skip"}
    Dated <- MaybeDated
    Expiring = TRUE
    MaxRuns = 4
    MaxRollbacks = 0
    MaxFaults = 1
SYMMETRY ToolSymmetry
INVARIANTS FamilyServed

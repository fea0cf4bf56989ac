SPECIFICATION Spec
CONSTANTS
    t1 = t1
    t2 = t2
    Tool <- OneTool
    MaxVersion = 4
    AnyVersion = TRUE
    Modes = {"plain", "skip", "replace"}
    Dated <- Undated
    Expiring = TRUE
    MaxRuns = 5
    MaxRollbacks = 1
    MaxFaults = 2
INVARIANTS OnlyNewActive
PROPERTIES RollbackRestores

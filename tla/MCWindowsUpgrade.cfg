SPECIFICATION FairSpec
CONSTANTS
    Customers <- AnyCustomer
    ByHand = TRUE
    MaxRuns = 2
    MaxFaults = 3
INVARIANTS TypeOK ScriptKept SnapshotConsistent UpgradedIsClean 
PROPERTIES RunEnds

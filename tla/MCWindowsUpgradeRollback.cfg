SPECIFICATION Spec
CONSTANTS
    Customers <- AnyCustomer
    ByHand = FALSE
    MaxRuns = 1
    MaxFaults = 1
INVARIANTS AutoRollbackRestores

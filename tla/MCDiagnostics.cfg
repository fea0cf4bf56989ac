SPECIFICATION FairSpec
CONSTANTS
    RunFuncs <- SomeRunFuncs
    MaxTries = 3
INVARIANTS TypeOK CleanExitIsComplete ZipIsKept
PROPERTIES Ends
CHECK_DEADLOCK FALSE

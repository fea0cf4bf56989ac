SPECIFICATION ToolSpec
CONSTANTS
    MaxRetry = 2
    MaxWait = 2
    Updated <- ImageImport
    Waits <- SomeWaits
    Thread <- TwoThreads
    Tool = "tool"
    Calls <- SomeCalls
INVARIANTS ToolTypeOK FinalLogIsCurrent NothingSentAfterReturn LogsKept
PROPERTIES Returns

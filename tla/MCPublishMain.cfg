SPECIFICATION ToolSpec
CONSTANTS
    a = a
    b = b
    c = c
    t1 = t1
    t2 = t2
    Workflow <- ThreeWorkflows
    LoadError <- TwoTemplates
    ImagesOf <- SomeImages
    Facts <- SomeFacts
    Zones <- SomeZones
    Days <- SomeDays
    FlagSets <- SomeFlags
INVARIANTS ToolTypeOK SuccessIsComplete RoomForEveryError RolloutSpread
PROPERTIES Terminates WholeTemplates
CHECK_DEADLOCK FALSE

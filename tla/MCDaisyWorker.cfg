SPECIFICATION InspectSpec
CONSTANTS
    Errors <- AnyError
    Cases <- AnyCase
    Responses <- AnyResponse
    Early <- SomeResponse
INVARIANTS InspectTypeOK AttemptsAlike ReasonReported InspectionSound
PROPERTIES CancelEndsRun InterruptEndsAttempt

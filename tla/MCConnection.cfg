SPECIFICATION Spec
CONSTANTS
    MaxFrames = 3
    WritesMayFail = TRUE
    MaxCalls = 2
    MaxCancels = 1
    MaxCrashes = 2
INVARIANTS
    AnswersOwnRequest
    ArenaIntact
    CancelledOnlyIfAimed
    WaiterHasReader
PROPERTY
    CallsReturn
CHECK_DEADLOCK FALSE

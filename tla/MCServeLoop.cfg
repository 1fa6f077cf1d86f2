SPECIFICATION ServeSpec
CONSTANTS
    MaxFrames = 3
    WritesMayFail = TRUE
INVARIANTS
    ArrivalOrder
    OnlyTargetsCancelled
    DrainAnswersAll
PROPERTIES
    RequestsAnswered
    ServeEnds
CHECK_DEADLOCK FALSE

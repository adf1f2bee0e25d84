SPECIFICATION Spec
CONSTANTS
    Specs = {"a"}
    NoSpec = "none"
    Size <- SizeOf
    Timed = {"a"}
    MaxRes = 1
    MaxCreates = 1
    MaxEdits = 0
    MaxTouches = 0
    MaxCrashes = 0
    ApiFaults = TRUE
    ExecFaults = TRUE
INVARIANTS CleanRemoval DestroyedMeansStopped
PROPERTIES ImplementsContract
CHECK_DEADLOCK FALSE

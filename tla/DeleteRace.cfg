SPECIFICATION Spec
CONSTANTS
    Specs = {"a"}
    NoSpec = "none"
    Size <- SizeOf
    Timed = {}
    MaxRes = 1
    MaxCreates = 1
    MaxEdits = 0
    MaxTouches = 0
    MaxCrashes = 0
    ApiFaults = FALSE
    ExecFaults = FALSE
INVARIANT DeletedMeansStopped
CHECK_DEADLOCK FALSE

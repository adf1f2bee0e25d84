SPECIFICATION Spec
CONSTANTS
    Specs = {"a"}
    NoSpec = "none"
    Size <- SizeOf
    Timed = {}
    MaxRes = 0
    MaxCreates = 2
    MaxEdits = 0
    MaxTouches = 1
    MaxCrashes = 1
    ApiFaults = TRUE
    ExecFaults = TRUE
PROPERTY ImplementsContract
CHECK_DEADLOCK FALSE

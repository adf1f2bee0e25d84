SPECIFICATION Spec
CONSTANTS
    Specs = {"a", "b"}
    NoSpec = "none"
    Size <- SizeOf
    Timed = {}
    MaxRes = 1
    MaxCreates = 2
    MaxEdits = 0
    MaxTouches = 0
    MaxCrashes = 1
    ApiFaults = FALSE
    ExecFaults = FALSE
INVARIANTS CleanRemoval NoOverlap
PROPERTIES ReconcileKeepsFinalizer ImplementsContract
CHECK_DEADLOCK FALSE

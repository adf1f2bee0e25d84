SPECIFICATION FairSpec
CONSTANTS
    Specs = {"a"}
    NoSpec = "none"
    Size <- SizeOf
    Timed = {}
    MaxRes = 2
    MaxCreates = 1
    MaxEdits = 0
    MaxTouches = 0
    MaxCrashes = 0
    ApiFaults = FALSE
    ExecFaults = TRUE
INVARIANT CleanRemoval
PROPERTY DeletionCompletes
CHECK_DEADLOCK FALSE

SPECIFICATION FairSpec
CONSTANTS
    Specs = {"a"}
    NoSpec = "none"
    Size <- SizeOf
    Timed = {}
    MaxRes = 1
    MaxCreates = 1
    MaxEdits = 0
    MaxTouches = 0
    MaxCrashes = 1
    ApiFaults = FALSE
    ExecFaults = FALSE
PROPERTY DeletionCompletes
CHECK_DEADLOCK FALSE

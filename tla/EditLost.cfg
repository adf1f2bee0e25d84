SPECIFICATION FairSpec
CONSTANTS
    Specs = {"a", "b"}
    NoSpec = "none"
    Size <- SizeOf
    Timed = {}
    MaxRes = 1
    MaxCreates = 1
    MaxEdits = 1
    MaxTouches = 1
    MaxCrashes = 0
    ApiFaults = FALSE
    ExecFaults = FALSE
PROPERTY SpecTakesEffect
CHECK_DEADLOCK FALSE

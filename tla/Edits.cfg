SPECIFICATION FairSpec
CONSTANTS
    Specs = {"a", "d"}
    NoSpec = "none"
    Size <- SizeOf
    Timed = {}
    MaxRes = 1
    MaxCreates = 1
    MaxEdits = 1
    MaxTouches = 0
    MaxCrashes = 0
    ApiFaults = FALSE
    ExecFaults = FALSE
INVARIANTS TypeOK CleanRemoval DestroyedMeansStopped NoOverlap
PROPERTIES DestroyedIsFinal ImplementsContract DeletionCompletes SpecTakesEffect
CHECK_DEADLOCK FALSE

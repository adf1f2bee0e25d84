SPECIFICATION Spec
CONSTANTS
    Exps = {"e1", "e2"}
    Requests <- AllRequests
    Clusters <- AllClusters
    Nodes <- TwoNodes
    Stable = {"p1"}
    Evicted = {"p1"}
    MaxEvictions = 1
    ApiFaults = TRUE
    FallsShort <- LostHalves
INVARIANTS TypeOK BrokenOnce NoneLeftBroken
PROPERTIES DestroySparesOthers DestroyFindsTargets EvictLimits OnlyWhatWasAsked
CHECK_DEADLOCK FALSE

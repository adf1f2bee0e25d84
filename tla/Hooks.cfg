SPECIFICATION Spec
CONSTANTS
    SidecarName = "chaosblade-fuse"
    NoVolume = "none"
    Submissions <- PodsHandedIn
    Exps = {"e1", "e2"}
    NoExp = "none"
    Methods = {"open", "read", "write", "release"}
    defaultHookPoints <- HookPoints
    Wanted <- WantedOf
    Affected <- AffectedBy
    Paths = {"in", "out"}
INVARIANTS TypeOK RecoversAll NoFaultAfterRecovery RunningIsInEffect SidecarJoinsApp
CHECK_DEADLOCK FALSE

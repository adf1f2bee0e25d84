SPECIFICATION Spec
CONSTANTS
    Calls = {"copy", "load", "over", "nourl"}
    Files <- AllFiles
    Packed = {"yaml"}
    Mode <- CallMode
    Override = {"over"}
    Programs <- CallPrograms
    Shipped = {"blade", "yaml", "chaos_os"}
    MaxRestarts = 1
    Faults = TRUE
INVARIANT TypeOK
PROPERTIES CompleteUnlessSpoiled OverrideRepairs
CHECK_DEADLOCK FALSE

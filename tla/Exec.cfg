SPECIFICATION FairSpec
CONSTANTS
    Count = 3
    maxWorkers = 2
    Nodes = {"n1", "n2"}
    NodeOf <- NodeOfResource
    ExpModels <- Models
    MaxGenerations = 2
INVARIANTS TypeOK OneStatusEach AnyFailureFails SuccessCoversAll 
PROPERTIES NoSecondRun Returns
CHECK_DEADLOCK FALSE

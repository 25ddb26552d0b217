SPECIFICATION Spec
CONSTANTS
    w1 = w1
    w2 = w2
    User = "u1"
    Plan = "FREE"
    Budget = 2
    Cost = 1
    Tasks <- MCTasks
    Items <- MCItems
    Existing = {"a"}
    Edited = {"b"}
    Rank <- MCRank
    Requests = {"p1"}
    Workers <- TwoWorkers
    Kinds <- MCKinds
    MaxCopies = 1
    MaxNow = 2
    MaxNode = 2
INVARIANTS
    ChargedForResult
    OnlyOverlapLosesNodes
PROPERTIES
    AddNodeStatusKept
SYMMETRY WorkerSymmetry
CHECK_DEADLOCK FALSE

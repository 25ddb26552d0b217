SPECIFICATION Spec
CONSTANTS
    w1 = w1
    w2 = w2
    User = "u1"
    Plan = "FREE"
    Budget = 1
    Cost = 1
    LastDoc <- OneFileOrTwoSources
    CanFail <- SourcesSucceed
    CreditErrors = TRUE
    WorkersOf <- TwoOrOneWorkers
INVARIANT StatusTells
CHECK_DEADLOCK FALSE

SPECIFICATION Spec
CONSTANTS
    u1 = u1
    e1 = e1
    e2 = e2
    p1 = p1
    p2 = p2
    Users <- OneUser
    Events <- TwoEvents
    Procs <- TwoProcs
    FreePlan = "FREE"
    PaidPlans <- Pro
    GraceEnabled = TRUE
    Cycle = 1
    Grace = 1
    MaxNow = 1
    MaxSubs = 2
    MaxRequests = 2
INVARIANTS
    HandledOnce
    
SYMMETRY EventSymmetry
CHECK_DEADLOCK FALSE

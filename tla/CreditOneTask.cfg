SPECIFICATION Spec
CONSTANTS
    u1 = u1
    t1 = t1
    t2 = t2
    p1 = p1
    p2 = p2
    c1 = c1
    FREE = FREE
    PRO = PRO
    Users = {u1}
    Tasks = {t1}
    Procs = {p1, p2}
    Crons = {c1}
    Plans = {FREE, PRO}
    FreePlan = FREE
    Limit <- MCLimit
    Costs = {1}
    HoldExpiry = 1
    BillingCycle = 1
    MaxNow = 1
    MaxRefills = 1
    MaxCrashes = 1
CHECK_DEADLOCK FALSE
SYMMETRY MCSymmetry
INVARIANTS
    SettledAtMostOnce
    NeverOverdrawn
PROPERTIES
    OnlyRefillBreaksBooks
    ImplementsEscrow

SPECIFICATION Spec
CONSTANTS
    f1 = f1  f2 = f2  f3 = f3
    d1 = d1
    r1 = r1  r2 = r2
    u1 = u1  t1 = t1  t2 = t2  p1 = p1  c1 = c1
    Files = {f1, f2, f3}
    Folders = {d1}
    Requests = {r1, r2}
    Root = Root
    Keep = Keep
    FileBucket = bucket
    PayloadBucket = bucket
    Typed <- TypedNames
    MaxCalls = 2
    MaxFaults = 1
    MaxTasks = 1
    Users = {u1}
    Tasks = {t1, t2}
    Procs = {p1}
    Crons = {c1}
    Plans = {"FREE", "PRO"}
    FreePlan = "FREE"
    Limit <- Limits
    Costs = {1}
    HoldExpiry = 1
    BillingCycle = 1
    MaxNow = 2
    MaxRefills = 0
    MaxCrashes = 1
    Ids = {1, 2, 3}
    First = {2, 3}
    NULL = NULL
    Clients = {1, 2}
    FeedbackLimit = 1
    Given = {"DONE"}
    MaxTime = 1
    MaxAsked = 3
    MaxFiles = 1
    MaxWalks = 1
INVARIANTS
    ClashOnlyByRaceOrMove
    ObjectsFollowRows
    NodesFollowFiles
    WalkShowsAll
PROPERTIES
    LeftoversSettle
CHECK_DEADLOCK FALSE

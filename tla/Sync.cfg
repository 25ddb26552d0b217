SPECIFICATION Spec2
CONSTANTS
    n1 = n1  n2 = n2  f1 = f1  c1 = c1  m1 = m1
    u1 = u1  u2 = u2
    NotionPages = {page1}
    ApiCalls = 2
    MaxRev = 2
    MaxFetches = 2
    MaxPageFaults = 1
    Owners = {u1, u2}
    Hooks = {hook1}
    Jobs = {job1, job2}
    Notes = {n1, n2}
    Folders = {f1}
    Convs = {c1}
    Msgs = {m1}
    ConvOf <- OneConv
    Devices = {d1}
    Writers = {w1, w2}
    NULL = NULL
    ListLimit = 1
    MaxNow = 2
    MaxWrites = 2
    MaxPulls = 1
    Batches <- PushedTogether
    MaxPages = 1
SYMMETRY Sym
INVARIANTS
    OnlyOverlapsAndTiesAreMissed
    FreshPagesAreCurrent
CHECK_DEADLOCK FALSE

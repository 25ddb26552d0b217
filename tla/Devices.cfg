SPECIFICATION Spec2
CONSTANTS
    a1 = a1  a2 = a2  b1 = b1  b2 = b2  c1 = c1  c2 = c2
    Devices = {a1, a2}
    Requests = {b1, b2}
    NoToken = NoToken
    MaxSessions = 1
    MaxNow = 2
    MaxCalls = 3
    MaxFaults = 1
    Streams = {c1, c2}
    Procs = {p1}
    MaxId = 2
    Limit = 1
    PushLifetime = 2
    MaxTicks = 2
    MaxRequests = 3
    UserAccounts <- MCAccounts
    UserIds = {a1, a2}
    InfoIds = {b1, b2}
    UserColumns = {"apiKeyOpenai", "openaiAssistantId"}
    KeyColumns = {"apiKeyOpenai"}
    LoginRequests = {1, 2}
    MaxStarts = 2
    MaxLogins = 4
    NULL = NULL
SYMMETRY Sym
INVARIANTS
    OnlyOverlapExceedsLimit
    SignedInDevicesKeepSession
    SentIsHeard
    AccountsAgree
CHECK_DEADLOCK FALSE

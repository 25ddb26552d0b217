SPECIFICATION Spec
CONSTANTS
    c1 = c1
    m1 = m1
    m2 = m2
    r1 = r1
    r2 = r2
    NULL = NULL
    Cron = Cron
    Convs = {c1}
    Msgs = {m1, m2}
    ConvOf <- OneConversation
    Requests = {r1, r2}
    Retention = 1
    MaxNow = 2
    MaxRequests = 2
    MaxStops = 1
    MaxItems = 3
INVARIANTS
    NodeOnlyOfLiveConversation
PROPERTIES
    OnlyOldChecksLeaveMessages
    OlderEditWinsOnlyByRace
    ExpiredConversationsPurged
CHECK_DEADLOCK FALSE

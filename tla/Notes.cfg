SPECIFICATION Spec
CONSTANTS
    f1 = f1
    f2 = f2
    n1 = n1
    n2 = n2
    r1 = r1
    r2 = r2
    NULL = NULL
    Cron = Cron
    Folders = {f1, f2}
    Notes = {n1, n2}
    Requests = {r1, r2}
    Retention = 1
    MaxNow = 2
    MaxRequests = 2
    MaxStops = 1
INVARIANTS
    NodesFollowNotes
PROPERTIES
    TreeBreaksOnlyByRace
    ExpiredNotesPurged

SPECIFICATION Spec
CONSTANTS
    x1 = x1  x2 = x2  w1 = w1  w2 = w2
    Conversations = {1, 2, 3, 4}
    PageSize = 2
    MaxEdits = 2
    MaxFaults = 2
    Exports = {x1, x2}
    All = All
    Scopes = {All, 1}
    Workers = {w1, w2}
    Messages = {1, 2}
    Imported <- Chunks
    Plans <- ThreePlans
    MaxReceives = 2
INVARIANTS
    ExportMissesOnlyTies
    ExportsStand
    FinalizedHasAll
PROPERTIES
    TransfersEnd
CHECK_DEADLOCK FALSE

SPECIFICATION Spec4
CONSTANTS
    r1 = r1
    r2 = r2
    Requests <- MCRequests
    Kinds = {"chat", "rag", "retry"}
    OldTurns = {0, 3, 4}
    Window = 2
    Batch = 2
    Cost = 1
    Funds = 2
    MaxCalls = 3
    MaxLoops = 2  MaxTools = 2
    d1 = d1  d2 = d2  d3 = d3  d4 = d4  c1 = c1  c2 = c2  k1 = k1  k2 = k2  s1 = s1
    e12 = e12  e13 = e13  e14 = e14  e23 = e23  e24 = e24  e34 = e34
    None = None
    SearchLimit = 3  PerQueryLimit = 8
    MaxFaults = 1
SYMMETRY Sym
INVARIANTS
    PaidForAnswers
    AnswersFitQuestions
    OnlyMissedBatchesForget
    AgentSettlesStreams
    SearchesAgree
    ResultsLand
CHECK_DEADLOCK FALSE

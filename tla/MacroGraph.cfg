SPECIFICATION Spec
CONSTANTS
    p1 = p1  p2 = p2
    d1 = d1  d2 = d2  d3 = d3  ed = ed
    c1 = c1  c2 = c2
    s1 = s1  s2 = s2
    e12 = e12  e31 = e31  u1 = u1
    None = None
    NodeIds = {1, 2, 3}
    Docs = {d1, d2, d3, ed}
    Clusters = {c1, c2}
    Subclusters = {s1, s2}
    Edges = {e12, e31, u1}
    Uuids = {u1}
    Requests = {p1, p2}
    EditorDoc = ed
    PairId <- MCPairId
    Snapshot <- MCSnapshot
    Mixes <- MCMixes
INVARIANTS GraphHolds
PROPERTIES SerialEditsKeepShape
\* Requests are bounded: a state in which all have ended is a deadlock.
SYMMETRY Sym
CHECK_DEADLOCK FALSE

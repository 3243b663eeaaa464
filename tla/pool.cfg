SPECIFICATION Spec
CONSTANTS
    stmt = stmt
    seq = seq
    e1 = e1
    e2 = e2
    g1 = g1
    g2 = g2
    NoNode = NoNode
    Nodes <- MCNodes
    ChildrenFirst = {stmt, seq}
    Wiped = {seq}
    Goroutines = {g1, g2}
    MaxChildren = 2
    MaxAliases = 1
    MaxRefused = 2
CHECK_DEADLOCK FALSE
INVARIANTS
    GuardHolds
    NodesAccountedFor
PROPERTIES
    ReleasedIsPooled
    ImplementsLifecycle

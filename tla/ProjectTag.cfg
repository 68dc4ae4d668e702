\* One client, the two ids of one root.
CONSTANTS
    Clients = {c1}
    Ids = {a, b}
    outer = outer
    inner = inner
    Roots = {outer, inner}
    inOuter = inOuter
    inInner = inInner
    elsewhere = elsewhere
    Files = {inOuter, inInner, elsewhere}
    Covers <- MCCovers
    Depth <- MCDepth
    MaxCalls = 4
    None = None
    NoProject = NoProject
SPECIFICATION Spec
PROPERTIES
    ResultNamesProject
CHECK_DEADLOCK FALSE

\* Two clients, two ids, a root inside another one, a file in each and one in neither.
CONSTANTS
    Clients = {c1, c2}
    Ids = {a, b}
    outer = outer
    inner = inner
    Roots = {outer, inner}
    inOuter = inOuter
    inInner = inInner
    elsewhere = elsewhere
    Files = {inOuter, inInner, elsewhere}
    Covers <- MCCovers
    Depth <- MCDepth
    MaxCalls = 4
    None = None
    NoProject = NoProject
SPECIFICATION Spec
INVARIANTS
    TypeOK
    DefaultIsRegistered
    NoDeadlock
PROPERTIES
    ImplementsRegistry
SYMMETRY ClientSymmetry
CHECK_DEADLOCK FALSE

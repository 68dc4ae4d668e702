\* The same with store buffers, a concurrent refresh_index and failing builds.
CONSTANTS
    Tasks = {t1, t2, t3}
    MaxChanges = 3
    MaxManual = 1
    MaxFailures = 1
    StoreBuffered = TRUE
SPECIFICATION Spec
INVARIANTS
    RunningHasOneOwner
    NoForgottenChange
PROPERTIES
    LoopStops
CHECK_DEADLOCK FALSE

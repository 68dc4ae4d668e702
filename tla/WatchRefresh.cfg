\* One project, sequentially consistent flags, no refresh_index calls.
CONSTANTS
    Tasks = {t1, t2, t3}
    MaxChanges = 3
    MaxManual = 0
    MaxFailures = 1
    StoreBuffered = FALSE
SPECIFICATION Spec
INVARIANTS
    TypeOK
    NoLostRequest
PROPERTIES
    IndexNeverRegresses
    CatchesUp
    ImplementsService
CHECK_DEADLOCK FALSE

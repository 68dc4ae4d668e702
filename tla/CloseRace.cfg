\* The close-race check with acquire/release flags on a machine with store buffers.
CONSTANTS
    Tasks = {t1, t2}
    MaxChanges = 2
    MaxManual = 0
    MaxFailures = 0
    StoreBuffered = TRUE
SPECIFICATION Spec
INVARIANTS
    NoLostRequest
SYMMETRY TaskSymmetry
CHECK_DEADLOCK FALSE

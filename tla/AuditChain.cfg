\* The chain of the log across a restart or a failed append.
CONSTANTS
    Messages <- MCMessages
    NoMessage = NoMessage
    MaxHeaders = 1
    MaxLost = 1
    MaxRequests = 3
    MaxPipelined = 2
    MaxRestarts = 1
SPECIFICATION Spec
INVARIANTS
    ChainUnbroken
CHECK_DEADLOCK FALSE

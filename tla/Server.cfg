\* One connection, two messages ahead of the answers, one restart, one lost line of
\* the log; three messages in all: enough for a back-off or a login and a call.
CONSTANTS
    Messages <- MCMessages
    NoMessage = NoMessage
    MaxHeaders = 1
    MaxLost = 1
    MaxRequests = 3
    MaxPipelined = 2
    MaxRestarts = 1
SPECIFICATION Spec
INVARIANTS
    TypeOK
    AnswersAsPromised
    AuditBrackets
    ChainTellsLosses
PROPERTIES
    EveryRequestAnswered
CHECK_DEADLOCK FALSE

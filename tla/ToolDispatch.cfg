\* Two calls in flight and one permit of each kind; a result that names the file and the
\* root, and one whose path is spelled in another way.
CONSTANTS
    Calls = {c1, c2}
    CachedTools = {"inspect_symbol"}
    ArgSets = {{"relative", "root"}, {"other"}}
    ToolPermits = 1
    LintPermits = 1
    MaxEdits = 1
    MaxTimeouts = 2
SPECIFICATION Spec
INVARIANTS
    TypeOK
    PermitsKept
    NoIdlePermit
    LintResultsFollow
PROPERTIES
    CallsEnd
CHECK_DEADLOCK FALSE

\* One file, one tool of each kind, edits and replacements in any order.
CONSTANTS
    Files = {f1}
    AstTools = {outline}
    DirectTools = {config}
    MaxEdits = 3
    MaxChanges = 1
    MaxFailures = 1
SPECIFICATION Spec
INVARIANTS
    TypeOK
    StaleAstExplained
    StaleToolExplained
PROPERTIES
    NoTimeTravel
    CachesSettle

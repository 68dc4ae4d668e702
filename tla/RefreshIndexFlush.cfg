\* What the refresh_index tool reports about the AST cache.
CONSTANTS
    Files = {f1}
    AstTools = {outline}
    DirectTools = {config}
    MaxEdits = 1
    MaxChanges = 1
    MaxFailures = 1
SPECIFICATION Spec
INVARIANTS
    RefreshIndexMakesFresh

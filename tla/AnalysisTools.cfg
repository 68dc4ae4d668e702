\* Every analysis tool on small inputs, one behaviour for each.
SPECIFICATION Spec
CONSTANTS
    Tools = {"get_dependencies_graph", "lint_file", "audit_security_measures", "get_project_structure", "search_design_patterns", "file tools", "generate_project_docs", "gateway", "predictor"}
    Root <- MCRoot
    Order <- MCOrder
    Names <- MCTreeNames
    MaxRenderDepth = 2
    MaxRenderFiles = 2
    MaxRenderDirs = 2
    MaxApiEntries = 3
    MaxUseCases = 2
    Requests <- MCRequests
    Indexes <- MCIndexes
    Analysis <- MCAnalysis
    AllSettings <- MCSettings
    Results <- MCResults
    Trees <- MCTrees
    MaxTrees = 2
INVARIANTS
    EdgesAreImports
    InboundIsTranspose
    GraphFitsBudget
    LintAnswersComplete
    RulesReadCode
    AuditAccounts
    PatternsAccount
    TreeAccounts
    OutlineLeadsToSymbol
    HiddenStaysHidden
    PagesTellAll
    OnlyNoticesMatch
    CountsMatchTrees

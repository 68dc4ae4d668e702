\* The cycles of the dependency graph, as README.md promises them.
SPECIFICATION Spec
CONSTANTS
    Tools = {"get_dependencies_graph"}
    Root <- MCRoot
    Order <- MCOrder
    Names <- MCTreeNames
    MaxRenderDepth = 2
    MaxRenderFiles = 2
    MaxRenderDirs = 2
    MaxApiEntries = 3
    MaxUseCases = 2
    Requests <- MCRequests
    Indexes <- MCIndexes
    Analysis <- MCAnalysis
    AllSettings <- MCSettings
    Results <- MCResults
    Trees <- MCTrees
    MaxTrees = 2
INVARIANT CyclesReported

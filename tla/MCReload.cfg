SPECIFICATION Spec
CONSTANTS
    FoundPartials <- MCFound
    MaxPartials = 3
    HiCuts = {6, 9}
    Fundamentals = {2}
    SourceFiles = {"a"}
    Duration = 10
    OtherFiles <- MCOtherFiles
    OtherTrees <- MCOtherTrees
    Huge = 1000
    MaxOps = 3
INVARIANTS
    StoredExceptStats

SPECIFICATION Spec
CONSTANTS
    NumOptions = 3
    Names = {"n1", "n2"}
    NoName = NoName
    NoDesc = NoDesc
    DevName = "dev"
    Filters <- MCFilters
    Compiles <- MCBadPattern
    Matches <- MCMatches
    NullScript = "null"
    ActionCfgs <- MCActionCfgs
    FunctionCfgs <- MCFunctionCfgs
    DevFilters = {"any", "only2"}
    DescChoices <- MCDescChoices
    MaxActions = 2
    MaxFunctions = 1
    MaxSections = 1
INVARIANT StringTriggersCompiled

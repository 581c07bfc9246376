\* Up to three aliases and statements of two variables.
CONSTANTS
    Top = 3
    AllExprs <- MCAllExprs
    AllPreds <- MCAllPreds
    AllTypes <- MCAllTypes
    Nesting <- Depth
    MaxNesting = 4
    Shown <- Display
    TypeShown <- TypeText
    LowerCase <- MCLowerCase
    Locals = {"x", "y"}
    Aliases = {"A", "B"}
    Types <- MCTypes
    Written <- MCWritten
    Params <- MCParams
    Inits <- MCInits
    Exprs <- MCExprs
    Preds <- MCPreds
    ReadValues <- MCReadValues
    Contexts <- MCContexts
    Resources <- MCResources
    MaxSteps = 3
SPECIFICATION Spec
CHECK_DEADLOCK FALSE
INVARIANTS
    ChecksSuffice
    AliasesResolve
    

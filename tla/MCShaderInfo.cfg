SPECIFICATION Spec
CONSTANTS
    Trees <- MCTrees
    Asked <- MCAsked
    get_function_name <- MCFunctionName
    MaxSymbols = 2
INVARIANTS FoundIsLastDefinition SymbolsAsUsed
\* A process that traced a function nobody defined has ended.
CHECK_DEADLOCK FALSE

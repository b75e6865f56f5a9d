SPECIFICATION Spec
CONSTANTS
    Trees <- MCTrees
    Asked <- MCAsked
    get_function_name <- MCFunctionName
    MaxSymbols = 2
INVARIANT AssignmentsAreTraced
\* A process that traced a function nobody defined has ended.
CHECK_DEADLOCK FALSE

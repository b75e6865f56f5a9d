SPECIFICATION Spec
CONSTANTS
    Null = "null"
    Types = {"float", "ivec2", "bool"}
    MaxBlocks = 5
    MaxCalls = 2
INVARIANTS TypeOK TerminatorsAreLast ArmsJoinOwnMerge VariablesAreSet
CHECK_DEADLOCK FALSE

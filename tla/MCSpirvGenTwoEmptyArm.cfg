SPECIFICATION Spec
CONSTANTS
    Null = "null"
    Types = {"float", "vec2"}
    MaxBlocks = 5
    MaxCalls = 1
INVARIANT UnexitedArmsAreJoined
CHECK_DEADLOCK FALSE

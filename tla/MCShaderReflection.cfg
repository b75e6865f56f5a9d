SPECIFICATION Spec
CONSTANTS
    Instructions <- MCInstructions
    Programs <- MCPrograms
    Names <- MCNames
    AfterDot <- MCAfterDot
    BeforeParen <- MCBeforeParen
    ResourceName <- MCResourceName
INVARIANTS TypeOK FunctionsAsDeclared StructsAsDeclared UniformsAsDeclared
    FunctionReadersAgree LeavesAreThePaths
PROPERTY ScanEnds

SPECIFICATION Spec
CONSTANTS
    Names = {"x"}
    Suffix <- MCSuffix
    Types = {"texture"}
    ModuleNames = {"lib1", "lib2"}
    Codes = {"a", "b"}
    Funcs <- MCFuncs
    Home <- MCHome
    Main = "main"
    LinkNames = {"f", "g"}
    MaxInsts = 1
    MaxDecls = 2
    MaxLinks = 1
INVARIANTS ExportsMatchDecorations RegistryNamesDistinct
PROPERTIES FirstRegistrationWins
CHECK_DEADLOCK FALSE

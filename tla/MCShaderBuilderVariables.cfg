SPECIFICATION Spec
CONSTANTS
    Names <- MCNames
    Suffix <- MCSuffix
    Types = {"int", "vec4", "texture"}
    ModuleNames = {"lib1"}
    Codes = {"glsl"}
    Funcs = {}
    Home <- NoHome
    Main = "main"
    LinkNames = {}
    MaxInsts = 4
    MaxDecls = 0
    MaxLinks = 1
INVARIANTS TypeOK UniformsQueryable InterfaceMatchesCaches UniformNamesDistinct
PROPERTIES CachesAreNameTables
CHECK_DEADLOCK FALSE

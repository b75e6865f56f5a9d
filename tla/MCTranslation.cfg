SPECIFICATION Spec
CONSTANTS
    HLSLSources <- MCHLSL
    GLSLSources <- MCGLSL
    MaxImages = 3
    Temporary = {"_1", "_91", "_92", "_93"}
    TextureName <- MCTextureName
    FreshName <- MCFreshName
    Suffixed <- MCSuffixed
INVARIANTS TypeOK VectorFollowsSource RenamedAsReflected RenamingReachesResult

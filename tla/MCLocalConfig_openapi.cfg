CONSTANTS
    LContents = {"plain", "openapi"}
    LFile <- MCFile
    MaxVersions = 2
SPECIFICATION LocalSpec
CHECK_DEADLOCK FALSE
INVARIANT OpenApiReachesHost

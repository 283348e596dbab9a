\* An A2A request whose body is too long, or whose client breaks it off.
SPECIFICATION HttpSpec
CONSTANTS
    MaxChunks = 3
    MaxRetries = 1
    MaxBuffered = 1
    BodyLimit = 2
    Shared = Shared
    None = None
INVARIANT BodyReset
CHECK_DEADLOCK FALSE

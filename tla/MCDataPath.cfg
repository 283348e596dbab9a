\* A body of up to three chunks with two retries; two requests of a pool and one
\* connection closed by the server; up to three bytes; a session with two calls.
SPECIFICATION PathSpec
CONSTANTS
    MaxChunks = 3
    MaxRetries = 2
    MaxBuffered = 1
    BodyLimit = 2
    Shared = Shared
    None = None
    Req = {r1, r2}
    MaxCloses = 1
    TListenerSets <- MCListenerSets
    TSni <- MCTSni
    MaxBytes <- MCMaxBytes
    TSizes <- MCTSizes
    TThresholds <- MCTThresholds
    McpReq = {c1, c2}
    Backends <- MCBackends
    RuleChoices <- MCRules
    OtherNames <- MCOther
    ChanCap = 1
    PeerNests = FALSE
INVARIANTS  PoolSound TunnelFaithful  AllTargetsOrNone
PROPERTIES Answered RequestsReturn TunnelEnds 
CHECK_DEADLOCK FALSE

\* Two requests that may fetch one payload each; one run slot, one byte.
CONSTANTS
    Requests = {r1, r2}
    principal = principal
    ClaimOf <- MCPrincipalOf
    PrincipalOf <- MCPrincipalOf
    MaxUploads = 2
    MaxPrincipalUploads = 0
    MaxStreams = 2
    MaxPrincipalStreams = 0
    MaxFetches = 1
    MaxRunning = 1
    MaxPending = 0
    ByteLimit = 1
    MaxBody = 1
    MaxField = 1
    MaxFields = 1
SPECIFICATION FairSpec
INVARIANTS NothingLeaks DrainIsOrderly
PROPERTIES ImplementsWorkLifecycle EverythingEnds
CHECK_DEADLOCK FALSE

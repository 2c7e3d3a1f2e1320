\* Three requests without payloads, one run slot, a line of one, one upload at a time.
CONSTANTS
    Requests = {r1, r2, r3}
    principal = principal
    ClaimOf <- MCPrincipalOf
    PrincipalOf <- MCPrincipalOf
    MaxUploads = 1
    MaxPrincipalUploads = 0
    MaxStreams = 3
    MaxPrincipalStreams = 0
    MaxFetches = 1
    MaxRunning = 1
    MaxPending = 1
    ByteLimit = 0
    MaxBody = 0
    MaxField = 0
    MaxFields = 0
SPECIFICATION Spec
SYMMETRY Symmetry
INVARIANT HandlersAreBacked
PROPERTIES ImplementsQueue
CHECK_DEADLOCK FALSE

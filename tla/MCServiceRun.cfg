SPECIFICATION Spec
CONSTANTS
    MaxLen = 3
    OutputBytes = 1
    WorkspaceBytes = 2
    TextBytes = 3
    FileBytes = 2
    TotalBytes = 4
    UrlTime = 2
    Threshold = 1
    MaxPipelineSteps = 2
    Request <- Requests
    Chatty = FALSE
INVARIANTS
    InputsWhole
    ResourcesBounded
    AcceptedIsEarned
    SampledMedian

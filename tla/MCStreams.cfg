\* Frames of four sizes on a short stream; three texts of up to two runes; a
\* peer that begins two frames; hosts of every speed within a factor of two.
SPECIFICATION MCSpec
CONSTANTS
    MaxFrames = 2
    EventLimit = 2
    StreamLimit = 3
    CaptureLimit = 2
    Payloads = {1, 3, 4}
    Overhead = 1
    EventMax = 4
    LineMax = 4
    StreamMax = 14
    HeartbeatReserve = 2
    LogReserve = 5
    RuneCosts = {1, 2, 6}
    MaxRunes = 2
    Fields = {1, 2, 3}
    MaxBase = 4
    FlagBytes = 1
    MaxLimit = 16
    MaxWord = 255
    NsPerMs = 4
    MaxRatio = 2
    SlackPct = 10
    MinSlack = 2
    MaxSpread = 40
    MinTime = 2
    MaxTime = 6
    MaxAttempts = 2
    SampleCount = 3
    MaxTimeMs = 12
    Download = 20
    MultiplierOfWall = 3
    WallSlack = 3
    ManagerExtra = 1
    ManagerLeast = 3
    MatchSlackPct = 15
    MatchMinSlack = 4
    MaxParticipants = 3
    MaxCPUs = 4
INVARIANTS StreamIsReadable SharesKept ClipIsFair LimitsAgree ResultIsComplete ReasonMatchesCause
PROPERTIES RemoteReturns
CHECK_DEADLOCK FALSE

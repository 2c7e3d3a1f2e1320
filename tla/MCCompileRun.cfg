SPECIFICATION FairSpec
CONSTANTS
    b1 = b1
    b2 = b2
    Job = {b1, b2}
    Offers <- MCOffers
    Grouped = {TRUE, FALSE}
    FileLimit = 1
    TotalLimit = 1
INVARIANTS
    FixedPathIsPrivate
    ArtifactsAreWhole
PROPERTY
    BuildReturns

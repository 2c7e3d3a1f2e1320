\* Two signed requests at a time, a cache for one principal and two nonces; two
\* principals over three windows; five callers, three places, two per principal.
SPECIFICATION MCSpec
CONSTANTS
    AuthCallers = {c1, c2}
    AuthPrincipals = {p1, p2}
    Nonces = {n1, n2}
    Skew = 1
    MaxHashing = 1
    MaxPrincipals = 1
    MaxEntries = 2
    MaxPrincipalEntries = 2
    AuthTime = 3
    RatePrincipals = {q1, q2}
    MaxRate = 2
    Minute = 3
    MaxDelay = 1
    RateTime = 9
    a1 = a1
    a2 = a2
    a3 = a3
    b1 = b1
    b2 = b2
    pa = pa
    pb = pb
    Callers <- MCCallers
    Principals <- MCPrincipals
    PrincipalOf <- MCPrincipalOf
    MaxActive = 3
    MaxPrincipal = 2
SYMMETRY Symmetric
INVARIANT BurstBound
PROPERTIES NoReuseBeforeExpiry RefusedOnlyWhenLive ImplementsAdmissionPool
CHECK_DEADLOCK FALSE

\* One run of any kind that exceeds at most two limits.
CONSTANTS MaxExceeded = 2
SPECIFICATION FairSpec
INVARIANTS NothingLeft VerdictIsTrue
PROPERTIES RunReturns
CHECK_DEADLOCK FALSE

SPECIFICATION PairFairSpec
CHECK_DEADLOCK FALSE
INVARIANTS AcceptedIsEarned InterruptionIsRecorded
PROPERTIES ImplementsBarrier RunReturns

\* Three permits, one of them known to a peer, and one slot: two wait together
\* when the line is unlimited, one is turned away when it has one place.
CONSTANTS
    Permits = {p1, p2, p3}
    Shared = {p1}
    MaxActive = 0
    MaxPending = 0
SPECIFICATION MCSpec
INVARIANTS SlotConservation WorkConserving
PROPERTIES NoOvertaking ImplementsSlotPool WaitReturns
CHECK_DEADLOCK FALSE

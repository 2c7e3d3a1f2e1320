SPECIFICATION MCSpec
CONSTANTS
  Seat = {s0, s1}
  Prompt = TRUE
SYMMETRY Symmetry
INVARIANTS StartedTogether ManagerVerdictStands MatchIsFair CancellationIsNoFault

SPECIFICATION SoundMatchSpec
CONSTANTS
  Seat = {s0, s1}
  Prompt = FALSE
SYMMETRY Symmetry
INVARIANT CancellationIsNoFault

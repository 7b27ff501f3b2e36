SPECIFICATION PinmuxSpec
CONSTANTS
  LastPin = 3
  Configs = {gpio, pru}
  Pages = {p1, p2}
  MaxPosts = 3
  MaxWrites = 1
  MaxErrors = 1
  None = None
SYMMETRY Symmetry
PROPERTY FormIsApplied
PROPERTY OthersAreKept
CHECK_DEADLOCK FALSE

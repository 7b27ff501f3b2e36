SPECIFICATION RestartSpec
CONSTANTS
  Values = {7, 8}
  MaxArgs = 2
  MaxPrints = 2
  MaxKills = 2
INVARIANT StackStaysItsOwn
INVARIANT CleanStartPrintsAll
INVARIANT CleanReadsAreRight
INVARIANT OneGhostAtMost
PROPERTY NobodyIsStuck
CHECK_DEADLOCK FALSE

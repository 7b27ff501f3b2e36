CONSTANTS
  SAMPLES = 2
  MaxSyncs = 2
  StartEdges = 2
  MaxReadErrors = 1
SPECIFICATION MeasureSpec
INVARIANT RowsAreNeighbours
INVARIANT NoRowThrice
INVARIANT EventsAreSorted
PROPERTY Terminates
CHECK_DEADLOCK FALSE

SPECIFICATION PruClockSpec
CONSTANTS
  MULT = 5
  SCALE = 1
  COUNTER = 3
  U64 = 256
  WORD = 16
  StartCounts = {0}
  HostTimes <- MCHostTimes
  MaxTicks = 6
  SYNC_PERIOD_NS = 8
  HostOffsets <- MCHostOffsets
  MaxSteps = 1
  Capacity = 2
  MaxReadErrors = 1
INVARIANTS PolledIsWhole SyncedToHost EarlySyncsSettle
PROPERTIES ClockSpec NeverLate ContinuouslyUpdated

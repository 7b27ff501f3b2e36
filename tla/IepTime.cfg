CONSTANTS
  TickNs = 5
  U32 = 16
  U64 = 2048
  HostTimes <- MCHostTimes
  MaxGap = 3
  MaxTicks = 36
SPECIFICATION Spec
PROPERTY ClockButForRollovers

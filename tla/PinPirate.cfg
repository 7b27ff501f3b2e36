CONSTANTS
  Nothing = Nothing
  Scripts <- MCScripts
  Lines <- MCLines
  Digit <- MCDigit
  IO_SIZE = 6
  VALUES = 3
  MaxMapErrors = 1
SPECIFICATION Spec
INVARIANT WritesAreInBounds
INVARIANT MappingsAreKept
INVARIANT PinsAreSet
INVARIANT LoaderIsExecuted
CHECK_DEADLOCK FALSE

CONSTANTS
  Kinds = {"run", "stop"}
  Texts = {text, empty}
  Empty = empty
  Patience = {TRUE}
  MaxRequests = 3
  None = None
SPECIFICATION Spec
PROPERTY EveryRunIsInvoked
CHECK_DEADLOCK FALSE

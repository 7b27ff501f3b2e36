CONSTANTS
  v1 = v1
  v2 = v2
  NoWord = NoWord
  RBUF_SIZE = 5
  Value <- MCValue
  WriteWidths <- MCBothWidths
  ReadWidths <- MCBothWidths
SPECIFICATION MCSpec
INVARIANT SlotOwnership
INVARIANT OnlyWholeTimestamps
PROPERTY FifoSpec

SPECIFICATION IdeSpec
CONSTANTS
  Kinds = {"run", "stop"}
  Texts <- MCTexts
  Empty <- MCEmpty
  Patience = {TRUE, FALSE}
  MaxRequests = 3
  None = None
  Pages = {p1}
  Sources <- MCSources
  Wrong = {"wrong"}
  Chunk = 2
  MaxLines = 2
INVARIANTS StartedInOrder CompiledIsItsSource LinesConserved
PROPERTIES OneProgramAtATime SourceIsTaken PatientRunsAreInvoked LinesAreShown
CHECK_DEADLOCK FALSE

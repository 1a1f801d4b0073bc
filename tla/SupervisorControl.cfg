CONSTANTS
  Workers = {w1}
  Requests = {r1}
  MaxAttempts = 2
  Incidents = {"stop", "callback_cancelled", "unsafe_result", "crash"}
SPECIFICATION Spec
INVARIANTS IInv TerminalReleasesControls StaleOwnersAreQuiet
PROPERTIES AcceptedResultNotCancelled AnswersAreLive
CHECK_DEADLOCK FALSE

SPECIFICATION Spec
CONSTANTS
  UserConfigs <- MCUserConfigs
  Projects <- MCProjects
  Paths <- MCPaths
  MaxEdits = 1
INVARIANTS TypeOK ChoicesAreAllowed PreflightIsSound ConflictsAreKnown AnswersAreAllowed
CHECK_DEADLOCK FALSE

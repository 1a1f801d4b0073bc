SPECIFICATION FairSpec
CONSTANTS
  MaxAttempts = 2
  Messages = {m1}
INVARIANTS TypeOK TeardownIsComplete SteeringIsTrue
PROPERTIES OneDisconnectAtATime StopEnds
CHECK_DEADLOCK FALSE

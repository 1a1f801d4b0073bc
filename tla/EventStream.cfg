CONSTANTS
  Connections = {k1, k2}
  MaxEvents = 4
  Endings = {"close", "signal"}
SPECIFICATION FairSpec
INVARIANTS TypeOK StreamsAreComplete SleepersAreUpToDate
PROPERTIES EventsReachFollowers WatchesEnd
CHECK_DEADLOCK FALSE

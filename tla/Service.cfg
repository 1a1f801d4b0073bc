SPECIFICATION FairSpec
CONSTANTS
  Services = {s1, s2}
  Calls = {c1}
  Tries = 2
  MaxCrashes = 2
  RaceChoices = {TRUE, FALSE}
INVARIANTS TypeOK SocketIsRight
PROPERTIES ImplementsRemoteCall EveryoneEnds
CHECK_DEADLOCK FALSE

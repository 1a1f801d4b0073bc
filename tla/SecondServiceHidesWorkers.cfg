SPECIFICATION FairSpec
CONSTANTS
  Services = {s1, s2}
  Calls = {c1}
  Tries = 1
  MaxCrashes = 0
  RaceChoices = {TRUE}
INVARIANTS WorkersStayReachable
CHECK_DEADLOCK FALSE

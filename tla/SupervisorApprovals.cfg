CONSTANTS
  Workers = {w1}
  Requests = {r1, r2}
  MaxAttempts = 1
  Incidents = {"stop", "close"}
SPECIFICATION FairSpec
INVARIANTS PendingIsLive NothingIsLeft
PROPERTIES StopWins StopsEnd ResultEndsAttempt

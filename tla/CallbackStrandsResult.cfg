CONSTANTS
  Workers = {w1}
  Requests = {r1}
  MaxAttempts = 1
  Incidents = {"callback_cancelled"}
SPECIFICATION FairSpec
PROPERTIES ResultEndsAttempt
CHECK_DEADLOCK FALSE

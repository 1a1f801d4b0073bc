CONSTANTS
  Workers = {w1}
  Requests = {}
  MaxAttempts = 1
  Incidents = {"stop"}
SPECIFICATION Spec
PROPERTIES AcceptedResultSurvives
CHECK_DEADLOCK FALSE

CONSTANTS
  Workers = {w1}
  Requests = {r1}
  MaxAttempts = 2
  Incidents = {"stop"}
SPECIFICATION Spec
INVARIANTS RowsAreTrue
PROPERTIES ImplementsContract
CHECK_DEADLOCK FALSE

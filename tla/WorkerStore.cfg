CONSTANTS
  Codes = {c1}
  Requests = {r1, r2}
  MaxAttempts = 2
  MaxEvents = 7
SPECIFICATION Spec
INVARIANTS TypeOK TablesAgree LogIsLegal
PROPERTIES HistoryStays
SYMMETRY Symmetry
CHECK_DEADLOCK FALSE

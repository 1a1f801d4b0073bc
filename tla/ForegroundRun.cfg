CONSTANTS
  Roles = {"auditor", "coder"}
  Tasks = {t1, t2, t3}
  Reports = {r1, r2}
  NoReport = noReport
  MaxResults = 3
SPECIFICATION Spec
INVARIANTS TypeOK NestedStateIsHonest AnnouncedIsAnswered SubmittedReportWins NoSilentLeak
CHECK_DEADLOCK FALSE

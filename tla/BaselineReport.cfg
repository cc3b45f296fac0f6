SPECIFICATION ReportSpec
CONSTANTS
  Processes = {p1}
  CaseCount = 2
  MaxFailures = 1
  None = None
  JudgedAs <- MCJudgedAs
  Group <- MCGroup
  PathLength <- MCPathLength
  MaxReports = 2
INVARIANTS
  QuietReportsStayReadable
  SuccessesCommitted
  LaterReportsAgree

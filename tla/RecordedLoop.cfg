SPECIFICATION MCSpec
CONSTANTS
  a = a
  aVariant = aVariant
  b = b
  bad = bad
  http = http
  threaded = threaded
  unknown = unknown
  Requests <- MCRequests
  Normal <- MCNormal
  ToolName <- MCToolName
  Tools <- MCTools
  HttpTools <- MCHttpTools
  Rejected = Rejected
  NoCall = NoCall
  NoId = NoId
  RequestIds = {id1, id2}
  Answers = {"RESOLVED", "INCONCLUSIVE"}
  MaxDecisions = 4
  MaxToolCalls = 4
  MaxIdentical = 3
  NULL = NULL
  ShownTools <- MCShownTools
INVARIANTS
  TypeOK
  BudgetsRespected
  RetriesExplained
  HistoryMatchesObservations
  LimitsReportedFaithfully
  LinksValid
  AttemptsTellTheCalls
  FinishedRecordIsTheSession
  FailuresRecorded
  TimelineFollowsSession
  OnlyProviderFailuresAre502
PROPERTIES
  BoundedSpec
  EverySessionEnds

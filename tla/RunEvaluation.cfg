SPECIFICATION VSpec
CONSTANTS
  send = send
  spec = spec
  specAlias = specAlias
  logs = logs
  unknown = unknown
  nosuch = nosuch
  specTool = specTool
  httpTool = httpTool
  logsTool = logsTool
  sourceTool = sourceTool
  orders = orders
  noRoute = noRoute
  id1 = id1
  Requests <- MCRequests
  Normal <- MCNormal
  ToolName <- MCToolName
  Tools <- MCTools
  HttpTools <- MCHttpTools
  Rejected = Rejected
  NoCall = NoCall
  NoId = NoId
  RequestIds = {id1}
  Answers = {"RESOLVED", "NO_BUG_FOUND"}
  MaxDecisions = 2
  MaxToolCalls = 2
  MaxIdentical = 2
  Cases <- MCCases
  SpecTool = specTool
  HttpTool = httpTool
  LogsTool = logsTool
  SourceTool = sourceTool
  Route <- MCRoute
  NoRoute = noRoute
  RequestedId <- MCRequestedId
  ServerErrors = {id1}
INVARIANTS
  WithoutHindsight
  TrajectoryIsTheExecution
  SuccessesEarned

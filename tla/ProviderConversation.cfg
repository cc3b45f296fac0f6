SPECIFICATION PSpec
CONSTANTS
  a = a
  aVariant = aVariant
  b = b
  bad = bad
  http = http
  threaded = threaded
  Requests <- MCRequests
  Normal <- MCNormal
  ToolName <- MCToolName
  Tools <- MCTools
  HttpTools <- MCHttpTools
  Rejected = Rejected
  NoCall = NoCall
  NoId = NoId
  RequestIds = {id1}
  Answers = {"RESOLVED"}
  MaxDecisions = 3
  MaxToolCalls = 3
  MaxIdentical = 2
  None = None
INVARIANTS
  OneConversation
  ModelCallsAccounted

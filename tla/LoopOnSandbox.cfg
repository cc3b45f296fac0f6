SPECIFICATION SandboxSpec
CONSTANTS
  order = order
  logsOfFirst = logsOfFirst
  logsOfQuoted = logsOfQuoted
  http = http
  threaded = threaded
  other = other
  keyboard = keyboard
  Requests <- MCRequests
  Normal <- MCNormal
  ToolName <- MCToolName
  Tools <- MCTools
  HttpTools <- MCHttpTools
  Rejected = Rejected
  NoCall = NoCall
  NoId = NoId
  RequestIds <- MCRequestIds
  Answers = {"RESOLVED"}
  MaxDecisions = 3
  MaxToolCalls = 3
  MaxIdentical = 2
  Slots <- MCSlots
  Others <- MCOthers
  OperationOf <- MCOperationOf
  InspectedId <- MCInspectedId
  Products = {keyboard}
  Stocked = {keyboard}
  Unknown = Unknown
  SilentUnknown = SilentUnknown
  Quantities = {1}
  Requested <- MCRequested
  InitialStock <- MCInitialStock
INVARIANTS
  EffectsAccountedFor
  EvidenceOnRecord
CHECK_DEADLOCK FALSE

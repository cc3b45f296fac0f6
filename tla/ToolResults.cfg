SPECIFICATION MCSpec
CONSTANTS
  Names = {a, b, c}
  None = None
  Budget = 20000
  NameLengths = {1, 100, 101, 19800, 30000}
  ToolLengths = {16, 31}
  DataLengths = {2, 19, 19885, 19886, 30000}
  DetailLengths = {2, 8000, 19000, 60000}
  MessageLengths = {1, 500, 501, 30000}
  IdLengths = {36, 101, 30000}
  Null = Null
INVARIANTS
  ContractIsComplete
  OutputUsable
PROPERTIES
  InspectionEnds
CHECK_DEADLOCK FALSE

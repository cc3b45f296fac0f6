SPECIFICATION Spec
CONSTANTS
  Processes = {p1, p2}
  CaseCount = 2
  MaxFailures = 2
  None = None
INVARIANTS
  OneWriter
  NothingPaidTwice
  AlwaysReadable
PROPERTIES
  EveryCaseCloses

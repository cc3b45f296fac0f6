SPECIFICATION Spec
CONSTANTS
  Requests = {r1, r2, r3}
  keyboard = keyboard
  adapter = adapter
  Products <- MCProducts
  Stocked <- MCStocked
  InitialStock <- MCInitialStock
  Unknown = Unknown
  SilentUnknown = SilentUnknown
  Quantities = {1, 2}
  Requested <- MCRequested
  None = None
INVARIANTS
  StockConserved
  WritesAnswered
  LogsTellTheAnswer
PROPERTIES
  RequestsAnswered
CHECK_DEADLOCK FALSE

SPECIFICATION HistorySpec
CONSTANTS
  Tabs = {t1, t2}
  HistoryLimit = 2
  MaxCompleted = 4
INVARIANTS
  ClearedForGood

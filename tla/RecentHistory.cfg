SPECIFICATION HistorySpec
CONSTANTS
  Tabs = {t1}
  HistoryLimit = 2
  MaxCompleted = 4
INVARIANTS
  NoticesHonest
  ClearedForGood

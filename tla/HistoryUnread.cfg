SPECIFICATION HistorySpec
CONSTANTS
  MaxRecords = 2
  ItemLimits = {1, 2}
INVARIANT UnreadIsCounted

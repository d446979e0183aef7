SPECIFICATION Spec
CONSTANTS
  LogSize = 6
  HistorySize = 0
  Queries = {}
  NoQuery = NoQuery
  Matches <- MCMatches
  PageSize = 2
  LiveLimit = 4
  LaneLimit = 1
  ResultLimit = 1
  MaxGenerations = 0
INVARIANTS RowsReachable
CHECK_DEADLOCK FALSE

SPECIFICATION FairLogs
CONSTANTS
  LogSize = 2
  HistorySize = 1
  Queries = {1}
  NoQuery = NoQuery
  Matches <- MCMatches
  PageSize = 2
  LiveLimit = 1
  LaneLimit = 1
  ResultLimit = 1
  MaxGenerations = 2
  Height = 2
  Shift = 2
  MaxLines = 4
  Matching <- MCMatching
  Budgets <- MCBudgets
INVARIANTS TypesOK SearchExact RowsOfThisSpace
PROPERTIES StaysInPlace FollowsUser WaitingEnds
CHECK_DEADLOCK FALSE

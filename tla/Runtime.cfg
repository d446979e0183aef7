SPECIFICATION FairRuntime
CONSTANTS
  Contexts = {dev, prod}
  NoContext = none
  MaxFailures = 1
  ChannelLimit = 1
  MaxWindows = 2
  MaxStoreFailures = 2
INVARIANTS TypesOK OneConnectAtATime ShownIsCurrent NoCommandRefused
  NoStreamLeftBehind LiveIsTrue
PROPERTIES WaitingEnds
CHECK_DEADLOCK FALSE

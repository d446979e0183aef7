SPECIFICATION FairWorkspace
CONSTANTS
  Namespaces = {ns1, ns2}
  Resources = {pods, nodes}
  Namespaced = {pods}
  Pods = pods
  Nodes = nodes
  Whole = whole
  NoResource = noResource
  Scenarios <- SettledOrBusy
  Names = {1, 2}
  Menus <- AloneOrBoth
  MaxUid = 3
  MaxAsked = 2
  MaxFaults = 1
  app = app
  sidecar = sidecar
  LogTargets = {app, sidecar}
  Rank <- MCRank
  LiveCapacity = 2
  Streams <- MCStreams
INVARIANTS TypesOK WatchedExactly RememberedIsSelected OnlyConfirmedTouched
  OutcomesExact LinesExact
PROPERTIES WaitingEnds
CHECK_DEADLOCK FALSE

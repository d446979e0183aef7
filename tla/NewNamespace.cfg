SPECIFICATION Spec
CONSTANTS
  Namespaces = {ns1, ns2, ns3}
  Resources = {pods}
  Namespaced = {pods}
  Pods = pods
  Nodes = nodes
  Whole = whole
  NoResource = noResource
  Scenarios <- OnlyChanged
INVARIANTS SelectionIsWatched
CHECK_DEADLOCK FALSE

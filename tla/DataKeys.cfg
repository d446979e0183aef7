SPECIFICATION EditorsSpec
CONSTANTS
  Resources = {pod, node}
  VisibleHistory = 2
  MaxDetails = 1
  MaxDepth = 1
  MaxBladeEvents = 0
  Keys = {"flag", "mode"}
  ValuesOf <- MCValuesOf
  FirstValue = "on"
  MaxEdits = 1
  MaxSaves = 1
  MaxWrites = 2
  MaxFaults = 0
  MaxChanges = 5
  Specs = {s1, s2}
  FirstSpec = s1
  Empty = empty
  MaxEvents = 0
INVARIANT KeysInSync
CHECK_DEADLOCK FALSE

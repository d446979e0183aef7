SPECIFICATION FairEditors
CONSTANTS
  Resources = {pod, node}
  VisibleHistory = 2
  MaxDetails = 2
  MaxDepth = 3
  MaxBladeEvents = 1
  Keys = {"flag", "mode"}
  ValuesOf <- MCValuesOf
  FirstValue = "on"
  MaxEdits = 2
  MaxSaves = 2
  MaxWrites = 2
  MaxFaults = 1
  MaxChanges = 5
  Specs = {s1, s2}
  FirstSpec = s1
  Empty = empty
  MaxEvents = 4
INVARIANTS TypesOK InspectorsOwned EditorFollows
PROPERTIES SavesOverwriteNothing DocumentKept WaitingEnds
CHECK_DEADLOCK FALSE

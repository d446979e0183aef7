SPECIFICATION LicensesSpec
CONSTANTS
  Callers = {c1, c2}
  Workers = {w1}
  Menus <- MCMenus
  MaxOps = 2
  MaxVersion = 4
  Window = 2
  Hosted = hosted
  Servers = {hosted, custom}
  Bounds <- MCBounds
  MaxTime = 1
  Programs = {p1, p2}
  Releases = 3
  Plans <- MCPlans
  NoFile = noFile
  Broken = broken
PROPERTIES ReadsInOrder
CHECK_DEADLOCK FALSE

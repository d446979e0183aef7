SPECIFICATION Spec
CONSTANTS
  Apis = {pods}
  Scopes = {ns1}
  SlotLimit = 1
  MaxReconciles = 2
  MaxConnects = 0
  MaxLoads = 0
INVARIANTS LatestReconcileOwns
CHECK_DEADLOCK FALSE

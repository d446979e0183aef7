SPECIFICATION FairWorker
CONSTANTS
  Apis = {pods, nodes}
  Scopes = {ns1}
  SlotLimit = 1
  MaxReconciles = 2
  MaxConnects = 2
  MaxLoads = 1
  Home = home
  Looks = {plain, named}
  Plain = plain
  Profiles = {current, dev}
  Current = current
  Accounts = {own, other}
  Aks = aks
  Device = device
  OwnEks = ownEks
  OtherEks = otherEks
  Own = own
  Other = other
  n1 = n1
  n2 = n2
  Whole = whole
  Objects = {1, 2, 3}
  NoQuery = noQuery
  Custom = {"m1"}
  Unset = unset
  Unknown = unknown
  NoConfig = noConfig
  Opaque = opaque
  Nil = nil
  Unborn = unborn
  Gone = gone
INVARIANTS TypeOK InstalledWatchesCurrent NoOrphanWatcher ContextsTrue
  ShownIsWatched
PROPERTIES ImplementsPromise TablesTrue WaitingEnds
CHECK_DEADLOCK FALSE

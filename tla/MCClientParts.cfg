SPECIFICATION Spec
CONSTANTS
  Clients = {c1, c2}
  Ports = {port1, port2}
  MaxInstances = 2
  NoDaemon = NoDaemon
  Checkers = {"p1", "p2"}
  Versions <- MCVersions
  NotAVersion = NotAVersion
  Overflow = Overflow
  Nothing = Nothing
  Lifetime = 2
  RequestTime = 1
  MaxTime = 4
  MaxSetBack = 1
  MaxDaemons = 2
  MaxRevision = 1
  Nil = Nil
INVARIANTS TypeOK OfferIsNewer OffersNeverCycle CacheNotStale TornNeverStored
PROPERTIES NewerIsOffered ClientsConnect ClientsReturn AppShowsTheTruth AppWorkEnds
CHECK_DEADLOCK FALSE

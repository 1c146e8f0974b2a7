SPECIFICATION Spec
CONSTANTS
  c1 = c1
  c2 = c2
  Clients = {c1, c2}
  Routes <- MCRoutes
  MaxSessions = 3
  MaxDepth = 2
  MaxWaits = 1
  NoToken = NoToken
  Nobody = Nobody
INVARIANTS TypeOK LockMeansOneGuard KnownUntilExpired DeletedOnlyFromAbove
PROPERTIES ImplementsStore EveryRequestEnds
CHECK_DEADLOCK FALSE

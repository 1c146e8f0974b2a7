SPECIFICATION Spec
CONSTANTS
  MaxCalls = 2
  MaxDepth = 2
  MaxEvents = 2
  Rounds = 2
  Password = FALSE
  Kids <- MCKids
INVARIANTS TypeOK LeftOnlyAfterRetry StuckOnlyByRace CertsDistinct
PROPERTIES GivesUpLate EveryWaitEnds
CHECK_DEADLOCK FALSE

SPECIFICATION Spec
CONSTANTS
  MaxCalls = 5
  Conds <- MCConds
  Plain <- MCPlain
  Selected <- MCSelected
  Tables <- MCTables
  Own <- MCOwn
  MaxRows = 1
  MaxEnded = 4
INVARIANTS SoundChainsParse AcceptedMeansAsked UpdateKeepsConditions EndsOfSoundChains ParamsAskForAll
CHECK_DEADLOCK FALSE

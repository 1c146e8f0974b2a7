SPECIFICATION Spec
CONSTANTS
  e1 = e1
  e2 = e2
  t1 = t1
  t2 = t2
  t3 = t3
  Entries = {e1, e2}
  Creator = e1
  Threads = {t1, t2}
  Home <- TwoHome
  Flushers = {t1, t2}
  Columns <- MCColumns
  DeletedAt <- MCDeletedAt
  Writers <- TwoWriters
  Value = {0, 1}
  Default = 0
  Null = Null
  NoRow = NoRow
  HasPrimary = TRUE
  SoftDelete = FALSE
  Faults = {}
  FineClock = TRUE
  MaxClock = 5
INVARIANTS TypeOK CleanMeansSaved
PROPERTIES NoClobber DeletedStaysDeleted ImplementsSharedRow

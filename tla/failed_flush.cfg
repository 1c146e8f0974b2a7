SPECIFICATION Spec
CONSTANTS
  e1 = e1
  e2 = e2
  t1 = t1
  t2 = t2
  t3 = t3
  Entries = {e1}
  Creator = e1
  Threads = {t1, t2}
  Home <- OneHome
  Flushers = {t1}
  Columns <- MCColumns
  DeletedAt <- MCDeletedAt
  Writers <- OneWriters
  Value = {0, 1}
  Default = 0
  Null = Null
  NoRow = NoRow
  HasPrimary = TRUE
  SoftDelete = FALSE
  Faults = {"unapplied"}
  FineClock = TRUE
  MaxClock = 5
INVARIANTS CleanMeansSaved

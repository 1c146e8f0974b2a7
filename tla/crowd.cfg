SPECIFICATION Spec
CONSTANTS
  e1 = e1
  e2 = e2
  t1 = t1
  t2 = t2
  t3 = t3
  Entries = {e1, e2}
  Creator = e1
  Threads = {t1, t2, t3}
  Home <- CrowdHome
  Flushers = {t1, t2, t3}
  Columns <- CrowdColumns
  DeletedAt <- MCDeletedAt
  Writers <- CrowdWriters
  Value = {0, 1}
  Default = 0
  Null = Null
  NoRow = NoRow
  HasPrimary = TRUE
  SoftDelete = TRUE
  Faults = {"unapplied", "lostReply"}
  FineClock = FALSE
  MaxClock = 3
INVARIANTS KnownRowIsStored
PROPERTIES NoClobber
SYMMETRY CrowdSymmetry

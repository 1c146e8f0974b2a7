SPECIFICATION MCFairSpec
CONSTANTS
  html = html
  errors = errors
  ab = ab
  deep = deep
  a = a
  abc = abc
  top = top
  e403 = e403
  e404 = e404
  e500 = e403
  MCOthers = {a, abc}
  Dirs <- MCDirs
  Root = html
  Files <- MCFiles
  Parent <- MCParent
  Extending <- MCExtending
  Mutable = {a}
  Error403 = e403
  Error404 = e404
  Error500 = e403
  Small = {1, 2}
  Big = Big
  Locked = Locked
  Absent = Absent
  NotCached = NotCached
  MaxFiles = 1
INVARIANTS TypeOK NotStale CacheBounded
PROPERTIES StaleCopyGoes EveryRequestAnswered

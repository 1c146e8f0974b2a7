SPECIFICATION MCSpec
CONSTANTS
  html = html
  errors = errors
  ab = ab
  deep = deep
  a = a
  abc = abc
  top = top
  e403 = e403
  e404 = e404
  e500 = e500
  MCOthers = {a, top}
  Dirs <- MCDirs
  Root = html
  Files <- MCFiles
  Parent <- MCParent
  Extending <- MCExtending
  Mutable = {top}
  Error403 = e403
  Error404 = e404
  Error500 = e500
  Small = {1, 2}
  Big = Big
  Locked = Locked
  Absent = Absent
  NotCached = NotCached
  MaxFiles = 1
INVARIANTS TreeIsWatched

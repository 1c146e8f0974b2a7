SPECIFICATION Spec
CONSTANTS
  h1 = h1
  h2 = h2
  k1 = k1
  k2 = k2
  Handles = {h1, h2}
  Keys = {k1, k2}
  NoKey = NoKey
  CacheTime = 1
  Modulus = 16
  MaxObjects = 4
  MaxBlocks = 8
  MaxClock = 2
SYMMETRY MCSymmetry
INVARIANTS TypeOK EntriesLive EntriesKeyed CachedUntilSwapped HarmNeedsSwap UncachedMeansOwned
CHECK_DEADLOCK FALSE

SPECIFICATION Spec
CONSTANTS
  Sessions = {s1, s2}
  Binaries = {b1, b2}
  Plugins <- Versions
  Contents <- Libraries
  None = None
  MaxStamp = 2
SYMMETRY Alike
INVARIANTS
  CacheTellsTruth
  CachedLikeFresh
  OffersAreAliveAndBest
  DirtyIsNews

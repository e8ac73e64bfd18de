SPECIFICATION Spec
CONSTANTS
  Sessions = {s1, s2}
  Binaries = {b1}
  Plugins <- Versions
  Contents <- Libraries
  None = None
  MaxStamp = 2
INVARIANT ListedAlive

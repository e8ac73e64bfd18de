CONSTANTS
  Threads = {t1, t2}
  Images = {i1, i2, i3}
  Sizes = {1, 2}
  MaxMemory = 2
  SizeT = 8
  IntMax = 3
  MaxBuffers = 3
  MaxRefs = 1
  None = None
SPECIFICATION Spec
SYMMETRY Symmetry
INVARIANTS RefCountIsClients MemoryNeverShared ImagesKeepTheirMemory
PROPERTIES NewDataWithinLimit NoResizeInUse

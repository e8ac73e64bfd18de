CONSTANTS
  Threads = {t1}
  Images = {i1, i2, i3}
  Sizes = {1, 2, 4}
  MaxMemory = 4
  SizeT = 16
  IntMax = 7
  MaxBuffers = 3
  MaxRefs = 1
  None = None
SPECIFICATION Spec
SYMMETRY Symmetry
INVARIANT PoppedImageServesRequest

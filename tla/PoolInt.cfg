CONSTANTS
  Threads = {t1}
  Images = {i1, i2, i3, i4}
  Sizes = {4}
  MaxMemory = 8
  SizeT = 64
  IntMax = 3
  MaxBuffers = 4
  MaxRefs = 1
  None = None
SPECIFICATION Spec
SYMMETRY Symmetry
PROPERTY NewDataWithinRAM

CONSTANTS
  Labels = {blur, gamma}
  Attrs = {s, t}
  MaxCount = 2
  MaxVertices = 3
SPECIFICATION Spec
SYMMETRY Symmetry
CHECK_DEADLOCK FALSE
INVARIANT DeletesTheUnconnected

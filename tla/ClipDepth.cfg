SPECIFICATION ClipSpec
CONSTANTS
  Nodes = {1, 2, 3, 4}
  ClipNames = {"s", "t"}
  Output = 9
  Nobody = Nobody
  ClipGraphs <- OneGraph
  Kinds <- ByteReader
  MaxComputes = 1
INVARIANT OneDepth
CHECK_DEADLOCK FALSE

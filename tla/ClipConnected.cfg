SPECIFICATION ClipSpec
CONSTANTS
  Nodes = {1, 2, 3, 4}
  ClipNames = {"s", "t"}
  Output = 9
  Nobody = Nobody
  ClipGraphs <- TwoGraphs
  Kinds <- PlainKinds
  MaxComputes = 2
INVARIANT ConnectedAsInGraph
CHECK_DEADLOCK FALSE

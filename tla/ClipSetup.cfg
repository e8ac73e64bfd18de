SPECIFICATION ClipSpec
CONSTANTS
  Nodes = {1, 2, 3, 4}
  ClipNames = {"s", "t"}
  Output = 9
  Nobody = Nobody
  ClipGraphs <- Mixed
  Kinds <- AllKinds
  MaxComputes = 2
INVARIANTS
  ConnectionsAgree
  ClipsSupported
  OneDepthUnhindered
CHECK_DEADLOCK FALSE

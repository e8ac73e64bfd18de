SPECIFICATION Spec
CONSTANTS
  Graphs <- AllGraphs
  Requests <- Asks
  Output = 9
  NoAnswer = NoAnswer
  IntMin <- MinusNine
  IntMax = 9
  MaxFrames = 2
INVARIANTS
  DomainsFollowInputs
  RangesObeyRequest
  DeployedTimesAreNeeded
  NeedsDeployed
CHECK_DEADLOCK FALSE

SPECIFICATION Spec
CONSTANTS
  Graphs <- TemporalDiamonds
  Requests <- NoOption
  Output = 9
  NoAnswer = NoAnswer
  IntMin <- MinusNine
  IntMax = 9
  MaxFrames = 1
INVARIANT EveryNeedDeployed
CHECK_DEADLOCK FALSE

CONSTANTS
  Nodes = {n1, n2}
  RangeLists <- SmallRanges
  NoFrame = NoFrame
SPECIFICATION Spec
CHECK_DEADLOCK FALSE
INVARIANTS SequencesClosed NodeDataAlive
PROPERTIES KeepsPromise Terminates

SPECIFICATION FairSpec
CONSTANTS
  Windows <- SmallWindows
  NbThreads = {0, 1}
  CPUs = {0, 2, 3, 4}
INVARIANTS
  RowsWrittenOnce
  ProgressExact
PROPERTY
  RenderEnds
CHECK_DEADLOCK FALSE

CONSTANTS
  Cases <- Frames
  Output = Output
  Rendered = Rendered
  Disabled = Disabled
  MaxIdentities = 2
SPECIFICATION Spec
CHECK_DEADLOCK FALSE
INVARIANTS PendingInputsCached RefsAreReaders
  ReadsDeclaredSources RenderedFinalsDelivered

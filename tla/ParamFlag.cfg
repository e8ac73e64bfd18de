\* A plugin that fails while it is told of a change.
CONSTANTS
  p = p
  q = q
  r = r
  Params <- MCParams
  dim <- MCDim
SPECIFICATION ChangeSpec
INVARIANT FlagMeansInProgress

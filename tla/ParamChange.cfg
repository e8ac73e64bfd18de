\* Three parameters, one of two components; edits without end.
CONSTANTS
  p = p
  q = q
  r = r
  Params <- MCParams
  dim <- MCDim
SPECIFICATION ChangeSpec
INVARIANTS
  NestingBounded
  EveryEditTold

\* An evaluation after the last key frame, when a key was deleted before.
CONSTANTS
  Times = {0, 1, 2, 3}
  Values = {0, 2}
  MaxKeys = 3
  Unwritten = Unwritten
  animated = animated
  moving = moving
  still = still
  top = top
  Graphs <- MCGraphs
  Animated <- MCAnimated
  Frames = {0, 1}
SPECIFICATION Spec
INVARIANT LastKeyHolds

\* The same generator read at the frame and one later, in the hash of the same frame.
CONSTANTS
  Times = {0, 1, 2, 3}
  Values = {0, 2}
  MaxKeys = 3
  Unwritten = Unwritten
  animated = animated
  moving = moving
  still = still
  top = top
  Graphs <- MCShifted
  Animated <- MCAnimated
  Frames = {0, 1}
SPECIFICATION Spec
INVARIANT ShiftTold

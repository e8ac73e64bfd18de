\* Graphs at time over one edited parameter: two frames, at most three key frames.
CONSTANTS
  Times = {0, 1, 2, 3}
  Values = {0, 2}
  MaxKeys = 3
  Unwritten = Unwritten
  animated = animated
  moving = moving
  still = still
  top = top
  Graphs <- MCGraphs
  Animated <- MCAnimated
  Frames = {0, 1}
SPECIFICATION Spec
INVARIANTS
  TypeOK
  ValueFollowsKeys
  KeyIndexNearest
  HashTellsPicture
  PictureTellsHash
\* The states after a picture of which the hash cannot tell add nothing.
CONSTRAINT
  OnlyTold

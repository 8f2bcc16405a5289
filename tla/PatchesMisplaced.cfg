CONSTANTS
  MaxSize = 5
  Scales = {2}
  Planes = {9}
  Dims = {5}
  Frames <- MCFrames
  NoPixel = NoPixel
SPECIFICATION Spec
CHECK_DEADLOCK FALSE
INVARIANTS
  RestoredAlwaysInPlace

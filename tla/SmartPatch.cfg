CONSTANTS
  MaxSize = 5
  Scales = {1, 2, 3}
  Planes = {3, 9}
  Dims = {2, 5}
  Frames <- MCFrames
  NoPixel = NoPixel
SPECIFICATION Spec
CHECK_DEADLOCK FALSE
INVARIANTS
  TypeOK
  PatchesTile
  BuffersFit
  PatchBuffersDisjoint
  EveryPixelWritten
  RestoredInPlace

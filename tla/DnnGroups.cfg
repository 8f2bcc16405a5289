CONSTANTS
  Requests = {r1, r2}
  MaxFrames = 6
  GroupSize = 2
  Kinds = {"group"}
  FrameNum = 0
  Faults = {}
SPECIFICATION FairSpec
CHECK_DEADLOCK FALSE
INVARIANTS
  GroupFramesAreTheirOwn

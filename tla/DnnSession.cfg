CONSTANTS
  Requests = {r1, r2}
  MaxFrames = 5
  GroupSize = 2
  Kinds = {"frame", "window", "group"}
  FrameNum = 0
  Faults = {"infer", "start", "quit"}
  FilterThread = filter
SPECIFICATION SessionFairSpec
CHECK_DEADLOCK FALSE
INVARIANTS
  DnnTypeOK
  FreeFindsNoInference
  FilterNeverSleeps
PROPERTIES
  FilterSpec
  EngineAsExpected
  StreamEnds
  BackendSpec

CONSTANTS
  Workers = {w1, w2}
  App = app
  NPatches = 2
  InferRequests = 1
  MaxFrames = 1
  Faults = {"infer"}
SPECIFICATION FairSpec
CHECK_DEADLOCK FALSE
PROPERTIES
  ProcessReturnsStatus

CONSTANTS
  Workers = {w1, w2}
  App = app
  NPatches = 1
  InferRequests = 2
  MaxFrames = 3
  Faults = {"infer", "start", "null", "grow"}
SPECIFICATION FairSpec
CHECK_DEADLOCK FALSE
PROPERTIES
  ServiceSpec
  ServiceProgress

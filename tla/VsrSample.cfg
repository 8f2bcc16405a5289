CONSTANTS
  Workers = {w1}
  App = app
  NPatches = 1
  InferRequests = 2
  MaxFrames = 3
  Faults = {"infer", "start", "null"}
  Nifs = {1, 3}
SPECIFICATION SampleSpec
CHECK_DEADLOCK FALSE
INVARIANTS
  EndsOnlyComplete
PROPERTIES
  SessionSpec
  CallbackArgsInSyncMode
  SampleEnds

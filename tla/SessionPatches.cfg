CONSTANTS
  Workers = {w1, w2}
  App = app
  NPatches = 2
  InferRequests = 1
  MaxFrames = 2
  Faults = {"infer", "start", "grow"}
SPECIFICATION FairSpec
CHECK_DEADLOCK FALSE
INVARIANTS
  TypeOK
  NoInferenceIntoFreedPatches
  PoolRestored
  PatchNeverWaits
  NoUseAfterDelete
PROPERTIES
  EngineSpec
  ExecutorSpec
  ServiceSpec
  CallsReturn

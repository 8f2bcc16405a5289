CONSTANTS
  Models <- MCModels
  NoModel = NoModel
  Targets <- MCTargets
  Reshapes <- MCReshapes
  Resolutions <- MCResolutions
  Junk = Junk
  MaxRequests = 2
  Versions = {TRUE, FALSE}
SPECIFICATION Spec
CHECK_DEADLOCK FALSE
INVARIANTS
  NoHalfSession
  ReshapeHonoured
  DevicesConfigured

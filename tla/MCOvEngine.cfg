CONSTANTS
  Callers = {t1, t2, t3}
  Jobs = {j1, j2, j3}
  NoJob = NoJob
  MaxRequests = 2
SPECIFICATION Spec
SYMMETRY Symmetry
CHECK_DEADLOCK FALSE
INVARIANTS
  TypeOK
  PoolPartition
  NoLostWakeUp
  JobInOnePlace

CONSTANTS
  Workers = {w1, w2}
  Tasks = {t1, t2, t3}
  NoTask = NoTask
SPECIFICATION Spec
SYMMETRY Symmetry
CHECK_DEADLOCK FALSE
INVARIANTS
  WaitAllIsABarrier
  TaskInOnePlace
  NoLostWakeUp
  StoppedIsDrained

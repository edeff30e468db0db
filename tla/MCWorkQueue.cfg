CONSTANTS
  Tasks = {t1, t2, t3}
  Workers = {w1, w2}
  NoTask = none
  LateAdds = FALSE
SPECIFICATION Spec
INVARIANTS
  TaskInOnePlace
  NoLostWakeup
  StopDrains
PROPERTIES
  EveryTaskProcessed
  StopReturns

SPECIFICATION Spec
CONSTANTS
  MAX = 2
  None = None
  TaskIds = {p1, p2}
  ThreadIds = {t1, t2, t3}
  MAX_TASKS = 2
  MAX_THREADS = 2
  DEFAULT_TIMESLICE = 1
SYMMETRY Symmetry
INVARIANT NoRecordFails
PROPERTY LifecycleSteps

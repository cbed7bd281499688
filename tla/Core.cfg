SPECIFICATION FairSpec
CONSTANTS
  TaskSizes = {4, 5}
  ThreadSizes = {4, 5}
  ReadySizes = {2, 5}
  MaxSpawns = 4
  None = None
INVARIANTS SchedulerSound TaskFollowsThread
PROPERTIES NoResurrection IdleOnlyWhenNothingReady 

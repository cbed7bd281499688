SPECIFICATION MCSpec
CONSTANTS
  MAX = 3
  READY = 3
  N = 3
  None = None
  Vacant = Vacant
  t1 = t1
  t2 = t2
  t3 = t3
  p1 = p1
  p2 = p2
  Threads <- MCThreads
  ProcessOf <- MCProcessOf
  ReadyThreads <- MCThreads
  Messages <- MCThreads
  Callers = {101, 102}
  Bodies = {"x", "y"}
  MaxProc = 5
  MaxCaps = 7
  MsgDepth = 2
  MaxPid = 5
INVARIANTS LiveWithinLen 
PROPERTIES  RingsAreFifo

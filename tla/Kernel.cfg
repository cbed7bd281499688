SPECIFICATION Spec
CONSTANTS
  MAX = 3
  None = None
  TaskIds = {1, 2}
  ThreadIds = {1, 2, 3}
  MAX_TASKS = 2
  MAX_THREADS = 3
  DEFAULT_TIMESLICE = 2
  MSG_DEPTH = 1
  MaxTimeouts = 1
  Workloads = {{"slice", "receive", "send", "clone", "service_send", "service_spawn"},
               {"slice", "futex_wait_timed", "futex_wake", "clone", "exit", "service_terminate"},
               {"slice", "fault", "yield", "block_ipc", "sleep", "wait4", "exit", "fork",
                "service_spawn", "service_terminate", "futex_wait", "futex_wake"},
               {"slice", "sleep", "timer", "receive", "clone", "service_send"}}
INVARIANTS  ZombieHoldsNothing 
PROPERTY SendTransactional

SPECIFICATION MCSpec
CONSTANTS
    MAX = 2
    None = None
    AnyId = AnyId
    Categories = {c1}
    Setups <- UsersAndPrivileged
    MAX_PENDING_SIGNALS = 2
    SLEEP_CAP = 2
    TIMER_CAP = 2
    Nil = Nil
    SIGKILL = 9
    SIGTERM = 15
    SIGCHLD = 17
    ProcessIds = {1, 2, 3}
    Signals = {9, 15}
    Masks = {{9, 15}}
    Durations = {1}
    TimerSettings <- Settings
    MaxNow = 2
    MaxTreeCalls = 4
INVARIANTS AuthorityBounded PrivilegesTraced DescriptorsSound 
CHECK_DEADLOCK FALSE

\* One process, one restart and two queries that overlap.
CONSTANTS
    socket = socket
    c1 = c1
    c2 = c2
    q1 = q1
    q2 = q2
    ProcessName = {socket}
    Child = {c1, c2}
    Query = {q1, q2}
    None = none
SPECIFICATION DaemonFairSpec
CHECK_DEADLOCK FALSE
INVARIANTS
    OneChildEach
    StatsAreOwn
PROPERTIES
    CrashedRestarts
    EveryQueryAnswered
    ShutdownLeavesNothing

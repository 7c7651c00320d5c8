SPECIFICATION Spec
CONSTANTS
    w1 = w1
    w2 = w2
    c1 = c1
    c2 = c2
    s1 = s1
    s2 = s2
    None = None
    Sweep = Sweep
    MaxBuilds = 1
    Workers = {w1}
    Conns = {c1}
    Slots = {s1, s2}
    Tokens = {1, 2}
    WorkerOf <- OneWorker
    PrioOf <- EqualPriority
    BuildArch <- OneArchBuilds
    WorkerArch <- OneArchWorkers
    Corrupt = {}
    Reports = {"success"}
    MaxMishaps = 1
    Events = {"sql_error", "drop", "revoke", "status", "reject", "restart"}
SYMMETRY SlotSymmetry
CHECK_DEADLOCK FALSE
INVARIANTS
    TypeOK
    QueuedIsHeld
    RevokingHasFinisher
    TimerMatchesEntry

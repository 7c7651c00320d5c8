SPECIFICATION Spec
CONSTANTS
    w1 = w1
    w2 = w2
    c1 = c1
    c2 = c2
    s1 = s1
    s2 = s2
    None = None
    Sweep = Sweep
    MaxBuilds = 1
    Workers = {w1}
    Conns = {c1, c2}
    Slots = {s1}
    Tokens = {1, 2}
    WorkerOf <- OneWorker
    PrioOf <- EqualPriority
    BuildArch <- OneArchBuilds
    WorkerArch <- OneArchWorkers
    Corrupt = {}
    Reports = {"success"}
    MaxMishaps = 1
    Events = {"status", "force_disconnect", "stopping"}
CHECK_DEADLOCK FALSE
INVARIANTS
    OneEntryPerWorker
    ActiveHasGuardian

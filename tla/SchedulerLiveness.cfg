CONSTANTS
    a = a
    b = b
    c = c
    w1 = w1
    w2 = w2
    p = p
    q = q
    Job = {a, b, c}
    Worker = {w1, w2}
    Project = {p, q}
    NoWorker = NoWorker
    NoLease = NoLease
    project <- MCcontended
    priority <- MCpriority
    dependencies <- MCdependencies
    max_attempts <- MCmax_attempts
    Accepts <- MCAccepts
    Concurrency = 1
    LeaseSeconds = 1
    BaseBackoff = 1
    BackoffCap = 3
    Delays = {0}
    LockWait = 0
    Horizon = 3
    MaxClock = 30
SPECIFICATION LiveSpec
PROPERTIES
    ReadyJobsSettle
    AttemptsEnd
CHECK_DEADLOCK FALSE

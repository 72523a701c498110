CONSTANTS
    a = a
    b = b
    c = c
    w1 = w1
    w2 = w2
    p = p
    q = q
    Job = {a, b, c}
    Worker = {w1, w2}
    Project = {p, q}
    NoWorker = NoWorker
    NoLease = NoLease
    project <- MCcontended
    priority <- MCpriority
    dependencies <- MCdependencies
    max_attempts <- MCmax_attempts
    Accepts <- MCAccepts
    Concurrency = 1
    LeaseSeconds = 2
    BaseBackoff = 1
    BackoffCap = 3
    Delays = {0}
    LockWait = 1
    Horizon = 4
    MaxClock = 4
    Process = {o1, o2, o3}
    Payload = {x1, x2}
    Missing = Missing
    Torn = Torn
    NoProcess = NoProcess
    Mortal = {o1, o2, o3}
    Faulty = {o1, o2, o3}
    Slow = FALSE
    OneRecovers = TRUE
SPECIFICATION ExclusionSpec
INVARIANTS
    SchedulerTypeOK
    LeaseAgreement
    ExclusiveExecution
    ConcurrencyLimit
    DependencyOrder
    TypeOK
    ExclusiveLock
    ReceiptTrue
PROPERTIES
    FencedResult
    KeepsQueuePromises
    KeepsFilePromises
CHECK_DEADLOCK FALSE

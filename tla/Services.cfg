CONSTANTS
    b = b
    i = i
    NoJob = NoJob
    Background = {b}
    Inline = {i}
    BadCommand = {b}
    Cancellable = {i}
    MortalJobs = {}
    Timed = {b, i}
    FaultyJobs = {}
    Passes = 0
    PageLimit = 1
    Connection = {x, y, z}
    MaxConcurrent = 2
    MaxStarts = 2
SPECIFICATION ServicesSpec
INVARIANTS
    ProxyTypeOK
    LoadBounded
    StopsDrained
PROPERTIES
    KeepsCompletionPromises
    StopRequestsHeeded
    OutcomesReported
    EventsDelivered
    ShutdownReturns
CHECK_DEADLOCK FALSE

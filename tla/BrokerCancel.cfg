CONSTANTS
    b = b
    i = i
    NoJob = NoJob
    Background = {b}
    Inline = {}
    BadCommand = {}
    Cancellable = {b}
    MortalJobs = {}
    Timed = {b}
    FaultyJobs = {}
    Passes = 0
    PageLimit = 1
SPECIFICATION FairBrokerSpec
PROPERTIES
    CancelledJobsSettle
CHECK_DEADLOCK FALSE

CONSTANTS
    d = d
    r1 = r1
    r2 = r2
    s = s
    c = c
    Digest = {d}
    Reference = {r1, r2}
    NoReference = NoReference
    NoDigest = NoDigest
    Writer = {s}
    Rotator = {c}
    Faulty = {s, c}
    Mortal = {c}
    CollectorDies = TRUE
    MaxVersion = 3
    b = b
    i = i
    NoJob = NoJob
    Background = {b}
    Inline = {}
    BadCommand = {}
    Cancellable = {b}
    MortalJobs = {b}
    Timed = {b}
    FaultyJobs = {b}
    Passes = 2
    PageLimit = 1
SPECIFICATION RecordsSpec
INVARIANTS
    TypeOK
    ReferencesCounted
    OnlyGarbageCollected
    BrokerTypeOK
    TruthfulRecords
    HandedOverOnce
    LinesBehindEvents
PROPERTIES
    LastCopyKept
    NoLiveJobOrphaned
    FinalStatesKept
CHECK_DEADLOCK FALSE

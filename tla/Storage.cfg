CONSTANTS
    s1 = s1
    s2 = s2
    s3 = s3
    c1 = c1
    c2 = c2
    Session = {s1, s2, s3}
    Caller = {c1}
    Compactor = c2
    NoRoot = NoRoot
    NoSession = NoSession
    LeafSize = 1
    Fanout = 2
    RecentEvents = 1
    MaxEvents = 2
    MaxCheckpoints = 2
    MaxClosed = 1
    w1 = w1
    w2 = w2
    o1 = o1
    HeadlessJob = {1, 2}
    Runner = {w1, w2}
    Operator = {o1}
    Nobody = Nobody
    MaxRequests = 2
    p1 = p1
    p2 = p2
    m1 = m1
    m2 = m2
    Policy = {p1, p2}
    NoPolicy = NoPolicy
    Manager = {m1, m2}
    MaxRows = 2
    Build = {a, b}
    TornFile = TornFile
    NoFile = NoFile
    MaxInstalls = 4
    Migrator = {m, n}
    LatestVersion = 3
    MaxBackups = 2
    settings = settings
    skill = skill
    Targets <- MCTargets
    Directory = {skill}
    Gone = Gone
    Shredded = Shredded
    MaxTransactions = 2
    MaxEdits = 2
SPECIFICATION StorageSpec
INVARIANTS
    DatabasesTypeOK
    SummariesWhole
    CheckpointsCovered
    ContextCovers
    ExecutionsAccounted
    InstallationsTypeOK
    UpdatesRecoverable
    MigratedOnce
    PreviousContentKept
CHECK_DEADLOCK FALSE

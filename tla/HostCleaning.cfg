CONSTANTS
    Build = {a, b}
    TornFile = TornFile
    NoFile = NoFile
    MaxInstalls = 0
    Migrator = {m}
    LatestVersion = 0
    MaxBackups = 0
    settings = settings
    skill = skill
    Targets <- MCTargets
    Directory = {skill}
    Gone = Gone
    Shredded = Shredded
    MaxTransactions = 1
    MaxEdits = 1
SPECIFICATION InstallationsSpec
INVARIANTS
    FailedApplyRestores
CHECK_DEADLOCK FALSE

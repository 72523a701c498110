CONSTANTS
    Build = {a, b}
    TornFile = TornFile
    NoFile = NoFile
    MaxInstalls = 3
SPECIFICATION DistributionSpec
INVARIANT FailedInstallRestores
CHECK_DEADLOCK FALSE

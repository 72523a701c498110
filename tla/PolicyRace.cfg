CONSTANTS
    Policy = {p}
    NoPolicy = NoPolicy
    Manager = {m1, m2}
    MaxRows = 3
SPECIFICATION RolloutSpec
INVARIANT StagesClimb
CHECK_DEADLOCK FALSE

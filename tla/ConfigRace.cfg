CONSTANTS
    Process = {p, q}
    Payload = {x, y}
    Missing = Missing
    Torn = Torn
    NoProcess = NoProcess
    Mortal = {p, q}
    Faulty = {}
    Slow = FALSE
    OneRecovers = FALSE
SPECIFICATION Spec
INVARIANTS
    ExclusiveLock
CHECK_DEADLOCK FALSE

CONSTANTS
    d = d
    r1 = r1
    r2 = r2
    s = s
    c = c
    Digest = {d}
    Reference = {r1}
    NoReference = NoReference
    NoDigest = NoDigest
    Writer = {s}
    Rotator = {s, c}
    Faulty = {}
    Mortal = {}
    CollectorDies = FALSE
    MaxVersion = 3
SPECIFICATION Spec
PROPERTIES
    LastCopyKept
CHECK_DEADLOCK FALSE

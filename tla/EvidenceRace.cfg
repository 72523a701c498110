CONSTANTS
    d = d
    r1 = r1
    r2 = r2
    s = s
    c = c
    Digest = {d}
    Reference = {r1}
    NoReference = NoReference
    NoDigest = NoDigest
    Writer = {s}
    Rotator = {}
    Faulty = {}
    Mortal = {}
    CollectorDies = FALSE
    MaxVersion = 3
SPECIFICATION Spec
INVARIANTS
    ReferencedReadable
CHECK_DEADLOCK FALSE

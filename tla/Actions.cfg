\* Two requests, single, bulk or e-mail, that overlap in every way; one crash.
SPECIFICATION Spec
CONSTANTS
    s = s
    m = m
    Nodes = {s, m}
    Kind <- ShimAndStub
    Requests = {r1, r2}
    MaxRestarts = 1
INVARIANTS
    TypeOK
    CarriedIsAccounted
    BulkIsWhole
PROPERTIES
    ImplementsTrail
CHECK_DEADLOCK FALSE
SYMMETRY Symmetry

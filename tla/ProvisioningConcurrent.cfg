\* Two handlers at a time; a handler may block the event loop.
SPECIFICATION Spec
CONSTANTS
    a = a
    b = b
    c = c
    Sites = {a, b}
    Kind <- AllShim
    Requests = {r1, r2}
    Deletable = {}
    Redirecting = {}
    OrgIds = {"fits"}
    MaxOps = 2
    MaxRestarts = 0
INVARIANTS
    TypeOK
    PlacementMatchesAudit
    AuditTellsTruth
    PlacementsAreGrounded
SYMMETRY Symmetry
CHECK_DEADLOCK FALSE

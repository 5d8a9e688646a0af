\* One handler at a time, over a site that works, one without mutations and one
\* that is not registered; the one that works may be deleted meanwhile.  After that and
\* MaxOps requests there is nothing left to do: the deadlock is no error.
SPECIFICATION FairSpec
CONSTANTS
    a = a
    b = b
    c = c
    Sites = {a, b, c}
    Kind <- StubAndAbsent
    Requests = {r1}
    Deletable = {a}
    Redirecting = {}
    OrgIds = {"fits"}
    MaxOps = 2
    MaxRestarts = 1
INVARIANTS
    PlacementMatchesAudit
    PlacementsAreGrounded
PROPERTIES
    
    DriftIsNoticed
CHECK_DEADLOCK FALSE

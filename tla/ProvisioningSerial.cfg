\* One handler at a time, two sites, two operator requests and a crash; b redirects commands.
SPECIFICATION Spec
CONSTANTS
    a = a
    b = b
    c = c
    Sites = {a, b}
    Kind <- AllShim
    Requests = {r1}
    Deletable = {}
    Redirecting = {b}
    OrgIds = {"fits", "long", "nourl"}
    MaxOps = 2
    MaxRestarts = 1
INVARIANTS
    MissingMeansGone
    RevokedWasTurnedOff
    EveryTargetRecorded
    EveryCreationAudited
